--------------------------- MODULE Objects_proofs ---------------------------
(* Proofs about the three machines of Objects, one after the other: the contexts
   with their lists of objects (Contexts), for any threads, contexts and names; the
   lists of shaders and programs (ShaderObjects), for any threads and names and
   whatever OpenGL may give which name; and the hash table (HashTable), for every
   set of keys, every hash and every width.  Each is then proved to be a part of
   their product. *)
EXTENDS Objects, FiniteSetTheorems, TLAPS

-----------------------------------------------------------------------------
(* CONTEXTS *)

(* Where a thread is, and where it goes. *)
Listing(t) == pc[t].at \in {"lock", "check", "set"}

(* The records of pc, by where a thread is. *)
LEMMA Records ==
    ASSUME NEW r \in PC
    PROVE  /\ r.at \in {"idle", "made_current", "free", "destroy", "lock", "check", "set"}
           /\ r.at = "idle" => r = Idle
           /\ r.at = "made_current" => r.ctx \in Context \cup {Null}
           /\ r.at = "free" => r.ctx \in Context /\ [r EXCEPT !.at = "destroy"] = [at |-> "destroy", ctx |-> r.ctx]
           /\ r.at = "destroy" => r.ctx \in Context
           /\ r.at \in {"lock", "check", "set"} => r.name \in Name
           /\ r.at \in {"lock", "check"} => r.op \in {"add", "delete"}
           /\ r.at = "lock" => [r EXCEPT !.at = "check"] = [at |-> "check", op |-> r.op, name |-> r.name]
           /\ r.at = "set" => r.op \in {"add", "delete", "none"}
<1>1. CASE r = Idle
  BY <1>1 DEF Idle
<1>2. CASE r \in [at : {"made_current"}, ctx : Context \cup {Null}]
  BY <1>2
<1>3. CASE r \in [at : {"free", "destroy"}, ctx : Context]
  BY <1>3
<1>4. CASE r \in [at : {"lock", "check"}, op : {"add", "delete"}, name : Name]
  BY <1>4
<1>5. CASE r \in [at : {"set"}, op : {"add", "delete", "none"}, name : Name]
  BY <1>5
<1> QED
  BY <1>1, <1>2, <1>3, <1>4, <1>5 DEF PC

(* A step of one thread leaves where the others are. *)
LEMMA GotoPC ==
    ASSUME TypeOK, NEW t \in Thread, NEW r \in PC, Goto(t, r)
    PROVE  ~crashed /\ pc' \in [Thread -> PC] /\ pc'[t] = r /\ \A u \in Thread : u # t => pc'[u] = pc[u]
BY DEF Goto, TypeOK

\* Where the actions send a thread.
LEMMA Places ==
    /\ Idle \in PC
    /\ \A c \in Context \cup {Null} : [at |-> "made_current", ctx |-> c] \in PC
    /\ \A c \in Context : [at |-> "free", ctx |-> c] \in PC /\ [at |-> "destroy", ctx |-> c] \in PC
    /\ \A x \in Name, op \in {"add", "delete"} :
          [at |-> "lock", op |-> op, name |-> x] \in PC /\ [at |-> "check", op |-> op, name |-> x] \in PC
    /\ \A x \in Name, op \in {"add", "delete", "none"} : [at |-> "set", op |-> op, name |-> x] \in PC
BY DEF PC

\* The record without a field ctx, op or name stands for none of those.
LEMMA AtPC ==
    ASSUME TypeOK, NEW t \in Thread
    PROVE  pc[t] \in PC
BY DEF TypeOK

\* A context that has a namespace has one of its own share group.
LEMMA NamespaceGroup ==
    ASSUME IInv, NEW c \in Context, namespace[c] # Null
    PROVE  /\ group[c] \in Context /\ namespace[c] \in Namespaces(group[c])
           /\ namespace[c] = c \/ (initial_values[c] = namespace[c] /\ initial_values[namespace[c]] = namespace[c])
<1>1. namespace[c] \in Context /\ c \in DOMAIN initial_values /\ group[c] \in Context \cup {Null}
  BY DEF IInv, TypeOK, NamespaceInv, ContextOrNull
<1>2. group[c] # Null /\ namespace_objects[namespace[c]] # Null
  BY <1>1 DEF IInv, RootInv, NamespaceInv
<1>3. namespace[c] = c \/ namespace[c] = initial_values[c]
  BY DEF IInv, NamespaceInv
<1>4. CASE namespace[c] = c
  BY <1>1, <1>2, <1>4 DEF Namespaces
<1>5. CASE namespace[c] = initial_values[c]
  <2>1. group[namespace[c]] = group[c] /\ initial_values[namespace[c]] = namespace[c]
    BY <1>1, <1>5 DEF IInv, RootInv
  <2> QED
    BY <1>1, <1>2, <1>5, <2>1 DEF Namespaces
<1> QED
  BY <1>3, <1>4, <1>5

\* A thread that lists has the namespace of its context, in the share group of that.
LEMMA ThreadNamespace ==
    ASSUME IInv, NEW t \in Thread, pc[t].at # "made_current", Namespace(t) # Null
    PROVE  /\ gl_current[t] \in Context /\ current[t] = gl_current[t] /\ Group(t) \in Context
           /\ Namespace(t) \in Context /\ Namespace(t) \in Namespaces(Group(t))
<1>1. current[t] # Null /\ namespace[current[t]] # Null /\ Namespace(t) = namespace[current[t]]
  BY DEF Namespace
<1>2. current[t] = gl_current[t] /\ gl_current[t] \in Context
  BY <1>1 DEF IInv, TypeOK, CurrentInv
<1> QED
  BY <1>1, <1>2, NamespaceGroup DEF Group, Namespaces

\* Two threads that have the mutex of one namespace are the same.
LEMMA SetterAlone ==
    ASSUME IInv, NEW t \in Thread, NEW u \in Thread, t # u,
           pc[t].at \in {"check", "set"}, pc[u].at \in {"check", "set"}
    PROVE  Namespace(t) # Namespace(u)
BY DEF IInv, MutexInv
-----------------------------------------------------------------------------
(* Who is busy with a name does not change in a step that leaves the threads that
   list, and their share groups, as they were. *)
ListersStay == \A u \in Thread : \/ pc'[u] = pc[u] /\ (Listing(u) => Group(u)' = Group(u))
                                 \/ ~Listing(u) /\ ~Listing(u)'

(* A step that moves no thread between the steps of listing leaves who is busy with
   which name. *)
LEMMA SameBusy ==
    ASSUME ListersStay
    PROVE  /\ \A u \in Thread : \A g, x, op : Busy(u, g, x, op)' <=> Busy(u, g, x, op)
           /\ \A u \in Thread : \A g, x, op : Busy(u, g, x, op) => pc'[u] = pc[u]
           /\ \A g, x, op : Waits(g, x, op)' <=> Waits(g, x, op)
<1>1. \A u \in Thread : \A g, x, op : Busy(u, g, x, op)' <=> Busy(u, g, x, op)
  BY DEF ListersStay, Busy, Touched, Listing
<1>2. \A u \in Thread : \A g, x, op : Busy(u, g, x, op) => pc'[u] = pc[u]
  BY DEF ListersStay, Busy, Touched, Listing
<1>3. \A g, x, op : Waits(g, x, op)' <=> Waits(g, x, op)
  BY <1>1, <1>2 DEF Waits
<1> QED
  BY <1>1, <1>2, <1>3

\* ListInv for one share group, and for one name in it.
GroupListed(g) ==
    \A x \in Name :
        /\ Namespaces(g) = {} /\ <<g, x>> \in alive => \E t \in Thread : Busy(t, g, x, "add")
        /\ \A n \in Context : Namespaces(g) = {n} /\ Valid(n) =>
              /\ <<g, x>> \in alive /\ x \notin objects[n] => \E t \in Thread : Busy(t, g, x, "add")
              /\ <<g, x>> \notin alive /\ x \in objects[n] => \E t \in Thread : Busy(t, g, x, "delete")
              /\ \A t \in Thread : pc[t].at = "set" =>
                    /\ Busy(t, g, x, "add") => <<g, x>> \in alive \/ Waits(g, x, "delete")
                    /\ Busy(t, g, x, "delete") => <<g, x>> \notin alive \/ Waits(g, x, "add")

(* A list is right when it is so for each share group. *)
LEMMA ByGroup == /\ ListInv => \A g \in Context : GroupListed(g)
                 /\ (\A g \in Context : GroupListed(g)') => ListInv'
<1>1. ListInv => \A g \in Context : GroupListed(g)
  BY DEF ListInv, GroupListed
<1>2. (\A g \in Context : GroupListed(g)') => ListInv'
  BY DEF ListInv, GroupListed
<1> QED
  BY <1>1, <1>2

\* A share group of which no namespace, list or name changes is listed as before.
LEMMA SameGroup ==
    ASSUME ListersStay, NEW g \in Context, GroupListed(g), Namespaces(g)' = Namespaces(g),
           UNCHANGED alive, \A n \in Namespaces(g) : objects'[n] = objects[n] /\ (Valid(n)' => Valid(n))
    PROVE  GroupListed(g)'
<1> SUFFICES ASSUME NEW x \in Name
    PROVE  /\ Namespaces(g) = {} /\ <<g, x>> \in alive => \E t \in Thread : Busy(t, g, x, "add")'
           /\ \A n \in Context : Namespaces(g) = {n} /\ Valid(n)' =>
              /\ <<g, x>> \in alive /\ x \notin objects'[n] => \E t \in Thread : Busy(t, g, x, "add")'
              /\ <<g, x>> \notin alive /\ x \in objects'[n] => \E t \in Thread : Busy(t, g, x, "delete")'
              /\ \A t \in Thread : pc'[t].at = "set" =>
                    /\ Busy(t, g, x, "add")' => <<g, x>> \in alive \/ Waits(g, x, "delete")'
                    /\ Busy(t, g, x, "delete")' => <<g, x>> \notin alive \/ Waits(g, x, "add")'
  BY DEF GroupListed
<1>1. Namespaces(g) = {} /\ <<g, x>> \in alive => \E t \in Thread : Busy(t, g, x, "add")'
  BY SameBusy DEF GroupListed
<1>2. ASSUME NEW n \in Context, Namespaces(g) = {n}, Valid(n)'
      PROVE  /\ <<g, x>> \in alive /\ x \notin objects'[n] => \E t \in Thread : Busy(t, g, x, "add")'
             /\ <<g, x>> \notin alive /\ x \in objects'[n] => \E t \in Thread : Busy(t, g, x, "delete")'
             /\ \A t \in Thread : pc'[t].at = "set" =>
                   /\ Busy(t, g, x, "add")' => <<g, x>> \in alive \/ Waits(g, x, "delete")'
                   /\ Busy(t, g, x, "delete")' => <<g, x>> \notin alive \/ Waits(g, x, "add")'
  <2>1. objects'[n] = objects[n] /\ Valid(n)
    BY <1>2
  <2>2. /\ <<g, x>> \in alive /\ x \notin objects[n] => \E t \in Thread : Busy(t, g, x, "add")
        /\ <<g, x>> \notin alive /\ x \in objects[n] => \E t \in Thread : Busy(t, g, x, "delete")
        /\ \A t \in Thread : pc[t].at = "set" =>
              /\ Busy(t, g, x, "add") => <<g, x>> \in alive \/ Waits(g, x, "delete")
              /\ Busy(t, g, x, "delete") => <<g, x>> \notin alive \/ Waits(g, x, "add")
    BY <1>2, <2>1 DEF GroupListed
  <2> QED
    BY <2>1, <2>2, SameBusy
<1> QED
  BY <1>1, <1>2
-----------------------------------------------------------------------------
(* The steps that change what is known of the contexts.  None of them concerns a
   thread that lists. *)
LEMMA InitInv == ASSUME Init PROVE IInv
<1> USE NullAssumption DEF Init
<1>1. Idle \in PC /\ \A t \in Thread : pc[t] = Idle /\ pc[t].at = "idle"
  BY DEF PC, Idle
<1>2. TypeOK
  <2>1. pc \in [Thread -> PC]
    BY <1>1
  <2>2. group \in ContextOrNull
    BY DEF ContextOrNull
  <2> QED
    BY <2>1, <2>2 DEF TypeOK, ContextOrNull, Nowhere
<1>3. GlInv /\ ObjectInv /\ CurrentInv
  BY <1>1 DEF GlInv, ObjectInv, CurrentInv, Destroying, Nowhere
<1>4. RootInv /\ NamespaceInv /\ MutexInv
  BY <1>1 DEF RootInv, NamespaceInv, MutexInv, Nowhere
<1>5. ListInv
  BY DEF ListInv, Namespaces, Nowhere
<1> QED
  BY <1>2, <1>3, <1>4, <1>5 DEF IInv

\* A new context has no namespace, nor is it the share group of any context so far.
LEMMA CreateInv ==
    ASSUME IInv, NEW t \in Thread, NEW c \in Context, NEW with \in Context \cup {Null},
           Create(t, c, with)
    PROVE  IInv'
<1> DEFINE g == IF with = Null THEN c ELSE group[with]
<1>1. TypeOK /\ GlInv /\ RootInv /\ NamespaceInv
  BY DEF IInv
<1>2. g \in Context /\ g # Null
  BY <1>1, NullAssumption DEF Create, Usable, TypeOK, ContextOrNull
<1>3. group[c] = Null /\ group' = [group EXCEPT ![c] = g]
  BY DEF Create
<1> HIDE DEF g
<1>4. group' \in ContextOrNull /\ group'[c] = g /\ \A d \in Context : d # c => group'[d] = group[d]
  BY <1>1, <1>2, <1>3 DEF TypeOK, ContextOrNull
<1>5. c \notin DOMAIN initial_values /\ namespace_objects[c] = Null /\ namespace[c] = Null
  BY <1>1, <1>3 DEF RootInv, NamespaceInv
<1>6. RootOf(c, with) \in Context \cup {Null}
  BY <1>1 DEF RootOf, TypeOK
<1>7. /\ DOMAIN initial_values' = DOMAIN initial_values \cup {c}
      /\ initial_values'[c] = RootOf(c, with)
      /\ \A d \in DOMAIN initial_values : initial_values'[d] = initial_values[d]
  BY <1>5 DEF Create
<1>8. /\ UNCHANGED <<gl_current, alive, destroyed, context_objects, freed, namespace_objects,
                     current, namespace, objects, mutex, pc, crashed>>
      /\ share' = [share EXCEPT ![c] = with]
  BY DEF Create
<1>9. TypeOK'
  <2>1. DOMAIN initial_values' \subseteq Context
        /\ \A d \in DOMAIN initial_values' : initial_values'[d] \in Context \cup {Null}
    BY <1>1, <1>6, <1>7 DEF TypeOK
  <2>2. share' \in ContextOrNull
    BY <1>1, <1>8 DEF TypeOK, ContextOrNull
  <2> QED
    BY <1>1, <1>4, <1>8, <2>1, <2>2 DEF TypeOK
<1>10. GlInv'
  <2>1. \A u \in Thread : gl_current[u] # Null => gl_current[u] \in Context /\ gl_current[u] # c
    BY <1>1, <1>3 DEF TypeOK, GlInv
  <2>2. \A u \in Thread : gl_current'[u] # Null => group'[gl_current'[u]] # Null
    BY <1>1, <1>4, <1>8, <2>1 DEF GlInv
  <2> QED
    BY <1>1, <1>8, <2>2 DEF GlInv, Destroying
<1>11. ObjectInv' /\ CurrentInv'
  BY <1>8 DEF IInv, ObjectInv, CurrentInv, Destroying
<1>12. RootInv'
  <2>1. ASSUME NEW d \in DOMAIN initial_values
        PROVE  /\ group'[d] = group[d] /\ group'[d] # Null
               /\ initial_values'[d] # Null =>
                     /\ initial_values'[d] \in DOMAIN initial_values'
                     /\ initial_values'[initial_values'[d]] = initial_values'[d]
                     /\ group'[initial_values'[d]] = group'[d]
    <3>1. d \in Context /\ group[d] # Null
      BY <1>1 DEF RootInv, TypeOK
    <3>2. group'[d] = group[d]
      BY <1>3, <1>4, <3>1
    <3>3. initial_values[d] # Null =>
             /\ initial_values[d] \in DOMAIN initial_values
             /\ initial_values[initial_values[d]] = initial_values[d]
             /\ group[initial_values[d]] = group[d]
      BY <1>1 DEF RootInv
    <3>4. initial_values[d] # Null => group'[initial_values[d]] = group[initial_values[d]]
      BY <1>1, <1>4, <1>5, <3>3 DEF TypeOK
    <3> QED
      BY <1>7, <3>1, <3>2, <3>3, <3>4
  <2>2. ASSUME RootOf(c, with) # Null
        PROVE  /\ RootOf(c, with) \in DOMAIN initial_values'
               /\ initial_values'[RootOf(c, with)] = RootOf(c, with)
               /\ group'[RootOf(c, with)] = group'[c]
    <3>1. with # Null
      BY <2>2 DEF RootOf
    <3>2. CASE with \in DOMAIN initial_values
      <4>1. RootOf(c, with) = initial_values[with] /\ initial_values[with] # Null
        BY <2>2, <3>1, <3>2 DEF RootOf
      <4>2. /\ initial_values[with] \in DOMAIN initial_values
            /\ initial_values[initial_values[with]] = initial_values[with]
            /\ group[initial_values[with]] = group[with]
        BY <1>1, <3>2, <4>1 DEF RootInv
      <4>3. group'[initial_values[with]] = group[with] /\ g = group[with]
        BY <2>1, <3>1, <4>2 DEF g
      <4> QED
        BY <1>4, <1>7, <4>1, <4>2, <4>3
    <3>3. CASE with \notin DOMAIN initial_values
      <4>1. RootOf(c, with) = c
        BY <3>1, <3>3 DEF RootOf
      <4> QED
        BY <1>7, <4>1
    <3> QED
      BY <3>2, <3>3
  <2>3. group'[c] # Null
    BY <1>2, <1>4
  <2> QED
    BY <1>7, <2>1, <2>2, <2>3 DEF RootInv
<1>13. NamespaceInv'
  <2>1. ASSUME NEW d \in Context, namespace[d] # Null
        PROVE  /\ d \in DOMAIN initial_values' /\ initial_values'[d] = initial_values[d]
               /\ context_objects[d] # Null \/ d \in freed
               /\ namespace[d] = d \/ namespace[d] = initial_values[d]
               /\ namespace_objects[namespace[d]] # Null
    BY <1>1, <1>7, <2>1 DEF NamespaceInv
  <2>2. \A d \in Context : namespace_objects[d] # Null => namespace_objects[d] = d /\ namespace[d] # Null
    BY <1>1 DEF NamespaceInv
  <2> QED
    BY <1>8, <2>1, <2>2 DEF NamespaceInv
<1>14. MutexInv'
  BY <1>8 DEF IInv, MutexInv, Namespace
<1>15. ListersStay
  <2>1. ASSUME NEW u \in Thread, Listing(u) PROVE Group(u)' = Group(u)
    <3>1. gl_current[u] # Null /\ gl_current[u] \in Context
      BY <1>1, <2>1 DEF GlInv, Listing, TypeOK
    <3>2. gl_current[u] # c
      BY <1>1, <1>3, <3>1 DEF GlInv
    <3> QED
      BY <1>4, <1>8, <3>1, <3>2 DEF Group
  <2> QED
    BY <1>8, <2>1 DEF ListersStay
<1>16. ASSUME NEW h \in Context PROVE GroupListed(h)'
  <2>1. Namespaces(h)' = Namespaces(h)
    BY <1>4, <1>5, <1>8 DEF Namespaces
  <2>2. \A n \in Namespaces(h) : objects'[n] = objects[n] /\ (Valid(n)' => Valid(n))
    <3>1. \A n \in Namespaces(h) : n \in DOMAIN initial_values
      BY <1>1 DEF Namespaces, NamespaceInv
    <3> QED
      BY <1>7, <1>8, <3>1 DEF Valid
  <2>3. GroupListed(h)
    BY ByGroup DEF IInv
  <2> QED
    BY <1>8, <1>15, <2>1, <2>2, <2>3, SameGroup
<1>17. ListInv'
  BY <1>16, ByGroup
<1> QED
  BY <1>9, <1>10, <1>11, <1>12, <1>13, <1>14, <1>17 DEF IInv

\* Where the namespaces and the lists stay, and no context comes back, the lists are
\* as right as before.
LEMMA ListsStay ==
    ASSUME IInv, ListersStay, UNCHANGED <<group, alive, initial_values, namespace_objects, objects>>,
           destroyed \subseteq destroyed'
    PROVE  ListInv'
<1>1. ASSUME NEW g \in Context PROVE GroupListed(g)'
  <2>1. Namespaces(g)' = Namespaces(g) /\ GroupListed(g)
    BY ByGroup DEF Namespaces, IInv
  <2>2. \A n \in Namespaces(g) : objects'[n] = objects[n] /\ (Valid(n)' => Valid(n))
    BY DEF Valid
  <2> QED
    BY <2>1, <2>2, SameGroup
<1> QED
  BY <1>1, ByGroup

(* The real glXMakeCurrent, which may fail, keeps the invariant. *)
LEMMA MakeCurrentInv ==
    ASSUME IInv, NEW t \in Thread, NEW c \in Context \cup {Null}, MakeCurrent(t, c)
    PROVE  IInv'
<1> DEFINE r == [at |-> "made_current", ctx |-> c]
<1>1. TypeOK /\ GlInv /\ pc[t].at = "idle" /\ r \in PC /\ Goto(t, r)
  BY Places DEF IInv, MakeCurrent, At
<1>2. pc' \in [Thread -> PC] /\ pc'[t] = r /\ \A u \in Thread : u # t => pc'[u] = pc[u]
  BY <1>1, GotoPC
<1>3. pc'[t].at = "made_current"
  BY <1>2
<1> HIDE DEF r
<1>4. UNCHANGED <<group, share, alive, destroyed, tracked, objects, mutex, crashed>>
  BY DEF MakeCurrent
<1>5. gl_current' \in [Thread -> Context \cup {Null}] /\ \A u \in Thread : u # t => gl_current'[u] = gl_current[u]
  BY <1>1 DEF MakeCurrent, TypeOK
<1>6. \/ gl_current'[t] = gl_current[t]
      \/ gl_current'[t] = c /\ (c = Null \/ \A u \in Thread \ {t} : gl_current[u] # c)
  BY <1>1 DEF MakeCurrent, TypeOK
<1>7. TypeOK'
  BY <1>1, <1>2, <1>4, <1>5 DEF TypeOK, tracked
<1>8. GlInv'
  <2>1. c # Null => group[c] # Null /\ \A u \in Thread : ~Destroying(u, c)
    BY DEF MakeCurrent, Usable, Destroying
  <2>2. \A u \in Thread : gl_current'[u] # Null => group'[gl_current'[u]] # Null
    BY <1>1, <1>4, <1>5, <1>6, <2>1 DEF GlInv
  <2>3. \A u, v \in Thread : u # v /\ gl_current'[u] # Null => gl_current'[v] # gl_current'[u]
    BY <1>1, <1>5, <1>6 DEF GlInv
  <2>4. \A u \in Thread, d \in Context : Destroying(u, d)' => Destroying(u, d)
    BY <1>2, <1>3 DEF Destroying
  <2>5. ASSUME NEW u \in Thread, NEW v \in Thread, NEW d \in Context, u # v, Destroying(u, d)'
        PROVE  gl_current'[v] # d
    <3>1. Destroying(u, d) /\ gl_current[v] # d
      BY <1>1, <2>4, <2>5 DEF GlInv
    <3>2. v = t /\ gl_current'[t] = c => d # c
      BY <2>1, <3>1, NullAssumption
    <3> QED
      BY <1>5, <1>6, <3>1, <3>2
  <2>6. \A u \in Thread : pc'[u].at \in {"lock", "check", "set"} => gl_current'[u] # Null
    BY <1>1, <1>2, <1>3, <1>5 DEF GlInv
  <2> QED
    BY <2>2, <2>3, <2>5, <2>6 DEF GlInv
<1>9. ObjectInv'
  <2>1. \A u \in Thread, d \in Context : Destroying(u, d) => Destroying(u, d)'
    BY <1>1, <1>2 DEF Destroying
  <2> QED
    BY <1>4, <2>1 DEF IInv, ObjectInv, tracked
<1>10. CurrentInv'
  BY <1>2, <1>3, <1>4, <1>5 DEF IInv, CurrentInv, tracked
<1>11. RootInv' /\ NamespaceInv'
  BY <1>4 DEF IInv, RootInv, NamespaceInv, tracked
<1>12. MutexInv'
  BY <1>2, <1>3, <1>4 DEF IInv, MutexInv, Namespace, tracked
<1>13. ListersStay
  BY <1>1, <1>2, <1>3, <1>4, <1>5 DEF ListersStay, Listing, Group
<1>14. ListInv'
  BY <1>4, <1>13, ListsStay DEF tracked
<1> QED
  BY <1>7, <1>8, <1>9, <1>10, <1>11, <1>12, <1>14 DEF IInv

(* The start of glXDestroyContext keeps the invariant. *)
LEMMA DestroyCallInv ==
    ASSUME IInv, NEW t \in Thread, NEW c \in Context, DestroyCall(t, c)
    PROVE  IInv'
<1> DEFINE r == [at |-> "free", ctx |-> c]
<1>1. TypeOK /\ GlInv /\ pc[t].at = "idle" /\ r \in PC /\ Goto(t, r)
  BY Places DEF IInv, DestroyCall, At
<1>2. pc' \in [Thread -> PC] /\ pc'[t] = r /\ \A u \in Thread : u # t => pc'[u] = pc[u]
  BY <1>1, GotoPC
<1>3. pc'[t].at = "free" /\ pc'[t].ctx = c
  BY <1>2
<1> HIDE DEF r
<1>4. UNCHANGED <<opengl, tracked, objects, mutex, crashed>> /\ \A u \in Thread \ {t} : gl_current[u] # c
  BY DEF DestroyCall
<1>5. TypeOK'
  BY <1>1, <1>2, <1>4 DEF TypeOK, tracked, opengl
<1>6. \A u \in Thread, d \in Context : Destroying(u, d)' <=> Destroying(u, d) \/ (u = t /\ d = c)
  BY <1>1, <1>2, <1>3 DEF Destroying
<1>7. GlInv'
  <2>1. \A u, v \in Thread, d \in Context : u # v /\ Destroying(u, d)' => gl_current'[v] # d
    BY <1>1, <1>4, <1>6 DEF GlInv, opengl
  <2>2. \A u \in Thread : pc'[u].at \in {"lock", "check", "set"} => gl_current'[u] # Null
    BY <1>1, <1>2, <1>3, <1>4 DEF GlInv, opengl
  <2> QED
    BY <1>1, <1>4, <2>1, <2>2 DEF GlInv, opengl
<1>8. ObjectInv'
  BY <1>4, <1>6 DEF IInv, ObjectInv, tracked, opengl
<1>9. CurrentInv'
  BY <1>1, <1>2, <1>3, <1>4 DEF IInv, CurrentInv, tracked, opengl
<1>10. RootInv' /\ NamespaceInv'
  BY <1>4 DEF IInv, RootInv, NamespaceInv, tracked, opengl
<1>11. MutexInv'
  BY <1>2, <1>3, <1>4 DEF IInv, MutexInv, Namespace, tracked
<1>12. ListersStay
  BY <1>1, <1>2, <1>3, <1>4 DEF ListersStay, Listing, Group, opengl
<1>13. ListInv'
  BY <1>4, <1>12, ListsStay DEF tracked, opengl
<1> QED
  BY <1>5, <1>7, <1>8, <1>9, <1>10, <1>11, <1>13 DEF IInv

\* The object of a context goes, and with it what the thread takes to be current.
LEMMA FreeInv == ASSUME IInv, NEW t \in Thread, Free(t) PROVE IInv'
<1> DEFINE c == pc[t].ctx
           r == [at |-> "destroy", ctx |-> c]
<1>1. TypeOK /\ GlInv /\ pc[t].at = "free" /\ pc[t] \in PC
  BY AtPC DEF IInv, Free, At
<1>2. c \in Context /\ c # Null /\ r \in PC /\ Goto(t, r)
  BY <1>1, Records, Places, NullAssumption DEF Free
<1>3. pc' \in [Thread -> PC] /\ pc'[t] = r /\ \A u \in Thread : u # t => pc'[u] = pc[u]
  BY <1>1, <1>2, GotoPC
<1>4. pc'[t].at = "destroy" /\ pc'[t].ctx = c /\ Destroying(t, c)
  BY <1>1, <1>3 DEF Destroying
<1>5. /\ context_objects' = [context_objects EXCEPT ![c] = Null]
      /\ freed' = freed \cup ({context_objects[c]} \ {Null})
      /\ current' = IF current[t] = c THEN [current EXCEPT ![t] = Null] ELSE current
      /\ UNCHANGED <<opengl, initial_values, namespace_objects, namespace, objects, mutex, crashed>>
  BY DEF Free
<1> HIDE DEF r, c
<1>6. context_objects' \in ContextOrNull /\ context_objects'[c] = Null
      /\ \A d \in Context : d # c => context_objects'[d] = context_objects[d]
  BY <1>1, <1>2, <1>5 DEF TypeOK, ContextOrNull
<1>7. freed' = IF context_objects[c] = Null THEN freed ELSE freed \cup {c}
  BY <1>2, <1>5 DEF IInv, ObjectInv
<1>8. current' \in [Thread -> Context \cup {Null}] /\ \A u \in Thread : u # t => current'[u] = current[u]
  BY <1>1, <1>5 DEF TypeOK
<1>9. current'[t] = IF current[t] = c THEN Null ELSE current[t]
  BY <1>1, <1>5 DEF TypeOK
<1>10. TypeOK'
  <2>1. freed' \subseteq Context
    BY <1>1, <1>2, <1>7 DEF TypeOK
  <2> QED
    BY <1>1, <1>3, <1>5, <1>6, <1>8, <2>1 DEF TypeOK, opengl
<1>11. \A u \in Thread, d \in Context : Destroying(u, d)' <=> Destroying(u, d)
  BY <1>1, <1>3, <1>4 DEF Destroying, c
<1>12. GlInv'
  <2>1. \A u, v \in Thread, d \in Context : u # v /\ Destroying(u, d)' => gl_current'[v] # d
    BY <1>1, <1>5, <1>11 DEF GlInv, opengl
  <2>2. \A u \in Thread : pc'[u].at \in {"lock", "check", "set"} => gl_current'[u] # Null
    BY <1>1, <1>3, <1>4, <1>5 DEF GlInv, opengl
  <2> QED
    BY <1>1, <1>5, <2>1, <2>2 DEF GlInv, opengl
<1>13. ObjectInv'
  BY <1>2, <1>4, <1>5, <1>6, <1>7, <1>11 DEF IInv, ObjectInv, opengl
<1>14. \A u \in Thread : u # t => gl_current[u] # c
  BY <1>1, <1>2, <1>4 DEF GlInv
<1>15. CurrentInv'
  <2>1. ASSUME NEW u \in Thread, pc'[u].at # "made_current"
        PROVE  /\ current'[u] # Null => current'[u] = gl_current[u] /\ context_objects'[current'[u]] # Null
               /\ gl_current[u] # Null /\ gl_current[u] \notin freed' => current'[u] = gl_current[u]
    <3>1. pc[u].at # "made_current"
      BY <1>1, <1>3, <2>1
    <3>2. /\ current[u] # Null => current[u] = gl_current[u] /\ context_objects[current[u]] # Null
          /\ gl_current[u] # Null /\ gl_current[u] \notin freed => current[u] = gl_current[u]
      BY <3>1 DEF IInv, CurrentInv
    <3>3. current[u] \in Context \cup {Null} /\ gl_current[u] \in Context \cup {Null}
      BY <1>1 DEF TypeOK
    <3>4. current'[u] # Null => current'[u] = current[u] /\ current[u] # c
      BY <1>2, <1>8, <1>9, <1>14, <3>2
    <3>5. current[u] = c => u = t /\ c \in freed'
      BY <1>2, <1>7, <1>14, <3>2
    <3> QED
      BY <1>6, <1>7, <1>8, <1>9, <3>2, <3>3, <3>4, <3>5
  <2> QED
    BY <1>5, <2>1 DEF CurrentInv, opengl
<1>16. RootInv'
  BY <1>5 DEF IInv, RootInv, opengl
<1>17. NamespaceInv'
  BY <1>2, <1>5, <1>6, <1>7 DEF IInv, NamespaceInv
<1>18. MutexInv'
  <2>1. \A u \in Thread : pc'[u].at \in {"check", "set"} => u # t /\ pc[u].at \in {"check", "set"}
    BY <1>3, <1>4
  <2> QED
    BY <1>5, <1>8, <2>1 DEF IInv, MutexInv, Namespace
<1>19. ListersStay
  BY <1>1, <1>3, <1>4, <1>5 DEF ListersStay, Listing, Group, opengl
<1>20. ListInv'
  BY <1>5, <1>19, ListsStay DEF opengl
<1> QED
  BY <1>10, <1>12, <1>13, <1>15, <1>16, <1>17, <1>18, <1>20 DEF IInv

(* The real glXDestroyContext keeps the invariant. *)
LEMMA DestroyInv == ASSUME IInv, NEW t \in Thread, Destroy(t) PROVE IInv'
<1> DEFINE c == pc[t].ctx
<1>1. TypeOK /\ GlInv /\ pc[t].at = "destroy" /\ pc[t] \in PC /\ Goto(t, Idle)
  BY AtPC DEF IInv, Destroy, At
<1>2. c \in Context
  BY <1>1, Records
<1>3. pc' \in [Thread -> PC] /\ pc'[t] = Idle /\ \A u \in Thread : u # t => pc'[u] = pc[u]
  BY <1>1, Places, GotoPC
<1>4. pc'[t].at = "idle"
  BY <1>3 DEF Idle
<1>5. /\ destroyed' = destroyed \cup {c}
      /\ UNCHANGED <<group, share, gl_current, alive, tracked, objects, mutex, crashed>>
  BY DEF Destroy
<1>6. TypeOK'
  BY <1>1, <1>2, <1>3, <1>5 DEF TypeOK, tracked
<1>7. \A u \in Thread, d \in Context : Destroying(u, d)' <=> Destroying(u, d) /\ u # t
  BY <1>3, <1>4 DEF Destroying
<1>8. \A d \in Context : Destroying(t, d) => d = c
  BY DEF Destroying
<1> HIDE DEF c
<1>9. GlInv'
  <2>1. \A u \in Thread : pc'[u].at \in {"lock", "check", "set"} => gl_current'[u] # Null
    BY <1>1, <1>3, <1>4, <1>5 DEF GlInv
  <2> QED
    BY <1>1, <1>5, <1>7, <2>1 DEF GlInv
<1>10. ObjectInv'
  BY <1>5, <1>7, <1>8 DEF IInv, ObjectInv, tracked
<1>11. CurrentInv'
  BY <1>1, <1>3, <1>4, <1>5 DEF IInv, CurrentInv, tracked
<1>12. RootInv' /\ NamespaceInv'
  BY <1>5 DEF IInv, RootInv, NamespaceInv, tracked
<1>13. MutexInv'
  BY <1>3, <1>4, <1>5 DEF IInv, MutexInv, Namespace, tracked
<1>14. ListersStay
  BY <1>1, <1>3, <1>4, <1>5 DEF ListersStay, Listing, Group
<1>15. ListInv'
  BY <1>5, <1>14, ListsStay DEF tracked
<1> QED
  BY <1>6, <1>9, <1>10, <1>11, <1>12, <1>13, <1>15 DEF IInv
-----------------------------------------------------------------------------
(* The first use of a context: which namespace it gets, and what that does to the
   namespaces there are. *)
LEMMA FirstUseType ==
    ASSUME IInv, NEW c \in Context, FirstUse(c)
    PROVE  /\ context_objects' \in ContextOrNull /\ freed' \subseteq Context
           /\ namespace' \in ContextOrNull /\ namespace_objects' \in ContextOrNull
           /\ objects' \in [Context -> SUBSET Name]
           /\ context_objects'[c] = c /\ c \notin freed' /\ freed' \subseteq freed
           /\ \A d \in Context : d # c =>
                 context_objects'[d] = context_objects[d] /\ namespace'[d] = namespace[d]
                 /\ (d \in freed' <=> d \in freed)
<1> DEFINE ns == Found(namespace_objects, initial_values[c])
           use == IF ns = Null THEN c ELSE ns
<1>1. /\ context_objects \in ContextOrNull /\ freed \subseteq Context
      /\ namespace \in ContextOrNull /\ namespace_objects \in ContextOrNull
      /\ objects \in [Context -> SUBSET Name]
  BY DEF IInv, TypeOK
<1>2. context_objects' = [context_objects EXCEPT ![c] = c] /\ freed' = freed \ {c}
  BY DEF FirstUse
<1>3. CASE c \notin DOMAIN initial_values
  <2>1. UNCHANGED <<namespace, namespace_objects, objects>>
    BY <1>3 DEF FirstUse
  <2> QED
    BY <1>1, <1>2, <2>1 DEF ContextOrNull
<1>4. CASE c \in DOMAIN initial_values
  <2>1. initial_values[c] \in Context \cup {Null}
    BY <1>4 DEF IInv, TypeOK
  <2>2. use \in Context
    BY <1>1, <2>1 DEF Found, ContextOrNull
  <2>3. /\ namespace' = [namespace EXCEPT ![c] = use]
        /\ namespace_objects' = [namespace_objects EXCEPT ![use] = use]
        /\ objects' = objects \/ objects' = [objects EXCEPT ![c] = {}]
    BY <1>4 DEF FirstUse
  <2> HIDE DEF use
  <2> QED
    BY <1>1, <1>2, <2>2, <2>3 DEF ContextOrNull
<1> QED
  BY <1>3, <1>4

\* Either no namespace is made, or c is one from now on, with nothing in it.
LEMMA FirstUseNamespace ==
    ASSUME IInv, NEW c \in Context, FirstUse(c)
    PROVE  \/ /\ UNCHANGED <<namespace_objects, objects>>
              /\ \/ namespace'[c] = namespace[c]
                 \/ /\ c \in DOMAIN initial_values /\ namespace'[c] = initial_values[c]
                    /\ namespace_objects[initial_values[c]] # Null /\ initial_values[c] \in Context
           \/ /\ c \in DOMAIN initial_values /\ namespace'[c] = c
              /\ initial_values[c] = Null \/ namespace_objects[initial_values[c]] = Null
              /\ namespace_objects'[c] = c /\ objects'[c] = {}
              /\ \A d \in Context : d # c => namespace_objects'[d] = namespace_objects[d]
                                             /\ objects'[d] = objects[d]
<1> DEFINE ns == Found(namespace_objects, initial_values[c])
<1>1. /\ namespace \in ContextOrNull /\ namespace_objects \in ContextOrNull
      /\ objects \in [Context -> SUBSET Name]
  BY DEF IInv, TypeOK
<1>2. CASE c \notin DOMAIN initial_values
  BY <1>2 DEF FirstUse
<1>3. CASE c \in DOMAIN initial_values /\ ns # Null
  <2>1. initial_values[c] # Null /\ ns = namespace_objects[initial_values[c]] /\ initial_values[c] \in Context
    BY <1>3 DEF Found, IInv, TypeOK
  <2>2. ns = initial_values[c]
    BY <1>3, <2>1 DEF IInv, NamespaceInv
  <2>3. /\ namespace' = [namespace EXCEPT ![c] = ns] /\ objects' = objects
        /\ namespace_objects' = [namespace_objects EXCEPT ![ns] = ns]
    BY <1>3 DEF FirstUse
  <2> HIDE DEF ns
  <2>4. namespace_objects' = namespace_objects
    BY <1>1, <2>1, <2>2, <2>3 DEF ContextOrNull
  <2> QED
    BY <1>1, <1>3, <2>1, <2>2, <2>3, <2>4 DEF ContextOrNull
<1>4. CASE c \in DOMAIN initial_values /\ ns = Null
  <2>1. /\ namespace' = [namespace EXCEPT ![c] = c] /\ objects' = [objects EXCEPT ![c] = {}]
        /\ namespace_objects' = [namespace_objects EXCEPT ![c] = c]
    BY <1>4 DEF FirstUse
  <2>2. initial_values[c] = Null \/ namespace_objects[initial_values[c]] = Null
    BY <1>4 DEF Found
  <2> QED
    BY <1>1, <1>4, <2>1, <2>2 DEF ContextOrNull
<1> QED
  BY <1>2, <1>3, <1>4

(* A context met for the first time gets the namespace of its share group, or one of its own. *)
LEMMA FirstUseNamespaceInv ==
    ASSUME IInv, NEW c \in Context, FirstUse(c), UNCHANGED initial_values
    PROVE  NamespaceInv'
<1>1. NamespaceInv
  BY DEF IInv
<1>2. c # Null /\ context_objects'[c] # Null
  BY FirstUseType, NullAssumption
<1>3. \A d \in Context : namespace[d] # Null =>
          /\ d \in DOMAIN initial_values
          /\ context_objects'[d] # Null \/ d \in freed'
          /\ namespace[d] = d \/ namespace[d] = initial_values[d]
          /\ namespace_objects[namespace[d]] # Null /\ namespace[d] \in Context
  BY <1>1, <1>2, FirstUseType DEF NamespaceInv, IInv, TypeOK, ContextOrNull
<1>4. CASE UNCHANGED <<namespace_objects, objects>> /\ namespace'[c] = namespace[c]
  BY <1>1, <1>3, <1>4, FirstUseType DEF NamespaceInv
<1>5. CASE /\ UNCHANGED <<namespace_objects, objects>>
           /\ c \in DOMAIN initial_values /\ namespace'[c] = initial_values[c]
           /\ namespace_objects[initial_values[c]] # Null /\ initial_values[c] \in Context
  <2>1. namespace'[c] # Null
    BY <1>5, NullAssumption
  <2>2. \A d \in Context : namespace_objects'[d] # Null => namespace_objects'[d] = d /\ namespace'[d] # Null
    BY <1>1, <1>5, <2>1, FirstUseType DEF NamespaceInv
  <2> QED
    BY <1>2, <1>3, <1>5, <2>2, FirstUseType DEF NamespaceInv
<1>6. CASE /\ c \in DOMAIN initial_values /\ namespace'[c] = c
           /\ namespace_objects'[c] = c
           /\ \A d \in Context : d # c => namespace_objects'[d] = namespace_objects[d]
  <2>1. \A d \in Context : namespace_objects'[d] # Null => namespace_objects'[d] = d /\ namespace'[d] # Null
    BY <1>1, <1>2, <1>6, FirstUseType DEF NamespaceInv
  <2>2. \A d \in Context : namespace_objects[d] # Null => namespace_objects'[d] # Null
    BY <1>2, <1>6
  <2>3. ASSUME NEW d \in Context, namespace'[d] # Null
        PROVE  /\ d \in DOMAIN initial_values
               /\ context_objects'[d] # Null \/ d \in freed'
               /\ namespace'[d] = d \/ namespace'[d] = initial_values[d]
               /\ namespace_objects'[namespace'[d]] # Null
    <3>1. CASE d = c
      BY <1>2, <1>6, <3>1
    <3>2. CASE d # c
      <4>1. namespace'[d] = namespace[d]
        BY <3>2, FirstUseType
      <4> QED
        BY <1>3, <2>2, <2>3, <4>1
    <3> QED
      BY <3>1, <3>2
  <2> QED
    BY <2>1, <2>3 DEF NamespaceInv
<1> QED
  BY <1>4, <1>5, <1>6, FirstUseNamespace

\* A namespace is made in a share group that had none, in which case nobody is about
\* to set its list; or it is the second one of its share group; or c had it already,
\* which then was destroyed and is not its own root_context.
LEMMA FirstUseListed ==
    ASSUME IInv, NEW t \in Thread, pc[t].at = "made_current",
           gl_current[t] \in Context, context_objects[gl_current[t]] = Null,
           FirstUse(gl_current[t]), ListersStay,
           UNCHANGED <<group, alive, destroyed, initial_values>>
    PROVE  ListInv'
<1> DEFINE c == gl_current[t]
<1>1. NamespaceInv /\ RootInv /\ c \in Context /\ c # Null /\ FirstUse(c)
  BY NullAssumption DEF IInv
<1>2. \A d \in DOMAIN initial_values : d \in Context /\ group[d] \in Context
  BY DEF IInv, TypeOK, RootInv, ContextOrNull
<1>3. \A u \in Thread : ~Destroying(u, c)
  <2>1. ~Destroying(t, c)
    BY DEF Destroying
  <2> QED
    BY <1>1, <2>1 DEF IInv, GlInv
<1>4. c \in freed => c \in destroyed
  BY <1>1, <1>3 DEF IInv, ObjectInv
<1>5. context_objects[c] = Null
  OBVIOUS
<1> HIDE DEF c
<1>6. ASSUME UNCHANGED <<namespace_objects, objects>> PROVE ListInv'
  BY <1>6, ListsStay
<1>7. ASSUME /\ c \in DOMAIN initial_values
             /\ initial_values[c] = Null \/ namespace_objects[initial_values[c]] = Null
             /\ namespace_objects'[c] = c /\ objects'[c] = {}
             /\ \A d \in Context : d # c => namespace_objects'[d] = namespace_objects[d]
                                            /\ objects'[d] = objects[d]
      PROVE  ListInv'
  <2>1. ASSUME NEW g \in Context PROVE GroupListed(g)'
    <3>1. GroupListed(g)
      BY ByGroup DEF IInv
    <3>2. CASE group[c] # g
      <4>1. Namespaces(g)' = Namespaces(g) /\ c \notin Namespaces(g)
        BY <1>7, <3>2 DEF Namespaces
      <4>2. \A n \in Namespaces(g) : objects'[n] = objects[n] /\ (Valid(n)' => Valid(n))
        BY <1>7, <4>1 DEF Namespaces, Valid
      <4> QED
        BY <3>1, <4>1, <4>2, SameGroup
    <3>3. CASE group[c] = g
      <4>1. Namespaces(g)' = Namespaces(g) \cup {c}
        BY <1>1, <1>7, <3>3 DEF Namespaces
      <4>2. CASE namespace_objects[c] # Null
        <5>1. namespace[c] # Null /\ c \in freed
          BY <1>1, <1>5, <4>2 DEF NamespaceInv
        <5>2. initial_values[c] # c
          BY <1>1, <1>7, <4>2
        <5>3. ASSUME NEW n \in Context, Namespaces(g)' = {n} PROVE ~Valid(n)'
          <6>1. n = c
            BY <4>1, <5>3
          <6> QED
            BY <1>4, <5>1, <5>2, <6>1 DEF Valid
        <5>4. Namespaces(g)' # {}
          BY <4>1
        <5> QED
          BY <5>3, <5>4 DEF GroupListed
      <4>3. CASE namespace_objects[c] = Null /\ Namespaces(g) = {}
        <5>1. \A u \in Thread : \A x, op : pc[u].at \in {"check", "set"} => ~Busy(u, g, x, op)
          <6>1. SUFFICES ASSUME NEW u \in Thread, pc[u].at \in {"check", "set"}, Group(u) = g PROVE FALSE
            BY DEF Busy, Touched
          <6>2. Namespace(u) # Null
            BY <6>1 DEF IInv, MutexInv
          <6>3. Namespace(u) \in Namespaces(Group(u))
            BY <6>1, <6>2, ThreadNamespace
          <6> QED
            BY <4>3, <6>1, <6>3
        <5>2. \A u \in Thread : \A x, op : pc'[u].at = "set" => ~Busy(u, g, x, op)'
          BY <5>1, SameBusy
        <5>3. \A x \in Name : <<g, x>> \in alive => \E u \in Thread : Busy(u, g, x, "add")'
          BY <3>1, <4>3, SameBusy DEF GroupListed
        <5>4. \A n : Namespaces(g)' = {n} => n = c
          BY <4>1
        <5>5. Namespaces(g)' # {} /\ alive' = alive
          BY <4>1
        <5> QED
          BY <1>7, <5>2, <5>3, <5>4, <5>5 DEF GroupListed
      <4>4. CASE namespace_objects[c] = Null /\ Namespaces(g) # {}
        <5>1. c \notin Namespaces(g)
          BY <4>4 DEF Namespaces
        <5>2. Namespaces(g)' # {} /\ \A n : Namespaces(g)' # {n}
          BY <4>1, <4>4, <5>1
        <5> QED
          BY <5>2 DEF GroupListed
      <4> QED
        BY <4>2, <4>3, <4>4
    <3> QED
      BY <3>2, <3>3
  <2> QED
    BY <2>1, ByGroup
<1> QED
  BY <1>1, <1>6, <1>7, FirstUseNamespace

(* trackcontext_callback after a call that may have changed the current context keeps the
   invariant. *)
LEMMA TrackInv == ASSUME IInv, NEW t \in Thread, Track(t) PROVE IInv'
<1> DEFINE c == gl_current[t]
<1>1. TypeOK /\ GlInv /\ pc[t].at = "made_current" /\ Goto(t, Idle)
  BY DEF IInv, Track, At
<1>2. pc' \in [Thread -> PC] /\ pc'[t] = Idle /\ \A u \in Thread : u # t => pc'[u] = pc[u]
  BY <1>1, Places, GotoPC
<1>3. pc'[t].at = "idle"
  BY <1>2 DEF Idle
<1>4. /\ current' = [current EXCEPT ![t] = c]
      /\ UNCHANGED <<opengl, initial_values, mutex, crashed>>
      /\ (Known(c) /\ TrackUnchanged) \/ (~Known(c) /\ FirstUse(c))
  BY DEF Track
<1>5. c \in Context \cup {Null}
  BY <1>1 DEF TypeOK
<1>6. current' \in [Thread -> Context \cup {Null}] /\ current'[t] = c
      /\ \A u \in Thread : u # t => current'[u] = current[u]
  BY <1>1, <1>4, <1>5 DEF TypeOK
<1>7. \A u \in Thread, d \in Context : Destroying(u, d)' <=> Destroying(u, d)
  BY <1>1, <1>2, <1>3 DEF Destroying
<1>8. GlInv'
  <2>1. \A u \in Thread : pc'[u].at \in {"lock", "check", "set"} => gl_current'[u] # Null
    BY <1>1, <1>2, <1>3, <1>4 DEF GlInv, opengl
  <2> QED
    BY <1>1, <1>4, <1>7, <2>1 DEF GlInv, opengl
<1>9. RootInv'
  BY <1>4 DEF IInv, RootInv, opengl
<1>10. ListersStay
  BY <1>1, <1>2, <1>3, <1>4 DEF ListersStay, Listing, Group, opengl
<1>11. \A u \in Thread : u # t /\ gl_current[u] # Null => gl_current[u] # c
  BY <1>1 DEF GlInv
<1>12. \A u \in Thread : u # t /\ pc[u].at # "made_current" /\ current[u] # Null => current[u] # c
  BY <1>11 DEF IInv, CurrentInv
<1>13. CASE Known(c) /\ TrackUnchanged
  <2>1. UNCHANGED <<context_objects, freed, namespace_objects, namespace, objects>>
    BY <1>13 DEF TrackUnchanged
  <2>2. TypeOK'
    BY <1>1, <1>2, <1>4, <1>6, <2>1 DEF TypeOK, opengl
  <2>3. ObjectInv' /\ NamespaceInv'
    BY <1>4, <1>7, <2>1 DEF IInv, ObjectInv, NamespaceInv, opengl
  <2>4. CurrentInv'
    <3>1. \A u \in Thread : u # t /\ pc'[u].at # "made_current" =>
              /\ current'[u] # Null => current'[u] = gl_current'[u] /\ context_objects'[current'[u]] # Null
              /\ gl_current'[u] # Null /\ gl_current'[u] \notin freed' => current'[u] = gl_current'[u]
      BY <1>2, <1>4, <1>6, <2>1 DEF IInv, CurrentInv, opengl
    <3>2. c # Null => context_objects[c] # Null
      BY <1>13 DEF Known
    <3> QED
      BY <1>4, <1>6, <2>1, <3>1, <3>2 DEF CurrentInv, opengl
  <2>5. MutexInv'
    BY <1>2, <1>3, <1>4, <1>6, <2>1 DEF IInv, MutexInv, Namespace
  <2>6. ListInv'
    BY <1>4, <1>10, <2>1, ListsStay DEF opengl
  <2> QED
    BY <1>8, <1>9, <2>2, <2>3, <2>4, <2>5, <2>6 DEF IInv
<1>14. CASE ~Known(c) /\ FirstUse(c)
  <2>1. c # Null /\ c \in Context /\ context_objects[c] = Null
    BY <1>5, <1>14 DEF Known
  <2> HIDE DEF c
  <2>2. TypeOK'
    BY <1>1, <1>2, <1>4, <1>6, <1>14, <2>1, FirstUseType DEF TypeOK, opengl
  <2>3. ObjectInv'
    BY <1>4, <1>7, <1>14, <2>1, FirstUseType DEF IInv, ObjectInv, opengl
  <2>4. NamespaceInv'
    BY <1>4, <1>14, <2>1, FirstUseNamespaceInv
  <2>5. CurrentInv'
    <3>1. ASSUME NEW u \in Thread, u # t, pc'[u].at # "made_current"
          PROVE  /\ current'[u] # Null => current'[u] = gl_current'[u] /\ context_objects'[current'[u]] # Null
                 /\ gl_current'[u] # Null /\ gl_current'[u] \notin freed' => current'[u] = gl_current'[u]
      <4>1. pc[u].at # "made_current" /\ current'[u] = current[u] /\ gl_current'[u] = gl_current[u]
        BY <1>2, <1>4, <1>6, <3>1 DEF opengl
      <4>2. /\ current[u] # Null => current[u] = gl_current[u] /\ context_objects[current[u]] # Null
            /\ gl_current[u] # Null /\ gl_current[u] \notin freed => current[u] = gl_current[u]
        BY <4>1 DEF IInv, CurrentInv
      <4>3. current[u] \in Context \cup {Null} /\ gl_current[u] \in Context \cup {Null}
        BY <1>1 DEF TypeOK
      <4>4. gl_current[u] # Null => gl_current[u] # c
        BY <1>11, <3>1
      <4> QED
        BY <1>14, <2>1, <4>1, <4>2, <4>3, <4>4, FirstUseType
    <3>2. context_objects'[c] = c
      BY <1>14, <2>1, FirstUseType
    <3> QED
      BY <1>4, <1>6, <2>1, <3>1, <3>2 DEF CurrentInv, opengl, c
  <2>6. MutexInv'
    <3>1. ASSUME NEW u \in Thread, pc'[u].at \in {"check", "set"} PROVE Namespace(u)' = Namespace(u)
      <4>1. u # t /\ pc[u].at \in {"check", "set"} /\ current'[u] = current[u]
        BY <1>2, <1>3, <1>6, <3>1
      <4>2. current[u] # Null => current[u] # c
        BY <1>12, <4>1
      <4>3. current[u] # Null => namespace'[current[u]] = namespace[current[u]]
        BY <1>1, <1>14, <2>1, <4>2, FirstUseType DEF TypeOK
      <4> QED
        BY <4>1, <4>3 DEF Namespace
    <3>2. \A u \in Thread : pc'[u].at \in {"check", "set"} => pc[u].at \in {"check", "set"}
      BY <1>2, <1>3
    <3> QED
      BY <1>4, <3>1, <3>2 DEF IInv, MutexInv
  <2>7. ListInv'
    BY <1>1, <1>4, <1>10, <1>14, <2>1, FirstUseListed DEF opengl, c
  <2> QED
    BY <1>8, <1>9, <2>2, <2>3, <2>4, <2>5, <2>6, <2>7 DEF IInv
<1> QED
  BY <1>4, <1>13, <1>14
-----------------------------------------------------------------------------
(* The steps of a call that binds or deletes.  They leave the contexts alone. *)
Quiet(t) ==
    /\ UNCHANGED <<group, share, gl_current, destroyed, tracked>>
    /\ pc' \in [Thread -> PC] /\ \A u \in Thread : u # t => pc'[u] = pc[u]
    /\ pc[t].at \in {"idle", "lock", "check", "set"} /\ pc'[t].at \in {"idle", "lock", "check", "set"}
    /\ pc'[t].at # "idle" => gl_current[t] # Null

(* A call on objects leaves the contexts and namespaces alone. *)
LEMMA QuietInv ==
    ASSUME IInv, NEW t \in Thread, Quiet(t)
    PROVE  GlInv' /\ ObjectInv' /\ CurrentInv' /\ RootInv' /\ NamespaceInv'
<1>1. UNCHANGED <<group, share, gl_current, destroyed, initial_values, context_objects, freed,
                  namespace_objects, current, namespace>>
  BY DEF Quiet, tracked
<1>2. \A u \in Thread, d \in Context : Destroying(u, d)' <=> Destroying(u, d)
  BY DEF Quiet, Destroying
<1>3. GlInv'
  <2>1. \A u \in Thread : pc'[u].at \in {"lock", "check", "set"} => gl_current'[u] # Null
    BY <1>1 DEF Quiet, IInv, GlInv
  <2> QED
    BY <1>1, <1>2, <2>1 DEF IInv, GlInv
<1>4. ObjectInv'
  BY <1>1, <1>2 DEF IInv, ObjectInv
<1>5. CurrentInv'
  <2>1. \A u \in Thread : pc'[u].at # "made_current" => pc[u].at # "made_current"
    BY DEF Quiet
  <2> QED
    BY <1>1, <2>1 DEF IInv, CurrentInv
<1>6. RootInv' /\ NamespaceInv'
  BY <1>1 DEF IInv, RootInv, NamespaceInv
<1> QED
  BY <1>3, <1>4, <1>5, <1>6

(* A call on objects leaves who is in which group and namespace, and what the other
   threads are busy with. *)
LEMMA QuietSame ==
    ASSUME NEW t \in Thread, Quiet(t)
    PROVE  /\ \A u \in Thread : Group(u)' = Group(u) /\ Namespace(u)' = Namespace(u)
           /\ \A g : Namespaces(g)' = Namespaces(g)
           /\ \A n : Valid(n)' <=> Valid(n)
           /\ \A u \in Thread : \A g, x, op : u # t => (Busy(u, g, x, op)' <=> Busy(u, g, x, op))
<1>1. UNCHANGED <<group, share, gl_current, destroyed, initial_values, context_objects, freed,
                  namespace_objects, current, namespace>>
  BY DEF Quiet, tracked
<1>2. \A u \in Thread : Group(u)' = Group(u) /\ Namespace(u)' = Namespace(u)
  BY <1>1 DEF Group, Namespace
<1>3. \A g : Namespaces(g)' = Namespaces(g)
  BY <1>1 DEF Namespaces
<1>4. \A n : Valid(n)' <=> Valid(n)
  BY <1>1 DEF Valid
<1>5. \A u \in Thread : \A g, x, op : u # t => (Busy(u, g, x, op)' <=> Busy(u, g, x, op))
  BY <1>2 DEF Quiet, Busy, Touched
<1> QED
  BY <1>2, <1>3, <1>4, <1>5

\* What there is to show of one name in one share group.
NameListed(g, x) ==
    /\ Namespaces(g) = {} /\ <<g, x>> \in alive => \E t \in Thread : Busy(t, g, x, "add")
    /\ \A n \in Context : Namespaces(g) = {n} /\ Valid(n) =>
          /\ <<g, x>> \in alive /\ x \notin objects[n] => \E t \in Thread : Busy(t, g, x, "add")
          /\ <<g, x>> \notin alive /\ x \in objects[n] => \E t \in Thread : Busy(t, g, x, "delete")
          /\ \A t \in Thread : pc[t].at = "set" =>
                /\ Busy(t, g, x, "add") => <<g, x>> \in alive \/ Waits(g, x, "delete")
                /\ Busy(t, g, x, "delete") => <<g, x>> \notin alive \/ Waits(g, x, "add")

(* A list is right when it is so for each share group and name. *)
LEMMA ByName == /\ ListInv => \A g \in Context, x \in Name : NameListed(g, x)
                /\ (\A g \in Context, x \in Name : NameListed(g, x)') => ListInv'
<1>1. ListInv => \A g \in Context, x \in Name : NameListed(g, x)
  BY DEF ListInv, NameListed
<1>2. (\A g \in Context, x \in Name : NameListed(g, x)') => ListInv'
  BY DEF ListInv, NameListed
<1> QED
  BY <1>1, <1>2

\* A call starts: what it did to the name, it is about to enter in the list.
LEMMA CallListed ==
    ASSUME IInv, NEW t \in Thread, NEW x \in Name, NEW op \in {"add", "delete"}, Quiet(t),
           pc[t] = Idle, pc'[t] = [at |-> "lock", op |-> op, name |-> x], UNCHANGED objects,
           \/ UNCHANGED alive
           \/ op = "add" /\ alive' = alive \cup {<<Group(t), x>>}
           \/ op = "delete" /\ alive' = alive \ {<<Group(t), x>>}
    PROVE  ListInv'
<1>1. pc[t].at = "idle" /\ pc'[t].at = "lock" /\ pc'[t].op = op /\ pc'[t].name = x
  BY DEF Idle
<1>2. Busy(t, Group(t), x, op)'
  BY <1>1, QuietSame DEF Busy, Touched
<1>3. \A u \in Thread : \A g, y, p : Busy(u, g, y, p) => u # t /\ Busy(u, g, y, p)' /\ pc'[u] = pc[u]
  BY <1>1, QuietSame DEF Busy, Touched, Quiet
<1>4. \A g, y, p : Waits(g, y, p) => Waits(g, y, p)'
  BY <1>3 DEF Waits
<1>5. Waits(Group(t), x, op)'
  BY <1>1, <1>2 DEF Waits
<1>6. \A u \in Thread : \A g, y, p : pc'[u].at = "set" /\ Busy(u, g, y, p)' => pc[u].at = "set" /\ Busy(u, g, y, p)
  BY <1>1, QuietSame DEF Quiet
<1>7. ASSUME NEW g \in Context, NEW y \in Name PROVE NameListed(g, y)'
  <2>1. NameListed(g, y)
    BY ByName DEF IInv
  <2>2. CASE g = Group(t) /\ y = x
    <3>1. op = "add" => (<<g, y>> \in alive => <<g, y>> \in alive')
      BY <2>2
    <3>2. op = "delete" => (<<g, y>> \in alive' => <<g, y>> \in alive)
      BY <2>2
    <3>3. CASE op = "add"
      BY <1>2, <1>3, <1>4, <1>5, <1>6, <2>1, <2>2, <3>1, <3>3, QuietSame DEF NameListed
    <3>4. CASE op = "delete"
      BY <1>2, <1>3, <1>4, <1>5, <1>6, <2>1, <2>2, <3>2, <3>4, QuietSame DEF NameListed
    <3> QED
      BY <3>3, <3>4
  <2>3. CASE ~(g = Group(t) /\ y = x)
    <3>1. <<g, y>> \in alive' <=> <<g, y>> \in alive
      BY <2>3
    <3> QED
      BY <1>3, <1>4, <1>6, <2>1, <3>1, QuietSame DEF NameListed
  <2> QED
    BY <2>2, <2>3
<1> QED
  BY <1>7, ByName

(* The real calls that bind and delete make the thread busy with the name. *)
LEMMA CallInv ==
    ASSUME IInv, NEW t \in Thread, NEW x \in Name, Bind(t, x) \/ Delete(t, x)
    PROVE  IInv'
<1>1. PICK op \in {"add", "delete"} :
          /\ Goto(t, [at |-> "lock", op |-> op, name |-> x])
          /\ \/ UNCHANGED alive
             \/ op = "add" /\ alive' = alive \cup {<<Group(t), x>>}
             \/ op = "delete" /\ alive' = alive \ {<<Group(t), x>>}
  BY DEF Bind, Delete
<1> DEFINE r == [at |-> "lock", op |-> op, name |-> x]
<1>2. /\ TypeOK /\ pc[t].at = "idle" /\ gl_current[t] # Null
      /\ UNCHANGED <<group, share, gl_current, destroyed, tracked, objects, mutex, crashed>>
  BY DEF IInv, Bind, Delete, At
<1>3. r \in PC /\ Goto(t, r) /\ pc[t] = Idle
  BY <1>1, <1>2, Places, AtPC, Records
<1>4. pc' \in [Thread -> PC] /\ pc'[t] = r /\ \A u \in Thread : u # t => pc'[u] = pc[u]
  BY <1>2, <1>3, GotoPC
<1>5. Quiet(t)
  BY <1>2, <1>4 DEF Quiet
<1>6. ListInv'
  BY <1>1, <1>2, <1>3, <1>4, <1>5, CallListed
<1>7. TypeOK'
  <2>1. UNCHANGED alive \/ Group(t) \in Context
    <3>1. gl_current[t] \in Context /\ group[gl_current[t]] # Null
      BY <1>2 DEF IInv, GlInv, TypeOK
    <3> QED
      BY <1>2, <3>1 DEF Group, TypeOK, ContextOrNull
  <2>2. alive' \subseteq Context \X Name
    BY <1>1, <1>2, <2>1 DEF TypeOK
  <2> QED
    BY <1>2, <1>4, <2>2 DEF TypeOK, tracked
<1>8. MutexInv'
  <2>1. \A u \in Thread : pc'[u].at \in {"check", "set"} => pc[u].at \in {"check", "set"}
    BY <1>4
  <2> QED
    BY <1>2, <1>5, <2>1, QuietSame DEF IInv, MutexInv
<1> QED
  BY <1>5, <1>6, <1>7, <1>8, QuietInv DEF IInv

(* lock() of a thread without a namespace ends the program, which keeps the invariant. *)
LEMMA LockNowhereInv == ASSUME IInv, NEW t \in Thread, LockNowhere(t) PROVE IInv'
<1>1. UNCHANGED <<group, share, gl_current, alive, destroyed, initial_values, context_objects, freed,
                  namespace_objects, current, namespace, objects, mutex, pc>> /\ crashed' = TRUE
  BY DEF LockNowhere, opengl, tracked
<1>2. TypeOK' /\ GlInv' /\ ObjectInv' /\ CurrentInv' /\ RootInv' /\ NamespaceInv' /\ MutexInv'
  BY <1>1 DEF IInv, TypeOK, GlInv, ObjectInv, CurrentInv, RootInv, NamespaceInv, MutexInv, Namespace, Destroying
<1>3. ListInv'
  <2>1. ListersStay
    BY <1>1 DEF ListersStay, Group
  <2> QED
    BY <1>1, <2>1, ListsStay
<1> QED
  BY <1>2, <1>3 DEF IInv

\* While the mutex is free, nobody is about to set the list of the share group if that
\* has one namespace: what waited for the mutex may go.
LEMMA LockInv == ASSUME IInv, NEW t \in Thread, Lock(t) PROVE IInv'
<1> DEFINE r == [at |-> "check", op |-> pc[t].op, name |-> pc[t].name]
           m == Namespace(t)
<1>1. /\ TypeOK /\ pc[t].at = "lock" /\ m # Null /\ mutex[m] = Null
      /\ mutex' = [mutex EXCEPT ![m] = t]
      /\ UNCHANGED <<opengl, tracked, objects, crashed>>
  BY DEF IInv, Lock, At
<1>2. r \in PC /\ Goto(t, r)
  BY <1>1, Places, AtPC, Records DEF Lock
<1>3. pc' \in [Thread -> PC] /\ pc'[t] = r /\ \A u \in Thread : u # t => pc'[u] = pc[u]
  BY <1>1, <1>2, GotoPC
<1>4. pc'[t].at = "check" /\ pc'[t].op = pc[t].op /\ pc'[t].name = pc[t].name
  BY <1>3
<1> HIDE DEF r
<1>5. gl_current[t] # Null /\ m \in Context /\ m \in Namespaces(Group(t))
  BY <1>1, ThreadNamespace DEF IInv, GlInv
<1>6. Quiet(t)
  BY <1>1, <1>3, <1>4, <1>5 DEF Quiet, opengl
<1>7. \A u \in Thread : \A g, x, op : Busy(u, g, x, op)' <=> Busy(u, g, x, op)
  <2>1. \A g, x, op : Busy(t, g, x, op)' <=> Busy(t, g, x, op)
    BY <1>1, <1>4, <1>6, QuietSame DEF Busy, Touched
  <2> QED
    BY <1>6, <2>1, QuietSame
<1>8. \A u \in Thread : pc'[u].at = "set" => pc[u].at = "set" /\ u # t
  BY <1>3, <1>4
<1>9. ASSUME NEW g \in Context, NEW x \in Name PROVE NameListed(g, x)'
  <2>1. NameListed(g, x)
    BY ByName DEF IInv
  <2>2. CASE g # Group(t)
    <3>1. \A op : ~Busy(t, g, x, op)
      BY <2>2 DEF Busy, Touched
    <3>2. \A op : Waits(g, x, op)' <=> Waits(g, x, op)
      BY <1>3, <1>7, <3>1 DEF Waits
    <3> QED
      BY <1>1, <1>6, <1>7, <1>8, <2>1, <3>2, QuietSame DEF NameListed, opengl
  <2>3. CASE g = Group(t)
    <3>1. ASSUME NEW n \in Context, Namespaces(g) = {n}, NEW u \in Thread, pc'[u].at = "set", NEW op
          PROVE  ~Busy(u, g, x, op)'
      <4>1. SUFFICES ASSUME Group(u) = g PROVE FALSE
        BY <1>7 DEF Busy, Touched
      <4>2. Namespace(u) # Null /\ mutex[Namespace(u)] = u /\ pc[u].at = "set"
        BY <1>8, <3>1 DEF IInv, MutexInv
      <4>3. Namespace(u) \in Namespaces(g)
        BY <4>1, <4>2, ThreadNamespace
      <4>4. Namespace(u) = m
        BY <1>5, <2>3, <3>1, <4>3
      <4> QED
        BY <1>1, <4>2, <4>4, NullAssumption
    <3>2. Namespaces(g)' = Namespaces(g) /\ UNCHANGED <<alive, objects>>
      BY <1>1, <1>6, QuietSame DEF opengl
    <3> QED
      BY <1>6, <1>7, <2>1, <3>1, <3>2, QuietSame DEF NameListed
  <2> QED
    BY <2>2, <2>3
<1>10. TypeOK'
  <2>1. mutex' \in [Context -> Thread \cup {Null}]
    BY <1>1, <1>5 DEF TypeOK
  <2> QED
    BY <1>1, <1>3, <2>1 DEF TypeOK, opengl, tracked
<1>11. MutexInv'
  <2>1. ASSUME NEW u \in Thread, pc'[u].at \in {"check", "set"}
        PROVE  Namespace(u) # Null /\ mutex'[Namespace(u)] = u
    <3>1. CASE u = t
      BY <1>1, <1>5, <3>1 DEF TypeOK
    <3>2. CASE u # t
      <4>1. pc[u].at \in {"check", "set"} /\ Namespace(u) # Null /\ mutex[Namespace(u)] = u
        BY <1>3, <2>1, <3>2 DEF IInv, MutexInv
      <4>2. Namespace(u) \in Context /\ Namespace(u) # m
        BY <1>1, <4>1, ThreadNamespace, NullAssumption
      <4> QED
        BY <1>1, <4>1, <4>2 DEF TypeOK
    <3> QED
      BY <3>1, <3>2
  <2> QED
    BY <1>6, <2>1, QuietSame DEF MutexInv
<1> QED
  BY <1>6, <1>9, <1>10, <1>11, ByName, QuietInv DEF IInv

\* The call keeps what it is about to do if the name is, or is no longer, alive.
LEMMA CheckInv == ASSUME IInv, NEW t \in Thread, Check(t) PROVE IInv'
<1> DEFINE op == IF pc[t].op = "add" /\ Is(t, pc[t].name) THEN "add"
                 ELSE IF pc[t].op = "delete" /\ ~Is(t, pc[t].name) THEN "delete" ELSE "none"
           r == [at |-> "set", op |-> op, name |-> pc[t].name]
<1>1. TypeOK /\ pc[t].at = "check" /\ UNCHANGED <<opengl, tracked, objects, mutex, crashed>>
  BY DEF IInv, Check, At
<1>2. r \in PC /\ Goto(t, r)
  <2>1. Goto(t, r)
    BY DEF Check
  <2>2. op \in {"add", "delete", "none"} /\ pc[t].name \in Name
    BY <1>1, AtPC, Records
  <2> QED
    BY <2>1, <2>2, Places
<1>3. pc' \in [Thread -> PC] /\ pc'[t] = r /\ \A u \in Thread : u # t => pc'[u] = pc[u]
  BY <1>1, <1>2, GotoPC
<1>4. pc'[t].at = "set" /\ pc'[t].op = op /\ pc'[t].name = pc[t].name
  BY <1>3
<1> HIDE DEF r
<1>5. /\ op = "add" <=> pc[t].op = "add" /\ <<Group(t), pc[t].name>> \in alive
      /\ op = "delete" <=> pc[t].op = "delete" /\ <<Group(t), pc[t].name>> \notin alive
  BY DEF Is
<1> HIDE DEF op
<1>6. Quiet(t)
  BY <1>1, <1>3, <1>4 DEF Quiet, opengl, IInv, GlInv
<1>7. /\ \A g, x : Busy(t, g, x, "add")' <=> Busy(t, g, x, "add") /\ <<g, x>> \in alive
      /\ \A g, x : Busy(t, g, x, "delete")' <=> Busy(t, g, x, "delete") /\ <<g, x>> \notin alive
  BY <1>1, <1>4, <1>5, <1>6, QuietSame DEF Busy, Touched
<1>8. \A g, x, p : p \in {"add", "delete"} => (Waits(g, x, p)' <=> Waits(g, x, p))
  <2>1. \A u \in Thread : \A g, x, p : u # t => (Busy(u, g, x, p)' <=> Busy(u, g, x, p))
    BY <1>6, QuietSame
  <2> QED
    BY <1>1, <1>3, <1>4, <2>1 DEF Waits
<1>9. ASSUME NEW g \in Context, NEW x \in Name PROVE NameListed(g, x)'
  <2>1. NameListed(g, x)
    BY ByName DEF IInv
  <2>2. /\ \A u \in Thread : Busy(u, g, x, "add") /\ <<g, x>> \in alive => Busy(u, g, x, "add")'
        /\ \A u \in Thread : Busy(u, g, x, "delete") /\ <<g, x>> \notin alive => Busy(u, g, x, "delete")'
    BY <1>6, <1>7, QuietSame
  <2>3. Namespaces(g)' = Namespaces(g) /\ UNCHANGED <<alive, objects>>
    BY <1>1, <1>6, QuietSame DEF opengl
  <2>4. ASSUME NEW n \in Context, Namespaces(g) = {n}, Valid(n), NEW u \in Thread, pc'[u].at = "set"
        PROVE  /\ Busy(u, g, x, "add")' => <<g, x>> \in alive \/ Waits(g, x, "delete")'
               /\ Busy(u, g, x, "delete")' => <<g, x>> \notin alive \/ Waits(g, x, "add")'
    <3>1. CASE u = t
      BY <1>7, <3>1
    <3>2. CASE u # t
      <4>1. pc[u].at = "set" /\ \A p : Busy(u, g, x, p)' <=> Busy(u, g, x, p)
        BY <1>3, <1>6, <2>4, <3>2, QuietSame
      <4> QED
        BY <1>8, <2>1, <2>4, <4>1 DEF NameListed
    <3> QED
      BY <3>1, <3>2
  <2>5. Namespaces(g)' = {} /\ <<g, x>> \in alive' => \E u \in Thread : Busy(u, g, x, "add")'
    BY <2>1, <2>2, <2>3 DEF NameListed
  <2>6. ASSUME NEW n \in Context, Namespaces(g) = {n}, Valid(n)
        PROVE  /\ <<g, x>> \in alive /\ x \notin objects[n] => \E u \in Thread : Busy(u, g, x, "add")'
               /\ <<g, x>> \notin alive /\ x \in objects[n] => \E u \in Thread : Busy(u, g, x, "delete")'
    <3>1. /\ <<g, x>> \in alive /\ x \notin objects[n] => \E u \in Thread : Busy(u, g, x, "add")
          /\ <<g, x>> \notin alive /\ x \in objects[n] => \E u \in Thread : Busy(u, g, x, "delete")
      BY <2>1, <2>6 DEF NameListed
    <3> QED
      BY <2>2, <3>1
  <2> QED
    BY <1>6, <2>3, <2>4, <2>5, <2>6, QuietSame DEF NameListed
<1>10. TypeOK'
  BY <1>1, <1>3 DEF TypeOK, opengl, tracked
<1>11. MutexInv'
  <2>1. \A u \in Thread : pc'[u].at \in {"check", "set"} => pc[u].at \in {"check", "set"}
    BY <1>1, <1>3
  <2> QED
    BY <1>1, <1>6, <2>1, QuietSame DEF IInv, MutexInv
<1> QED
  BY <1>6, <1>9, <1>10, <1>11, ByName, QuietInv DEF IInv

\* The list is set to what is alive, or another call waits which will see to it.
LEMMA SetInv == ASSUME IInv, NEW t \in Thread, Set(t) PROVE IInv'
<1> DEFINE m == Namespace(t)
           x0 == pc[t].name
           names == CASE pc[t].op = "add" -> objects[m] \cup {x0}
                      [] pc[t].op = "delete" -> objects[m] \ {x0}
                      [] OTHER -> objects[m]
<1>1. /\ TypeOK /\ pc[t].at = "set" /\ Goto(t, Idle)
      /\ mutex' = [mutex EXCEPT ![m] = Null]
      /\ UNCHANGED <<opengl, tracked, crashed>>
  BY DEF IInv, Set, At
<1>2. pc' \in [Thread -> PC] /\ pc'[t] = Idle /\ \A u \in Thread : u # t => pc'[u] = pc[u]
  BY <1>1, Places, GotoPC
<1>3. pc'[t].at = "idle"
  BY <1>2 DEF Idle
<1>4. m # Null /\ mutex[m] = t
  BY <1>1 DEF IInv, MutexInv
<1>5. m \in Context /\ m \in Namespaces(Group(t)) /\ group[m] = Group(t)
  BY <1>1, <1>4, ThreadNamespace DEF Namespaces
<1>6. x0 \in Name /\ pc[t].op \in {"add", "delete", "none"}
  BY <1>1, AtPC, Records
<1>7. Quiet(t)
  BY <1>1, <1>2, <1>3 DEF Quiet, opengl
<1>8. objects' = [objects EXCEPT ![m] = names]
  BY <1>1 DEF Set, TypeOK
<1>9. objects[m] \subseteq Name /\ \A x : x \in names <=>
          \/ x \in objects[m] /\ ~(x = x0 /\ pc[t].op = "delete")
          \/ x = x0 /\ pc[t].op = "add"
  <2>1. objects[m] \subseteq Name
    BY <1>1, <1>5 DEF TypeOK
  <2> QED
    BY <1>6, <2>1
<1> HIDE DEF names
<1>10. objects' \in [Context -> SUBSET Name] /\ objects'[m] = names
       /\ \A n \in Context : n # m => objects'[n] = objects[n]
  <2>1. names \subseteq Name
    BY <1>6, <1>9
  <2> QED
    BY <1>1, <1>5, <1>8, <2>1 DEF TypeOK
<1>11. \A g, x, p : Busy(t, g, x, p) => g = Group(t) /\ x = x0 /\ p = pc[t].op
  BY DEF Busy, Touched
<1>12. \A u \in Thread : \A g, x, p : u # t => (Busy(u, g, x, p)' <=> Busy(u, g, x, p))
  BY <1>7, QuietSame
<1>13. \A g, x, p : Waits(g, x, p) => \E u \in Thread : u # t /\ pc'[u] = pc[u] /\ pc[u].at = "lock" /\ Busy(u, g, x, p)'
  BY <1>1, <1>2, <1>12 DEF Waits
<1>14. \A g, x, p : Waits(g, x, p) => Waits(g, x, p)' /\ \E u \in Thread : Busy(u, g, x, p)'
  BY <1>13 DEF Waits
<1>15. ASSUME NEW g \in Context, NEW x \in Name PROVE NameListed(g, x)'
  <2>1. NameListed(g, x)
    BY ByName DEF IInv
  <2>2. Namespaces(g)' = Namespaces(g) /\ UNCHANGED alive
    BY <1>1, <1>7, QuietSame DEF opengl
  <2>3. CASE g # Group(t)
    <3>1. \A u \in Thread : \A p : Busy(u, g, x, p) => Busy(u, g, x, p)'
      BY <1>11, <1>12, <2>3
    <3>2. \A u \in Thread : \A p : pc'[u].at = "set" /\ Busy(u, g, x, p)' => pc[u].at = "set" /\ Busy(u, g, x, p)
      BY <1>2, <1>3, <1>12
    <3>3. \A n \in Context : Namespaces(g) = {n} => objects'[n] = objects[n]
      BY <1>5, <1>10, <2>3 DEF Namespaces
    <3> QED
      BY <1>7, <1>14, <2>1, <2>2, <3>1, <3>2, <3>3, QuietSame DEF NameListed
  <2>4. CASE g = Group(t)
    <3>1. Namespaces(g) # {} /\ \A n : Namespaces(g) = {n} => n = m
      BY <1>5, <2>4
    <3>2. ASSUME Namespaces(g) = {m}, NEW u \in Thread, pc'[u].at = "set", NEW p
          PROVE  ~Busy(u, g, x, p)'
      <4>1. u # t /\ pc[u].at = "set"
        BY <1>2, <1>3, <3>2
      <4>2. SUFFICES ASSUME Group(u) = g PROVE FALSE
        BY <1>12, <4>1 DEF Busy, Touched
      <4>3. Namespace(u) # Null
        BY <4>1 DEF IInv, MutexInv
      <4>4. Namespace(u) = m
        BY <3>2, <4>1, <4>2, <4>3, ThreadNamespace
      <4> QED
        BY <1>1, <4>1, <4>4, SetterAlone
    <3>3. ASSUME Namespaces(g) = {m}, Valid(m)
          PROVE  /\ <<g, x>> \in alive /\ x \notin names => \E u \in Thread : Busy(u, g, x, "add")'
                 /\ <<g, x>> \notin alive /\ x \in names => \E u \in Thread : Busy(u, g, x, "delete")'
      <4>1. /\ <<g, x>> \in alive /\ x \notin objects[m] => \E u \in Thread : Busy(u, g, x, "add")
            /\ <<g, x>> \notin alive /\ x \in objects[m] => \E u \in Thread : Busy(u, g, x, "delete")
            /\ Busy(t, g, x, "add") => <<g, x>> \in alive \/ Waits(g, x, "delete")
            /\ Busy(t, g, x, "delete") => <<g, x>> \notin alive \/ Waits(g, x, "add")
        BY <1>1, <1>5, <2>1, <3>3 DEF NameListed
      <4>2. CASE x # x0
        BY <1>9, <1>11, <1>12, <4>1, <4>2
      <4>3. CASE x = x0
        <5>1. \A p : p = pc[t].op => Busy(t, g, x, p)
          BY <1>1, <2>4, <4>3 DEF Busy, Touched
        <5>2. CASE pc[t].op = "add"
          BY <1>9, <1>14, <4>1, <4>3, <5>1, <5>2
        <5>3. CASE pc[t].op = "delete"
          BY <1>9, <1>14, <4>1, <4>3, <5>1, <5>3
        <5>4. CASE pc[t].op = "none"
          BY <1>9, <1>11, <1>12, <4>1, <5>4
        <5> QED
          BY <1>6, <5>2, <5>3, <5>4
      <4> QED
        BY <4>2, <4>3
    <3>4. \A n \in Context : Namespaces(g)' = {n} => n = m /\ objects'[n] = names
      BY <1>10, <2>2, <3>1
    <3>5. Namespaces(g)' # {}
      BY <2>2, <3>1
    <3> HIDE DEF m, x0
    <3> QED
      BY <1>7, <2>2, <3>2, <3>3, <3>4, <3>5, QuietSame DEF NameListed
  <2> QED
    BY <2>3, <2>4
<1>16. TypeOK'
  <2>1. mutex' \in [Context -> Thread \cup {Null}]
    BY <1>1 DEF TypeOK
  <2> QED
    BY <1>1, <1>2, <1>10, <2>1 DEF TypeOK, opengl, tracked
<1>17. MutexInv'
  <2>1. ASSUME NEW u \in Thread, pc'[u].at \in {"check", "set"}
        PROVE  Namespace(u) # Null /\ mutex'[Namespace(u)] = u
    <3>1. u # t /\ pc[u].at \in {"check", "set"}
      BY <1>2, <1>3, <2>1
    <3>2. Namespace(u) # Null /\ mutex[Namespace(u)] = u /\ Namespace(u) # m
      BY <1>1, <3>1, SetterAlone DEF IInv, MutexInv
    <3>3. Namespace(u) \in Context
      BY <3>1, <3>2, ThreadNamespace
    <3> QED
      BY <1>1, <3>2, <3>3 DEF TypeOK
  <2> QED
    BY <1>7, <2>1, QuietSame DEF MutexInv
<1> QED
  BY <1>7, <1>15, <1>16, <1>17, ByName, QuietInv DEF IInv
-----------------------------------------------------------------------------
(* Stuttering keeps the invariant. *)
LEMMA StutterInv == ASSUME IInv, UNCHANGED vars PROVE IInv'
<1>1. UNCHANGED <<group, share, gl_current, alive, destroyed, initial_values, context_objects, freed,
                  namespace_objects, current, namespace, objects, mutex, pc, crashed>>
  BY DEF vars, opengl, tracked
<1>2. TypeOK' /\ GlInv' /\ ObjectInv' /\ CurrentInv' /\ RootInv' /\ NamespaceInv' /\ MutexInv'
  BY <1>1 DEF IInv, TypeOK, GlInv, ObjectInv, CurrentInv, RootInv, NamespaceInv, MutexInv, Namespace, Destroying
<1>3. ListInv'
  <2>1. ListersStay
    BY <1>1 DEF ListersStay, Group
  <2> QED
    BY <1>1, <2>1, ListsStay
<1> QED
  BY <1>2, <1>3 DEF IInv

(* Every step keeps the inductive invariant. *)
LEMMA StepInv == ASSUME IInv, [Next]_vars PROVE IInv'
<1>1. CASE Next
  BY <1>1, CreateInv, DestroyCallInv, MakeCurrentInv, CallInv, TrackInv, FreeInv, DestroyInv,
     LockNowhereInv, LockInv, CheckInv, SetInv DEF Next
<1>2. CASE UNCHANGED vars
  BY <1>2, StutterInv
<1> QED
  BY <1>1, <1>2

(* The inductive invariant: a context is current to one thread, its object and its
   namespace are those of trackcontext.c, and what a list lacks or has too much a
   call is about to see to (lock, globjects_add_single, globjects_delete_multiple). *)
THEOREM ContextsInvariant == Spec => []IInv
<1>1. Init => IInv
  BY InitInv
<1>2. IInv /\ [Next]_vars => IInv'
  BY StepInv
<1> QED
  BY <1>1, <1>2, PTL DEF Spec

(* What trackcontext.c takes to be the current context of a thread is that of OpenGL
   between calls, also after a call that failed, and its data was not freed. *)
THEOREM ContextsCurrentIsGl == Spec => []CurrentIsGl
<1>1. IInv => CurrentIsGl
  <2> SUFFICES ASSUME IInv, NEW t \in Thread, pc[t].at # "made_current"
               PROVE  /\ current[t] # Null => current[t] = gl_current[t] /\ current[t] \notin freed
                      /\ gl_current[t] # Null /\ gl_current[t] \notin freed => current[t] = gl_current[t]
    BY DEF CurrentIsGl
  <2>1. current[t] \in Context \cup {Null}
    BY DEF IInv, TypeOK
  <2> QED
    BY <2>1 DEF IInv, CurrentInv, ObjectInv
<1> QED
  BY <1>1, ContextsInvariant, PTL

(* In a share group with one namespace, what globjects.c lists is what OpenGL has,
   but for the names that a call under way is about to add or delete. *)
THEOREM ContextsListsAlive == Spec => []ListsAlive
<1>1. IInv => ListsAlive
  <2> SUFFICES ASSUME IInv, NEW c \in Context \ destroyed, Used(c), OneNamespace(group[c]),
                      NEW x \in Name, \A t \in Thread : ~Touched(t, group[c], x)
               PROVE  x \in objects[namespace[c]] <=> <<group[c], x>> \in alive
    BY DEF ListsAlive
  <2> DEFINE g == group[c]
             n == namespace[c]
  <2>1. g \in Context /\ n \in Namespaces(g) /\ n \in Context
        /\ (n = c \/ initial_values[n] = n)
    BY NamespaceGroup DEF Used, Namespaces
  <2>2. Namespaces(g) = {n}
    <3>1. IsFiniteSet(Namespaces(g)) /\ Cardinality(Namespaces(g)) = 1
      BY FS_Subset, ContextAssumption DEF Namespaces, OneNamespace
    <3>2. \E m : Namespaces(g) = {m}
      BY <3>1, FS_Singleton
    <3> QED
      BY <2>1, <3>2
  <2>3. Valid(n)
    BY <2>1 DEF Valid
  <2>4. NameListed(g, x)
    BY <2>1, ByName DEF IInv
  <2>5. \A t \in Thread : \A op : ~Busy(t, g, x, op)
    BY DEF Busy
  <2> HIDE DEF g, n
  <2>6. /\ <<g, x>> \in alive => x \in objects[n]
        /\ x \in objects[n] => <<g, x>> \in alive
    BY <2>1, <2>2, <2>3, <2>4, <2>5 DEF NameListed
  <2> QED
    BY <2>6 DEF g, n
<1> QED
  BY <1>1, ContextsInvariant, PTL

-----------------------------------------------------------------------------
(* SHADERS AND PROGRAMS *)

(* What the records of the threads are, and what becomes of them. *)
LEMMA ShaderFacts ==
    ASSUME S!IInv
    PROVE  /\ kind \in [Context -> {S!None} \cup S!Kinds]
           /\ \A x \in flagged : x \in Context /\ kind[x] \in S!Kinds
           /\ \A p, s : <<p, s>> \in attached =>
                  p \in Context /\ s \in Context /\ kind[p] = "program" /\ kind[s] = "shader"
           /\ attached \subseteq Context \X Context
           /\ using \in [Thread -> {S!None} \cup Context]
           /\ \A t \in Thread : using[t] # S!None => using[t] \in Context /\ kind[using[t]] = "program"
           /\ shader_pc \in [Thread -> S!PC] /\ home \in [Thread -> Thread]
           /\ maker \in [Context -> {S!None} \cup Thread]
           /\ \A t \in Thread :
                  /\ ~S!Calling(t) => shader_pc[t].checks = {}
                  /\ shader_pc[t].at # "remove" => shader_pc[t].gone = {}
<1>1. S!TypeOK
  BY DEF S!IInv
<1>2. \A x \in flagged : x \in Context /\ kind[x] \in S!Kinds
  BY <1>1 DEF S!TypeOK
<1>3. \A p, s : <<p, s>> \in attached =>
          p \in Context /\ s \in Context /\ kind[p] = "program" /\ kind[s] = "shader"
  BY <1>1 DEF S!TypeOK
<1>4. attached \subseteq Context \X Context
  BY <1>1 DEF S!TypeOK
<1>5. /\ using \in [Thread -> {S!None} \cup Context]
      /\ \A t \in Thread : using[t] # S!None => using[t] \in Context /\ kind[using[t]] = "program"
  BY <1>1 DEF S!TypeOK
<1> QED
  BY <1>1, <1>2, <1>3, <1>4, <1>5 DEF S!TypeOK, S!At

\* The fields of a record.
LEMMA RecordFacts ==
    ASSUME NEW r \in S!PC
    PROVE  /\ r.at \in {"idle", "add", "invoke", "ask", "remove"}
           /\ r.op \in {S!None, "use", "detach"} \cup S!Kinds
           /\ r.name \in {S!None} \cup Context /\ r.program \in {S!None} \cup Context
           /\ r.checks \subseteq S!Targets /\ r.gone \subseteq S!Targets
BY DEF S!PC

\* The step of a thread.
LEMMA GotoFacts ==
    ASSUME shader_pc \in [Thread -> S!PC], NEW t \in Thread, NEW r \in S!PC, S!Goto(t, r)
    PROVE  /\ shader_pc' \in [Thread -> S!PC] /\ shader_pc'[t] = r
           /\ \A v \in Thread : v # t => shader_pc'[v] = shader_pc[v]
BY DEF S!Goto

\* A thread goes on with the checks that are left, or is through.
LEMMA CheckFacts ==
    ASSUME shader_pc \in [Thread -> S!PC], NEW t \in Thread, NEW C \in SUBSET S!Targets, S!Check(t, C)
    PROVE  /\ shader_pc' \in [Thread -> S!PC]
           /\ \A v \in Thread : v # t => shader_pc'[v] = shader_pc[v]
           /\ shader_pc'[t].at \in {"idle", "ask"} /\ shader_pc'[t].checks = C /\ shader_pc'[t].gone = {}
           /\ shader_pc'[t].at = "idle" => C = {}
           /\ shader_pc'[t].at = "ask" => shader_pc'[t].op = shader_pc[t].op
<1> DEFINE r == IF C = {} THEN S!Idle ELSE [S!Idle EXCEPT !.at = "ask", !.op = shader_pc[t].op, !.checks = C]
<1>1. S!Goto(t, r)
  BY DEF S!Check
<1>2. /\ r.at \in {"idle", "ask"} /\ r.checks = C /\ r.gone = {}
      /\ r.at = "idle" => C = {}
      /\ r.at = "ask" => r.op = shader_pc[t].op
      /\ r.name = S!None /\ r.program = S!None
  BY DEF S!Idle
<1>3. r \in S!PC
  <2>1. S!Idle \in S!PC
    BY DEF S!Idle, S!PC
  <2>2. shader_pc[t].op \in {S!None, "use", "detach"} \cup S!Kinds
    BY RecordFacts
  <2>3. [S!Idle EXCEPT !.at = "ask", !.op = shader_pc[t].op, !.checks = C] \in S!PC
    BY <2>2 DEF S!Idle, S!PC
  <2> QED
    BY <2>1, <2>3
<1> HIDE DEF r
<1> QED
  BY <1>1, <1>2, <1>3, GotoFacts

\* Nothing that OpenGL has dropped before a step is held after it, if OpenGL does nothing.
LEMMA SameDropped == ASSUME S!IInv, UNCHANGED <<kind, flagged, attached, using>> PROVE S!DroppedInv'
BY DEF S!IInv, S!DroppedInv

\* Nor is anything listed or about to be seen to that was not.
LEMMA SameList ==
    ASSUME S!IInv, UNCHANGED <<kind, home, listed, shader_pc, maker, reused, strayed>>
    PROVE  S!ListInv'
<1> SUFFICES ASSUME NEW n \in Thread, NEW k \in S!Kinds, NEW y \in Context
             PROVE  S!Accounted(n, k, y)'
  BY DEF S!ListInv
<1>1. S!Accounted(n, k, y)
  BY DEF S!IInv, S!ListInv
<1> QED
  BY <1>1 DEF S!Accounted, S!In, S!At
-----------------------------------------------------------------------------
(* A call begins: the filter before it notes what to check. *)
LEMMA CallStep ==
    ASSUME S!IInv, NEW t \in Thread, shader_pc[t].at = "idle",
           NEW op \in {S!None, "use", "detach"} \cup S!Kinds, NEW x \in {S!None} \cup Context,
           NEW p \in {S!None} \cup Context, NEW checks \in SUBSET S!Targets,
           S!Call(t, op, x, p, checks), UNCHANGED <<kind, flagged, attached, using, home, listed, maker, reused, strayed>>,
           \A v \in Thread : S!Calling(v) => op = "use" /\ shader_pc[v].op = "use",
           op \in S!Kinds => S!Known(op, x) /\ x \in Context,
           op = "use" /\ using[t] # S!None =>
               S!ProgramChecks(S!AttachedTo(using[t]), using[t]) \subseteq checks,
           op \in {"detach", "shader"} => <<"shader", x>> \in checks,
           op = "program" => S!ProgramChecks(S!AttachedTo(x), x) \subseteq checks
    PROVE  S!IInv'
<1> DEFINE r == [at |-> "invoke", op |-> op, name |-> x, program |-> p, checks |-> checks, gone |-> {}]
<1>1. r \in S!PC
  BY DEF S!PC
<1>2. S!Goto(t, r)
  BY DEF S!Call
<1>3. r.at = "invoke" /\ r.op = op /\ r.name = x /\ r.checks = checks /\ r.gone = {}
  OBVIOUS
<1> HIDE DEF r
<1>4. /\ shader_pc' \in [Thread -> S!PC] /\ shader_pc'[t] = r
      /\ \A v \in Thread : v # t => shader_pc'[v] = shader_pc[v]
  BY <1>1, <1>2, ShaderFacts, GotoFacts
<1>5. S!TypeOK'
  <2>1. \A v \in Thread : /\ ~S!Calling(v)' => shader_pc'[v].checks = {}
                          /\ shader_pc'[v].at # "remove" => shader_pc'[v].gone = {}
    BY <1>3, <1>4, ShaderFacts DEF S!Calling
  <2> QED
    BY <1>4, <2>1 DEF S!IInv, S!TypeOK, S!At
<1>6. S!DroppedInv'
  BY SameDropped
<1>7. S!CallInv'
  <2>1. ASSUME NEW v \in Thread, shader_pc'[v].at = "add"
        PROVE  /\ shader_pc'[v].name \in Context \ flagged'
               /\ shader_pc'[v].op \in S!Kinds /\ kind'[shader_pc'[v].name] = shader_pc'[v].op
               /\ maker'[shader_pc'[v].name] = home'[v]
    BY <1>3, <1>4, <2>1 DEF S!IInv, S!CallInv, S!At
  <2>2. ASSUME NEW v \in Thread, NEW w \in Thread, S!Calling(v)', S!Calling(w)', v # w
        PROVE  shader_pc'[v].op = "use"
    <3>1. CASE v = t
      BY <1>3, <1>4, <2>2, <3>1 DEF S!Calling
    <3>2. CASE v # t /\ w = t
      BY <1>4, <2>2, <3>2 DEF S!Calling
    <3>3. CASE v # t /\ w # t
      BY <1>4, <2>2, <3>3 DEF S!IInv, S!CallInv, S!Calling
    <3> QED
      BY <3>1, <3>2, <3>3
  <2>3. ASSUME NEW v \in Thread, shader_pc'[v].at = "invoke", shader_pc'[v].op \in S!Kinds
        PROVE  /\ shader_pc'[v].name \in Context /\ kind'[shader_pc'[v].name] = shader_pc'[v].op
               /\ \A w \in Thread : shader_pc'[w].at = "add" => shader_pc'[w].name # shader_pc'[v].name
    <3>1. CASE v = t
      BY <1>3, <1>4, <2>3, <3>1 DEF S!Known, S!Is, S!At
    <3>2. CASE v # t
      BY <1>3, <1>4, <2>3, <3>2 DEF S!IInv, S!CallInv, S!At
    <3> QED
      BY <3>1, <3>2
  <2> QED
    BY <2>1, <2>2, <2>3 DEF S!CallInv, S!At
<1>8. S!CheckInv'
  <2> SUFFICES ASSUME NEW v \in Thread, shader_pc'[v].at = "invoke"
               PROVE  /\ shader_pc'[v].op = "use" /\ using[v] # S!None =>
                            S!ProgramChecks(S!AttachedTo(using[v]), using[v]) \subseteq shader_pc'[v].checks
                      /\ shader_pc'[v].op \in {"detach", "shader"} =>
                            <<"shader", shader_pc'[v].name>> \in shader_pc'[v].checks
                      /\ shader_pc'[v].op = "program" =>
                            S!ProgramChecks(S!AttachedTo(shader_pc'[v].name), shader_pc'[v].name)
                                \subseteq shader_pc'[v].checks
    BY DEF S!CheckInv, S!At, S!AttachedTo, S!ProgramChecks
  <2>1. CASE v = t
    BY <1>3, <1>4, <2>1
  <2>2. CASE v # t
    BY <1>4, <2>2 DEF S!IInv, S!CheckInv, S!At
  <2> QED
    BY <2>1, <2>2
<1>9. S!ListInv'
  <2> SUFFICES ASSUME NEW n \in Thread, NEW y \in Context, NEW k \in S!Kinds
               PROVE  S!Accounted(n, k, y)'
    BY DEF S!ListInv
  <2>1. \A v \in Thread : <<k, y>> \in shader_pc[v].checks => v # t
    BY ShaderFacts DEF S!Calling
  <2>2. \A v \in Thread : shader_pc[v].at = "add" => v # t
    OBVIOUS
  <2> QED
    BY <1>3, <1>4, <2>1, <2>2 DEF S!IInv, S!ListInv, S!Accounted, S!In, S!At
<1> QED
  BY <1>5, <1>6, <1>7, <1>8, <1>9 DEF S!IInv

(* A step of a call under way that leaves OpenGL alone: the thread stays in the call
   or is through, and does not come to the real call. *)
LEMMA SameCalls ==
    ASSUME S!IInv, UNCHANGED <<kind, flagged, attached, using, home, maker>>,
           NEW t \in Thread, S!Calling(t), shader_pc' \in [Thread -> S!PC],
           \A v \in Thread : v # t => shader_pc'[v] = shader_pc[v],
           shader_pc'[t].at \in {"idle", "ask", "remove"},
           shader_pc'[t].at # "idle" => shader_pc'[t].op = shader_pc[t].op,
           shader_pc'[t].at = "idle" => shader_pc'[t].checks = {},
           shader_pc'[t].at # "remove" => shader_pc'[t].gone = {}
    PROVE  S!TypeOK' /\ S!DroppedInv' /\ S!CallInv' /\ S!CheckInv'
<1>1. S!TypeOK'
  <2>1. \A v \in Thread : /\ ~S!Calling(v)' => shader_pc'[v].checks = {}
                          /\ shader_pc'[v].at # "remove" => shader_pc'[v].gone = {}
    BY ShaderFacts DEF S!Calling
  <2> QED
    BY <2>1 DEF S!IInv, S!TypeOK, S!At
<1>2. S!DroppedInv'
  BY SameDropped
<1>3. S!CallInv'
  <2>1. ASSUME NEW v \in Thread, shader_pc'[v].at = "add"
        PROVE  /\ shader_pc'[v].name \in Context \ flagged'
               /\ shader_pc'[v].op \in S!Kinds /\ kind'[shader_pc'[v].name] = shader_pc'[v].op
               /\ maker'[shader_pc'[v].name] = home'[v]
    BY <2>1 DEF S!IInv, S!CallInv, S!At
  <2>2. ASSUME NEW v \in Thread, NEW w \in Thread, S!Calling(v)', S!Calling(w)', v # w
        PROVE  shader_pc'[v].op = "use"
    <3>1. S!Calling(v) /\ S!Calling(w)
      BY <2>2 DEF S!Calling
    <3>2. shader_pc[v].op = "use"
      BY <2>2, <3>1 DEF S!IInv, S!CallInv
    <3> QED
      BY <2>2, <3>2 DEF S!Calling
  <2>3. ASSUME NEW v \in Thread, shader_pc'[v].at = "invoke", shader_pc'[v].op \in S!Kinds
        PROVE  /\ shader_pc'[v].name \in Context /\ kind'[shader_pc'[v].name] = shader_pc'[v].op
               /\ \A w \in Thread : shader_pc'[w].at = "add" => shader_pc'[w].name # shader_pc'[v].name
    BY <2>3 DEF S!IInv, S!CallInv, S!At
  <2> QED
    BY <2>1, <2>2, <2>3 DEF S!CallInv, S!At
<1>4. S!CheckInv'
  <2> SUFFICES ASSUME NEW v \in Thread, shader_pc'[v].at = "invoke"
               PROVE  /\ shader_pc'[v].op = "use" /\ using[v] # S!None =>
                            S!ProgramChecks(S!AttachedTo(using[v]), using[v]) \subseteq shader_pc'[v].checks
                      /\ shader_pc'[v].op \in {"detach", "shader"} =>
                            <<"shader", shader_pc'[v].name>> \in shader_pc'[v].checks
                      /\ shader_pc'[v].op = "program" =>
                            S!ProgramChecks(S!AttachedTo(shader_pc'[v].name), shader_pc'[v].name)
                                \subseteq shader_pc'[v].checks
    BY DEF S!CheckInv, S!At, S!AttachedTo, S!ProgramChecks
  <2>1. shader_pc'[v] = shader_pc[v]
    OBVIOUS
  <2> QED
    BY <2>1 DEF S!IInv, S!CheckInv, S!At
<1> QED
  BY <1>1, <1>2, <1>3, <1>4

\* The entries of the checks c in the tables that t reaches.
LEMMA EntryFacts ==
    ASSUME NEW t \in Thread, NEW c \in SUBSET S!Targets, NEW n, NEW k, NEW y
    PROVE  <<n, k, y>> \in S!Entries(t, c) <=> home[t] = n /\ <<k, y>> \in c
<1>1. \A check \in c : check = <<check[1], check[2]>>
  BY DEF S!Targets
<1> QED
  BY <1>1 DEF S!Entries

(* Some checks are done: of what is still there, or of what is now off the list. *)
LEMMA ContinueInv ==
    ASSUME S!IInv, UNCHANGED <<kind, flagged, attached, using, home, maker, reused>>,
           NEW t \in Thread, S!Calling(t), NEW C \in SUBSET shader_pc[t].checks, S!Check(t, C),
           NEW D \in SUBSET shader_pc[t].gone,
           listed' = listed \ S!Entries(t, D), strayed' = strayed \ S!Entries(t, D),
           \A y \in Context, k \in S!Kinds : <<k, y>> \in shader_pc[t].checks \ C => kind[y] = k \/ <<k, y>> \in D
    PROVE  S!IInv'
<1>1. shader_pc \in [Thread -> S!PC] /\ C \in SUBSET S!Targets
  BY ShaderFacts, RecordFacts
<1>2. /\ shader_pc' \in [Thread -> S!PC]
      /\ \A v \in Thread : v # t => shader_pc'[v] = shader_pc[v]
      /\ shader_pc'[t].at \in {"idle", "ask"} /\ shader_pc'[t].checks = C /\ shader_pc'[t].gone = {}
      /\ shader_pc'[t].at = "idle" => C = {}
      /\ shader_pc'[t].at = "ask" => shader_pc'[t].op = shader_pc[t].op
  BY <1>1, CheckFacts
<1>3. S!TypeOK' /\ S!DroppedInv' /\ S!CallInv' /\ S!CheckInv'
  BY <1>2, SameCalls
<1>4. S!ListInv'
  <2> SUFFICES ASSUME NEW n \in Thread, NEW y \in Context, NEW k \in S!Kinds
               PROVE  S!Accounted(n, k, y)'
    BY DEF S!ListInv
  <2>1. S!Accounted(n, k, y)
    BY DEF S!IInv, S!ListInv
  <2> DEFINE e == <<n, k, y>>
  <2>2. e \in S!Entries(t, D) <=> home[t] = n /\ <<k, y>> \in D
    <3>1. D \in SUBSET S!Targets
      BY <1>1, RecordFacts
    <3> QED
      BY <3>1, EntryFacts
  <2>3. ASSUME e \in listed', kind[y] # k, NEW v \in Thread, home[v] = n, <<k, y>> \in shader_pc[v].checks
        PROVE  <<k, y>> \in shader_pc'[v].checks
    BY <1>2, <2>2, <2>3
  <2>4. \A v \in Thread : shader_pc[v].at = "add" => v # t
    BY DEF S!Calling
  <2>5. /\ e \in strayed /\ e \in listed' => e \in strayed'
        /\ e \in listed' => e \in listed
        /\ e \in listed /\ e \notin listed' => home[t] = n /\ <<k, y>> \in shader_pc[t].gone
    BY <2>2
  <2> HIDE DEF e
  <2> QED
    BY <1>2, <2>1, <2>3, <2>4, <2>5 DEF S!Accounted, S!In, S!At, e
<1> QED
  BY <1>3, <1>4 DEF S!IInv

\* A check asks OpenGL: what is there needs none, what is gone is about to be removed.
LEMMA AskInv == ASSUME S!IInv, NEW t \in Thread, S!Ask(t) PROVE S!IInv'
<1>1. /\ shader_pc[t].at = "ask" /\ S!Calling(t)
      /\ UNCHANGED <<kind, flagged, attached, using, home, listed, maker, reused, strayed>>
  BY DEF S!Ask, S!At, S!Calling, S!gl, S!history
<1>2. shader_pc \in [Thread -> S!PC]
  BY ShaderFacts
<1>3. PICK check \in shader_pc[t].checks :
          IF S!Is(check[1], check[2]) THEN S!Check(t, shader_pc[t].checks \ {check})
          ELSE S!Goto(t, [shader_pc[t] EXCEPT !.at = "remove", !.gone = {check}])
  BY DEF S!Ask
<1>4. check \in S!Targets
  BY <1>2, RecordFacts
<1>5. CASE S!Is(check[1], check[2])
  <2> DEFINE C == shader_pc[t].checks \ {check}
             D == {}
  <2>1. \A y \in Context, k \in S!Kinds : <<k, y>> = check => kind[y] = k
    BY <1>5 DEF S!Is
  <2>2. S!Check(t, C) /\ C \in SUBSET shader_pc[t].checks
    BY <1>3, <1>5
  <2>3. /\ listed' = listed \ S!Entries(t, D) /\ strayed' = strayed \ S!Entries(t, D)
        /\ D \in SUBSET shader_pc[t].gone
    BY <1>1 DEF S!Entries
  <2>4. \A y \in Context, k \in S!Kinds : <<k, y>> \in shader_pc[t].checks \ C => kind[y] = k \/ <<k, y>> \in D
    BY <2>1
  <2> HIDE DEF C, D
  <2> QED
    BY <1>1, <2>2, <2>3, <2>4, ContinueInv
<1>6. CASE ~S!Is(check[1], check[2])
  <2> DEFINE r == [shader_pc[t] EXCEPT !.at = "remove", !.gone = {check}]
  <2>1. r \in S!PC
    BY <1>2, <1>4 DEF S!PC
  <2>2. r.at = "remove" /\ r.op = shader_pc[t].op /\ r.checks = shader_pc[t].checks /\ r.gone = {check}
    BY <1>2 DEF S!PC
  <2>3. S!Goto(t, r)
    BY <1>3, <1>6
  <2> HIDE DEF r
  <2>4. /\ shader_pc' \in [Thread -> S!PC] /\ shader_pc'[t] = r
        /\ \A v \in Thread : v # t => shader_pc'[v] = shader_pc[v]
    BY <1>2, <2>1, <2>3, GotoFacts
  <2>5. S!TypeOK' /\ S!DroppedInv' /\ S!CallInv' /\ S!CheckInv'
    BY <1>1, <2>2, <2>4, SameCalls
  <2>6. S!ListInv'
    <3> SUFFICES ASSUME NEW n \in Thread, NEW y \in Context, NEW k \in S!Kinds
                 PROVE  S!Accounted(n, k, y)'
      BY DEF S!ListInv
    <3>1. S!Accounted(n, k, y)
      BY DEF S!IInv, S!ListInv
    <3>2. kind[y] = k => <<k, y>> # check
      <4>1. y # S!None
        BY NoneAssumption
      <4> QED
        BY <1>6, <4>1 DEF S!Is
    <3> QED
      BY <1>1, <2>2, <2>4, <3>1, <3>2 DEF S!Accounted, S!In, S!At
  <2> QED
    BY <2>5, <2>6 DEF S!IInv
<1> QED
  BY <1>5, <1>6

\* What was found gone is removed from the list.
LEMMA DeleteSingleInv == ASSUME S!IInv, NEW t \in Thread, S!DeleteSingle(t) PROVE S!IInv'
<1>1. /\ S!Calling(t) /\ UNCHANGED <<kind, flagged, attached, using, home, maker, reused>>
      /\ listed' = listed \ S!Entries(t, shader_pc[t].gone)
      /\ strayed' = strayed \ S!Entries(t, shader_pc[t].gone)
      /\ S!Check(t, shader_pc[t].checks \ shader_pc[t].gone)
  BY DEF S!DeleteSingle, S!At, S!Calling, S!gl, S!history
<1> QED
  BY <1>1, ContinueInv

\* What the filter after the call lists is what was created.
LEMMA AddInv == ASSUME S!IInv, NEW t \in Thread, S!Add(t) PROVE S!IInv'
<1> DEFINE x == shader_pc[t].name
           o == shader_pc[t].op
<1>1. /\ shader_pc[t].at = "add" /\ listed' = listed \cup {<<home[t], o, x>>} /\ S!Goto(t, S!Idle)
      /\ UNCHANGED <<kind, flagged, attached, using, home, maker, reused, strayed>>
  BY DEF S!Add, S!At, S!Entries, S!gl, S!history
<1>2. S!Idle \in S!PC /\ S!Idle.at = "idle" /\ S!Idle.checks = {} /\ S!Idle.gone = {}
  BY DEF S!Idle, S!PC
<1>3. /\ shader_pc' \in [Thread -> S!PC] /\ shader_pc'[t] = S!Idle
      /\ \A v \in Thread : v # t => shader_pc'[v] = shader_pc[v]
  BY <1>1, <1>2, ShaderFacts, GotoFacts
<1>4. x \in Context /\ o \in S!Kinds /\ kind[x] = o /\ maker[x] = home[t]
  BY <1>1 DEF S!IInv, S!CallInv, S!At
<1>5. S!TypeOK'
  <2>1. \A v \in Thread : /\ ~S!Calling(v)' => shader_pc'[v].checks = {}
                          /\ shader_pc'[v].at # "remove" => shader_pc'[v].gone = {}
    BY <1>2, <1>3, ShaderFacts DEF S!Calling
  <2> QED
    BY <1>1, <1>3, <2>1 DEF S!IInv, S!TypeOK, S!At
<1>6. S!DroppedInv'
  BY <1>1, SameDropped
<1>7. S!CallInv'
  BY <1>1, <1>2, <1>3 DEF S!IInv, S!CallInv, S!Calling, S!At
<1>8. S!CheckInv'
  BY <1>1, <1>2, <1>3 DEF S!IInv, S!CheckInv, S!At, S!AttachedTo, S!ProgramChecks
<1>9. S!ListInv'
  <2> SUFFICES ASSUME NEW n \in Thread, NEW y \in Context, NEW k \in S!Kinds
               PROVE  S!Accounted(n, k, y)'
    BY <1>1 DEF S!ListInv
  <2>1. S!Accounted(n, k, y)
    BY DEF S!IInv, S!ListInv
  <2>2. \A v \in Thread : <<k, y>> \in shader_pc[v].checks => v # t
    BY <1>1, ShaderFacts DEF S!Calling
  <2>3. <<n, k, y>> \in listed' => <<n, k, y>> \in listed \/ (n = home[t] /\ y = x /\ kind[y] = k)
    BY <1>1, <1>4
  <2>4. kind[x] = k /\ maker[x] = n => <<n, k, x>> \in listed'
    BY <1>1, <1>4
  <2> HIDE DEF x, o
  <2> QED
    BY <1>1, <1>2, <1>3, <2>1, <2>2, <2>3, <2>4 DEF S!Accounted, S!In, S!At, x
<1> QED
  BY <1>5, <1>6, <1>7, <1>8, <1>9 DEF S!IInv
-----------------------------------------------------------------------------
\* A shader is attached while no call is under way.
LEMMA AttachInv ==
    ASSUME S!IInv, NEW t \in Thread, NEW p \in Context, NEW s \in Context, S!Attach(t, p, s)
    PROVE  S!IInv'
<1>1. /\ kind[p] = "program" /\ kind[s] = "shader" /\ attached' = attached \cup {<<p, s>>}
      /\ \A v \in Thread : shader_pc[v].at \in {"idle", "add"}
      /\ UNCHANGED <<kind, flagged, using, home, listed, shader_pc, maker, reused, strayed>>
  BY DEF S!Attach, S!Known, S!Is, S!Alone, S!history
<1>2. S!TypeOK'
  BY <1>1 DEF S!IInv, S!TypeOK, S!At, S!Calling
<1>3. S!DroppedInv'
  BY <1>1 DEF S!IInv, S!DroppedInv
<1>4. S!CallInv'
  BY <1>1 DEF S!IInv, S!CallInv, S!At, S!Calling
<1>5. S!CheckInv'
  BY <1>1 DEF S!CheckInv, S!At
<1>6. S!ListInv'
  BY <1>1, SameList
<1> QED
  BY <1>2, <1>3, <1>4, <1>5, <1>6 DEF S!IInv

(* A name is given out: it is about to be listed, and if it is one that a thread has
   found gone and is about to remove, it counts as reused. *)
LEMMA ShaderCreateInv ==
    ASSUME S!IInv, NEW t \in Thread, NEW k \in S!Kinds, NEW x \in Context, S!Create(t, k, x)
    PROVE  S!IInv'
<1> DEFINE r == [S!Idle EXCEPT !.at = "add", !.op = k, !.name = x]
<1>1. /\ shader_pc[t].at = "idle" /\ kind[x] = S!None /\ kind' = [kind EXCEPT ![x] = k] /\ S!Goto(t, r)
      /\ maker' = [maker EXCEPT ![x] = home[t]] /\ strayed' = {e \in strayed : <<e[2], e[3]>> # <<k, x>>}
      /\ UNCHANGED <<flagged, attached, using, home, listed>>
  BY DEF S!Create, S!At
<1>2. reused' = IF \E v \in Thread : home[v] = home[t] /\ <<k, x>> \in shader_pc[v].gone THEN reused \cup {x} ELSE reused
  BY DEF S!Create, S!In
<1>3. r \in S!PC
  BY DEF S!Idle, S!PC
<1>4. r.at = "add" /\ r.op = k /\ r.name = x /\ r.checks = {} /\ r.gone = {}
  BY DEF S!Idle
<1> HIDE DEF r
<1>5. /\ shader_pc' \in [Thread -> S!PC] /\ shader_pc'[t] = r
      /\ \A v \in Thread : v # t => shader_pc'[v] = shader_pc[v]
  BY <1>1, <1>3, ShaderFacts, GotoFacts
<1>6. /\ kind' \in [Context -> {S!None} \cup S!Kinds] /\ kind'[x] = k /\ k # S!None
      /\ \A y \in Context : y # x => kind'[y] = kind[y] /\ maker'[y] = maker[y]
      /\ maker'[x] = home[t] /\ maker' \in [Context -> {S!None} \cup Thread]
  BY <1>1, ShaderFacts DEF S!Kinds, S!None
<1>7. /\ x \notin flagged
      /\ \A p, s : <<p, s>> \in attached => p # x /\ s # x
      /\ \A v \in Thread : using[v] # x
  <2>1. kind[x] # "program" /\ kind[x] # "shader" /\ kind[x] \notin S!Kinds /\ x # S!None
    BY <1>1, NoneAssumption DEF S!None, S!Kinds
  <2> QED
    BY <2>1, ShaderFacts
<1>8. S!TypeOK'
  <2>1. \A v \in Thread : /\ ~S!Calling(v)' => shader_pc'[v].checks = {}
                          /\ shader_pc'[v].at # "remove" => shader_pc'[v].gone = {}
    BY <1>4, <1>5, ShaderFacts DEF S!Calling
  <2>2. flagged' \subseteq {y \in Context : kind'[y] # S!None}
    BY <1>1, <1>6, <1>7 DEF S!IInv, S!TypeOK
  <2>3. attached' \subseteq {p \in Context : kind'[p] = "program"} \X {s \in Context : kind'[s] = "shader"}
    BY <1>1, <1>6, <1>7 DEF S!IInv, S!TypeOK
  <2>4. using' \in [Thread -> {S!None} \cup {p \in Context : kind'[p] = "program"}]
    BY <1>1, <1>6, <1>7 DEF S!IInv, S!TypeOK
  <2> QED
    BY <1>1, <1>5, <1>6, <2>1, <2>2, <2>3, <2>4, ShaderFacts DEF S!TypeOK, S!At
<1>9. S!DroppedInv'
  <2>1. \A y \in flagged : y \in Context /\ kind'[y] = kind[y]
    BY <1>6, <1>7, ShaderFacts
  <2>2. S!DroppedInv
    BY DEF S!IInv
  <2> QED
    BY <1>1, <2>1, <2>2 DEF S!DroppedInv
<1>10. S!CallInv'
  <2>1. ASSUME NEW v \in Thread, shader_pc'[v].at = "add"
        PROVE  /\ shader_pc'[v].name \in Context \ flagged'
               /\ shader_pc'[v].op \in S!Kinds /\ kind'[shader_pc'[v].name] = shader_pc'[v].op
               /\ maker'[shader_pc'[v].name] = home'[v]
    <3>1. CASE v = t
      BY <1>1, <1>4, <1>5, <1>6, <1>7, <3>1
    <3>2. CASE v # t
      <4>1. /\ shader_pc[v].name \in Context \ flagged
            /\ shader_pc[v].op \in S!Kinds /\ kind[shader_pc[v].name] = shader_pc[v].op
            /\ maker[shader_pc[v].name] = home[v]
        BY <1>5, <2>1, <3>2 DEF S!IInv, S!CallInv, S!At
      <4>2. shader_pc[v].name # x
        BY <1>1, <4>1 DEF S!Kinds, S!None
      <4> QED
        BY <1>1, <1>5, <1>6, <3>2, <4>1, <4>2
    <3> QED
      BY <3>1, <3>2
  <2>2. ASSUME NEW v \in Thread, NEW w \in Thread, S!Calling(v)', S!Calling(w)', v # w
        PROVE  shader_pc'[v].op = "use"
    BY <1>4, <1>5, <2>2 DEF S!IInv, S!CallInv, S!Calling
  <2>3. ASSUME NEW v \in Thread, shader_pc'[v].at = "invoke", shader_pc'[v].op \in S!Kinds
        PROVE  /\ shader_pc'[v].name \in Context /\ kind'[shader_pc'[v].name] = shader_pc'[v].op
               /\ \A w \in Thread : shader_pc'[w].at = "add" => shader_pc'[w].name # shader_pc'[v].name
    <3>1. v # t
      BY <1>4, <1>5, <2>3
    <3>2. /\ shader_pc[v].name \in Context /\ kind[shader_pc[v].name] = shader_pc[v].op
          /\ \A w \in Thread : shader_pc[w].at = "add" => shader_pc[w].name # shader_pc[v].name
      BY <1>5, <2>3, <3>1 DEF S!IInv, S!CallInv, S!At
    <3>3. shader_pc[v].name # x
      BY <1>1, <1>5, <2>3, <3>1, <3>2 DEF S!Kinds, S!None
    <3> QED
      BY <1>4, <1>5, <1>6, <3>1, <3>2, <3>3
  <2> QED
    BY <2>1, <2>2, <2>3 DEF S!CallInv, S!At
<1>11. S!CheckInv'
  <2> SUFFICES ASSUME NEW v \in Thread, shader_pc'[v].at = "invoke"
               PROVE  /\ shader_pc'[v].op = "use" /\ using[v] # S!None =>
                            S!ProgramChecks(S!AttachedTo(using[v]), using[v]) \subseteq shader_pc'[v].checks
                      /\ shader_pc'[v].op \in {"detach", "shader"} =>
                            <<"shader", shader_pc'[v].name>> \in shader_pc'[v].checks
                      /\ shader_pc'[v].op = "program" =>
                            S!ProgramChecks(S!AttachedTo(shader_pc'[v].name), shader_pc'[v].name)
                                \subseteq shader_pc'[v].checks
    BY <1>1 DEF S!CheckInv, S!At, S!AttachedTo, S!ProgramChecks
  <2>1. shader_pc'[v] = shader_pc[v]
    BY <1>4, <1>5
  <2> QED
    BY <2>1 DEF S!IInv, S!CheckInv, S!At
<1>12. S!ListInv'
  <2> SUFFICES ASSUME NEW n \in Thread, NEW y \in Context, NEW j \in S!Kinds
               PROVE  S!Accounted(n, j, y)'
    BY DEF S!ListInv
  <2>1. S!Accounted(n, j, y)
    BY DEF S!IInv, S!ListInv
  <2>2. \A v \in Thread : /\ <<j, y>> \in shader_pc[v].checks => v # t
                          /\ shader_pc[v].at = "add" => v # t
    BY <1>1, ShaderFacts DEF S!Calling
  <2>3. CASE y = x
    <3>1. kind[x] # j /\ (\E v \in Thread : shader_pc'[v].at = "add" /\ shader_pc'[v].name = y)
      BY <1>1, <1>4, <1>5, <2>3 DEF S!Kinds, S!None
    <3>2. kind'[y] = j => j = k
      BY <1>6, <2>3
    <3>3. j # k /\ <<n, j, y>> \in strayed => <<n, j, y>> \in strayed'
      BY <1>1
    <3>4. ASSUME j = k, home[t] = n, y \notin reused', NEW v \in Thread, home[v] = n
          PROVE  <<j, y>> \notin shader_pc'[v].gone
      BY <1>2, <1>4, <1>5, <2>3, <3>4
    <3> QED
      BY <1>1, <1>5, <1>6, <2>1, <2>2, <2>3, <3>1, <3>2, <3>3, <3>4 DEF S!Accounted, S!In, S!At
  <2>4. CASE y # x
    <3>1. /\ kind'[y] = kind[y] /\ maker'[y] = maker[y] /\ (y \in reused' <=> y \in reused)
          /\ <<n, j, y>> \in strayed => <<n, j, y>> \in strayed'
      BY <1>1, <1>2, <1>6, <2>4
    <3> QED
      BY <1>1, <1>4, <1>5, <2>1, <2>2, <3>1 DEF S!Accounted, S!In, S!At
  <2> QED
    BY <2>3, <2>4
<1> QED
  BY <1>8, <1>9, <1>10, <1>11, <1>12 DEF S!IInv
-----------------------------------------------------------------------------
(* The real call.  OpenGL may drop no more than the thread is going to check. *)
LEMMA BecomeInv ==
    ASSUME S!IInv, NEW t \in Thread, shader_pc[t].at = "invoke",
           NEW f \in SUBSET Context, NEW a \in SUBSET attached, NEW u \in [Thread -> {S!None} \cup Context],
           S!Become(t, f, a, u), S!Check(t, shader_pc[t].checks), UNCHANGED <<home, listed>>,
           \A x \in f : kind[x] \in S!Kinds,
           \A v \in Thread : v # t => u[v] = using[v],
           u[t] # S!None => kind[u[t]] = "program",
           \A v \in Thread : shader_pc[v].at = "add" => shader_pc[v].name \notin f,
           \A x \in S!Dropped(f, a, u) : <<kind[x], x>> \in shader_pc[t].checks
    PROVE  S!IInv'
<1> DEFINE gone == S!Dropped(f, a, u)
<1>1. /\ kind' = [x \in Context |-> IF x \in gone THEN S!None ELSE kind[x]]
      /\ flagged' = f \ gone /\ attached' = {pair \in a : pair[1] \notin gone} /\ using' = u
      /\ maker' = [x \in Context |-> IF x \in gone THEN S!None ELSE maker[x]]
      /\ reused' = reused \ gone
      /\ strayed' = strayed \cup {e \in listed : e[1] # home[t] /\ e[3] \in gone /\ e[2] = kind[e[3]]}
  BY DEF S!Become
<1>2. /\ gone \subseteq f
      /\ \A p \in f : kind[p] = "program" => (p \in gone <=> \A v \in Thread : u[v] # p)
      /\ \A s \in f : kind[s] = "shader" =>
             (s \in gone <=> \A p \in Context : <<p, s>> \in a => p \in gone)
  <2> DEFINE P == {p \in f : kind[p] = "program" /\ \A v \in Thread : u[v] # p}
             Q == {s \in f : kind[s] = "shader" /\ \A p \in Context \ P : <<p, s>> \notin a}
  <2>1. gone = P \cup Q
    BY DEF S!Dropped
  <2>2. \A p \in Context : kind[p] = "program" => (p \in gone <=> p \in P)
    BY <2>1
  <2>3. \A p \in Context : \A s : <<p, s>> \in a => kind[p] = "program"
    BY ShaderFacts
  <2>4. gone \subseteq f
    BY <2>1
  <2>5. \A p \in f : kind[p] = "program" => (p \in gone <=> \A v \in Thread : u[v] # p)
    BY <2>2
  <2>6. ASSUME NEW s \in f, kind[s] = "shader"
        PROVE  s \in gone <=> \A p \in Context : <<p, s>> \in a => p \in gone
    <3>1. s \in gone <=> s \in Q
      BY <2>1, <2>6
    <3>2. s \in Q <=> \A p \in Context : p \notin P => <<p, s>> \notin a
      BY <2>6
    <3> HIDE DEF P, Q, gone
    <3> QED
      BY <2>2, <2>3, <3>1, <3>2
  <2> HIDE DEF P, Q, gone
  <2> QED
    BY <2>4, <2>5, <2>6
<1>3. \A x \in gone : <<kind[x], x>> \in shader_pc[t].checks
  OBVIOUS
<1> HIDE DEF gone
<1>4. shader_pc \in [Thread -> S!PC] /\ shader_pc[t].checks \in SUBSET S!Targets
  BY ShaderFacts, RecordFacts
<1>5. /\ shader_pc' \in [Thread -> S!PC]
      /\ \A v \in Thread : v # t => shader_pc'[v] = shader_pc[v]
      /\ shader_pc'[t].at \in {"idle", "ask"} /\ shader_pc'[t].checks = shader_pc[t].checks
      /\ shader_pc'[t].gone = {}
      /\ shader_pc'[t].at = "idle" => shader_pc'[t].checks = {}
      /\ shader_pc'[t].at = "ask" => shader_pc'[t].op = shader_pc[t].op
  BY <1>4, CheckFacts
<1>6. /\ kind' \in [Context -> {S!None} \cup S!Kinds]
      /\ \A y \in gone : kind'[y] = S!None
      /\ \A y \in Context : y \notin gone => kind'[y] = kind[y] /\ maker'[y] = maker[y]
      /\ maker' \in [Context -> {S!None} \cup Thread]
  BY <1>1, <1>2, ShaderFacts
<1>7. \A p, s : <<p, s>> \in attached' <=> <<p, s>> \in a /\ p \notin gone
  BY <1>1
<1>8. \A p, s : <<p, s>> \in a => /\ p \in Context /\ s \in Context
                                 /\ kind[p] = "program" /\ kind[s] = "shader"
  BY ShaderFacts
<1>9. S!Calling(t)
  BY DEF S!Calling
<1>10. \A v \in Thread : v # t /\ S!Calling(v) => shader_pc[v].op = "use"
  BY <1>9 DEF S!IInv, S!CallInv
<1>11. S!TypeOK'
  <2>1. \A v \in Thread : /\ ~S!Calling(v)' => shader_pc'[v].checks = {}
                          /\ shader_pc'[v].at # "remove" => shader_pc'[v].gone = {}
    BY <1>5, ShaderFacts DEF S!Calling
  <2>2. flagged' \subseteq {y \in Context : kind'[y] # S!None}
    BY <1>1, <1>6 DEF S!Kinds, S!None
  <2>3. ASSUME NEW p, NEW s, <<p, s>> \in attached'
        PROVE  p \in Context /\ s \in Context /\ kind'[p] = "program" /\ kind'[s] = "shader"
    <3>1. <<p, s>> \in a /\ p \notin gone /\ p \in Context /\ s \in Context
          /\ kind[p] = "program" /\ kind[s] = "shader"
      BY <1>7, <1>8, <2>3
    <3>2. s \notin gone
      BY <1>2, <3>1
    <3> QED
      BY <1>6, <3>1, <3>2
  <2>4. attached' \subseteq {p \in Context : kind'[p] = "program"} \X {s \in Context : kind'[s] = "shader"}
    <3>1. attached' \subseteq Context \X Context
      BY <1>1, ShaderFacts
    <3> QED
      BY <2>3, <3>1
  <2>5. ASSUME NEW v \in Thread, u[v] # S!None
        PROVE  u[v] \in Context /\ kind'[u[v]] = "program"
    <3>1. u[v] \in Context /\ kind[u[v]] = "program"
      BY <2>5, ShaderFacts
    <3>2. u[v] \notin gone
      BY <1>2, <3>1
    <3> QED
      BY <1>6, <3>1, <3>2
  <2>6. using' \in [Thread -> {S!None} \cup {p \in Context : kind'[p] = "program"}]
    BY <1>1, <2>5
  <2> QED
    BY <1>5, <1>6, <2>1, <2>2, <2>4, <2>6, ShaderFacts DEF S!TypeOK, S!At
<1>12. S!DroppedInv'
  <2>1. ASSUME NEW p \in flagged', kind'[p] = "program"
        PROVE  \E v \in Thread : using'[v] = p
    <3>1. p \in f /\ p \notin gone /\ kind[p] = "program"
      BY <1>1, <1>6, <2>1
    <3> QED
      BY <1>1, <1>2, <3>1
  <2>2. ASSUME NEW s \in flagged', kind'[s] = "shader"
        PROVE  \E p \in Context : <<p, s>> \in attached'
    <3>1. s \in f /\ s \notin gone /\ kind[s] = "shader"
      BY <1>1, <1>6, <2>2
    <3>2. PICK p \in Context : <<p, s>> \in a /\ p \notin gone
      BY <1>2, <3>1
    <3> QED
      BY <1>7, <3>2
  <2> QED
    BY <2>1, <2>2 DEF S!DroppedInv
<1>13. S!CallInv'
  <2>1. ASSUME NEW v \in Thread, shader_pc'[v].at = "add"
        PROVE  /\ shader_pc'[v].name \in Context \ flagged'
               /\ shader_pc'[v].op \in S!Kinds /\ kind'[shader_pc'[v].name] = shader_pc'[v].op
               /\ maker'[shader_pc'[v].name] = home'[v]
    <3>1. shader_pc'[v] = shader_pc[v]
      BY <1>5, <2>1
    <3>2. /\ shader_pc[v].name \in Context /\ shader_pc[v].op \in S!Kinds
          /\ kind[shader_pc[v].name] = shader_pc[v].op /\ maker[shader_pc[v].name] = home[v]
      BY <2>1, <3>1 DEF S!IInv, S!CallInv, S!At
    <3>3. shader_pc[v].name \notin f
      BY <2>1, <3>1
    <3> QED
      BY <1>1, <1>2, <1>6, <3>1, <3>2, <3>3
  <2>2. ASSUME NEW v \in Thread, NEW w \in Thread, S!Calling(v)', S!Calling(w)', v # w
        PROVE  shader_pc'[v].op = "use"
    <3>1. S!Calling(v) /\ S!Calling(w)
      BY <1>5, <1>9, <2>2 DEF S!Calling
    <3>2. shader_pc[v].op = "use"
      BY <2>2, <3>1 DEF S!IInv, S!CallInv
    <3> QED
      BY <1>5, <2>2, <3>2 DEF S!Calling
  <2>3. \A v \in Thread : shader_pc'[v].at = "invoke" => shader_pc'[v].op \notin S!Kinds
    BY <1>5, <1>10 DEF S!Calling, S!Kinds
  <2> QED
    BY <2>1, <2>2, <2>3 DEF S!CallInv, S!At
<1>14. S!CheckInv'
  <2>1. ASSUME NEW v \in Thread, shader_pc'[v].at = "invoke"
        PROVE  /\ shader_pc'[v].op = "use"
               /\ using'[v] # S!None =>
                     /\ <<"program", using'[v]>> \in shader_pc'[v].checks
                     /\ \A s \in Context : <<using'[v], s>> \in attached' => <<"shader", s>> \in shader_pc'[v].checks
    <3>1. v # t /\ shader_pc'[v] = shader_pc[v] /\ using'[v] = using[v]
      BY <1>1, <1>5, <2>1
    <3>2. shader_pc[v].op = "use" /\ shader_pc[v].at = "invoke"
      BY <1>10, <2>1, <3>1 DEF S!Calling
    <3>3. using[v] # S!None => S!ProgramChecks(S!AttachedTo(using[v]), using[v]) \subseteq shader_pc[v].checks
      BY <3>2 DEF S!IInv, S!CheckInv, S!At
    <3>4. \A s \in Context : <<using[v], s>> \in attached' => <<using[v], s>> \in attached
      BY <1>7
    <3> QED
      BY <3>1, <3>2, <3>3, <3>4 DEF S!ProgramChecks, S!AttachedTo
  <2> QED
    BY <2>1 DEF S!CheckInv, S!At, S!AttachedTo, S!ProgramChecks
<1>15. S!ListInv'
  <2> SUFFICES ASSUME NEW n \in Thread, NEW y \in Context, NEW k \in S!Kinds
               PROVE  S!Accounted(n, k, y)'
    BY DEF S!ListInv
  <2>1. S!Accounted(n, k, y)
    BY DEF S!IInv, S!ListInv
  <2>2. \A v \in Thread : shader_pc[v].at = "add" => v # t
    OBVIOUS
  <2>3. kind'[y] = k => kind[y] = k /\ y \notin gone
    BY <1>6 DEF S!Kinds, S!None
  <2>4. kind'[y] # k /\ kind[y] = k => y \in gone
    BY <1>6
  <2>5. /\ kind[y] = k /\ y \in gone => <<k, y>> \in shader_pc'[t].checks
        /\ kind[y] = k /\ y \in gone /\ home[t] # n /\ <<n, k, y>> \in listed => <<n, k, y>> \in strayed'
        /\ <<n, k, y>> \in strayed => <<n, k, y>> \in strayed'
    BY <1>1, <1>3, <1>5
  <2>6. \A v \in Thread : <<k, y>> \in shader_pc[v].checks => <<k, y>> \in shader_pc'[v].checks
    BY <1>5
  <2>7. \A v \in Thread : <<k, y>> \in shader_pc'[v].gone => <<k, y>> \in shader_pc[v].gone
    BY <1>5
  <2>8. y \notin gone => maker'[y] = maker[y] /\ (y \in reused => y \in reused')
    BY <1>1, <1>6
  <2>9. \A v \in Thread : shader_pc[v].at = "add" => shader_pc'[v] = shader_pc[v]
    BY <1>5, <2>2
  <2> QED
    BY <2>1, <2>3, <2>4, <2>5, <2>6, <2>7, <2>8, <2>9 DEF S!Accounted, S!In, S!At
<1> QED
  BY <1>11, <1>12, <1>13, <1>14, <1>15 DEF S!IInv

\* What the thread that is about to make the real call may rely on.
LEMMA InvokeFacts ==
    ASSUME S!IInv, NEW t \in Thread, shader_pc[t].at = "invoke"
    PROVE  /\ \A v \in Thread : shader_pc[v].at = "add" => shader_pc[v].name \notin flagged
           /\ \A p \in flagged : kind[p] = "program" => \E v \in Thread : using[v] = p
           /\ \A s \in flagged : kind[s] = "shader" => \E p \in Context : <<p, s>> \in attached
           /\ shader_pc[t].op \in S!Kinds => \A v \in Thread : shader_pc[v].at = "add" =>
                                                shader_pc[v].name # shader_pc[t].name
           /\ shader_pc[t].op = "use" /\ using[t] # S!None =>
                  /\ <<"program", using[t]>> \in shader_pc[t].checks
                  /\ \A s \in Context : <<using[t], s>> \in attached => <<"shader", s>> \in shader_pc[t].checks
           /\ shader_pc[t].op \in {"detach", "shader"} => <<"shader", shader_pc[t].name>> \in shader_pc[t].checks
           /\ shader_pc[t].op = "program" =>
                  /\ <<"program", shader_pc[t].name>> \in shader_pc[t].checks
                  /\ \A s \in Context : <<shader_pc[t].name, s>> \in attached =>
                                           <<"shader", s>> \in shader_pc[t].checks
<1>1. /\ \A v \in Thread : shader_pc[v].at = "add" => shader_pc[v].name \notin flagged
      /\ shader_pc[t].op \in S!Kinds => \A v \in Thread : shader_pc[v].at = "add" =>
                                           shader_pc[v].name # shader_pc[t].name
  BY DEF S!IInv, S!CallInv, S!At
<1>2. S!DroppedInv
  BY DEF S!IInv
<1>3. /\ shader_pc[t].op = "use" /\ using[t] # S!None =>
             S!ProgramChecks(S!AttachedTo(using[t]), using[t]) \subseteq shader_pc[t].checks
      /\ shader_pc[t].op \in {"detach", "shader"} => <<"shader", shader_pc[t].name>> \in shader_pc[t].checks
      /\ shader_pc[t].op = "program" =>
             S!ProgramChecks(S!AttachedTo(shader_pc[t].name), shader_pc[t].name) \subseteq shader_pc[t].checks
  BY DEF S!IInv, S!CheckInv, S!At
<1> QED
  BY <1>1, <1>2, <1>3 DEF S!DroppedInv, S!ProgramChecks, S!AttachedTo

\* What OpenGL drops is a flagged program no one uses, or a flagged shader of none but such programs.
LEMMA DroppedFacts ==
    ASSUME NEW f, NEW a, NEW u, NEW x \in S!Dropped(f, a, u)
    PROVE  /\ x \in f
           /\ \/ kind[x] = "program" /\ \A v \in Thread : u[v] # x
              \/ /\ kind[x] = "shader"
                 /\ \A p \in Context : <<p, x>> \in a =>
                        p \in f /\ kind[p] = "program" /\ \A v \in Thread : u[v] # p
BY DEF S!Dropped

\* The real call of each kind, also one that fails, keeps the invariant.
LEMMA InvokeInv == ASSUME S!IInv, NEW t \in Thread, S!Invoke(t) PROVE S!IInv'
<1> DEFINE x == shader_pc[t].name
<1>1. shader_pc[t].at = "invoke" /\ S!Calling(t) /\ S!Check(t, shader_pc[t].checks)
      /\ UNCHANGED <<home, listed>>
  BY DEF S!Invoke, S!At, S!Calling
<1>2. /\ \A y \in flagged : y \in Context /\ kind[y] \in S!Kinds
      /\ using \in [Thread -> {S!None} \cup Context] /\ S!None \notin Context
      /\ \A v \in Thread : using[v] # S!None => using[v] \in Context /\ kind[using[v]] = "program"
  BY ShaderFacts, NoneAssumption
<1>3. flagged \in SUBSET Context /\ attached \in SUBSET attached
  BY <1>2
<1>4. x \in {S!None} \cup Context
  BY ShaderFacts, RecordFacts
<1>5. ASSUME shader_pc[t].op = "use", x = S!None \/ S!Is("program", x),
             S!Become(t, flagged, attached, [using EXCEPT ![t] = x])
      PROVE  S!IInv'
  <2> DEFINE u == [using EXCEPT ![t] = x]
  <2>1. u \in [Thread -> {S!None} \cup Context] /\ u[t] = x /\ \A v \in Thread : v # t => u[v] = using[v]
    BY <1>2, <1>4
  <2>2. S!Become(t, flagged, attached, u) /\ (u[t] # S!None => kind[u[t]] = "program")
    BY <1>5, <2>1 DEF S!Is
  <2> HIDE DEF u
  <2>3. ASSUME NEW y \in S!Dropped(flagged, attached, u)
        PROVE  <<kind[y], y>> \in shader_pc[t].checks
    <3>1. y \in flagged /\ y \in Context
      BY <1>2, DroppedFacts
    <3>2. ASSUME NEW p \in flagged, kind[p] = "program", \A v \in Thread : u[v] # p
          PROVE  using[t] = p /\ p # S!None
      <4>1. PICK v \in Thread : using[v] = p
        BY <1>1, <3>2, InvokeFacts
      <4> QED
        BY <1>2, <2>1, <3>2, <4>1
    <3>3. CASE kind[y] = "program" /\ \A v \in Thread : u[v] # y
      <4>1. using[t] = y /\ y # S!None
        BY <3>1, <3>2, <3>3
      <4> QED
        BY <1>1, <1>5, <3>3, <4>1, InvokeFacts
    <3>4. CASE /\ kind[y] = "shader"
               /\ \A p \in Context : <<p, y>> \in attached =>
                      p \in flagged /\ kind[p] = "program" /\ \A v \in Thread : u[v] # p
      <4>1. PICK p \in Context : <<p, y>> \in attached
        BY <1>1, <3>1, <3>4, InvokeFacts
      <4>2. using[t] = p /\ p # S!None
        BY <3>2, <3>4, <4>1
      <4> QED
        BY <1>1, <1>5, <3>1, <3>4, <4>1, <4>2, InvokeFacts
    <3> QED
      BY <3>3, <3>4, DroppedFacts
  <2>4. \A v \in Thread : shader_pc[v].at = "add" => shader_pc[v].name \notin flagged
    BY <1>1, InvokeFacts
  <2> QED
    BY <1>1, <1>2, <1>3, <2>1, <2>2, <2>3, <2>4, BecomeInv
<1>6. ASSUME shader_pc[t].op = "detach", S!Become(t, flagged, attached \ {<<shader_pc[t].program, x>>}, using)
      PROVE  S!IInv'
  <2> DEFINE a == attached \ {<<shader_pc[t].program, x>>}
  <2>1. a \in SUBSET attached /\ \A p, s : <<p, s>> \in attached /\ <<p, s>> \notin a => s = x
    OBVIOUS
  <2>2. S!Become(t, flagged, a, using)
    BY <1>6
  <2> HIDE DEF a
  <2>3. ASSUME NEW y \in S!Dropped(flagged, a, using)
        PROVE  <<kind[y], y>> \in shader_pc[t].checks
    <3>1. y \in flagged
      BY DroppedFacts
    <3>2. \A p \in flagged : kind[p] = "program" => \E v \in Thread : using[v] = p
      BY <1>1, InvokeFacts
    <3>3. /\ kind[y] = "shader"
          /\ \A p \in Context : <<p, y>> \notin a
      BY <3>1, <3>2, DroppedFacts
    <3>4. PICK p \in Context : <<p, y>> \in attached
      BY <1>1, <3>1, <3>3, InvokeFacts
    <3>5. y = x
      BY <2>1, <3>3, <3>4
    <3> QED
      BY <1>1, <1>6, <3>3, <3>5, InvokeFacts
  <2>4. \A v \in Thread : shader_pc[v].at = "add" => shader_pc[v].name \notin flagged
    BY <1>1, InvokeFacts
  <2>5. using[t] # S!None => kind[using[t]] = "program"
    BY <1>2
  <2> QED
    BY <1>1, <1>2, <1>3, <2>1, <2>2, <2>3, <2>4, <2>5, BecomeInv
<1>7. ASSUME shader_pc[t].op \in S!Kinds, S!Is(shader_pc[t].op, x), S!Become(t, flagged \cup {x}, attached, using)
      PROVE  S!IInv'
  <2> DEFINE f == flagged \cup {x}
  <2>1. x \in Context /\ kind[x] = shader_pc[t].op
    BY <1>4, <1>7 DEF S!Is
  <2>2. f \in SUBSET Context /\ (\A y \in f : y \in flagged \/ y = x) /\ \A y \in f : kind[y] \in S!Kinds
    BY <1>2, <1>3, <1>7, <2>1
  <2>3. \A v \in Thread : shader_pc[v].at = "add" => shader_pc[v].name \notin f
    BY <1>1, <1>7, InvokeFacts
  <2>4. S!Become(t, f, attached, using)
    BY <1>7
  <2> HIDE DEF f
  <2>5. ASSUME NEW y \in S!Dropped(f, attached, using)
        PROVE  <<kind[y], y>> \in shader_pc[t].checks
    <3>1. y \in f /\ y \in Context
      BY <2>2, DroppedFacts
    <3>2. ASSUME NEW p \in f, kind[p] = "program", \A v \in Thread : using[v] # p
          PROVE  p = x /\ shader_pc[t].op = "program"
      BY <1>1, <2>1, <2>2, <3>2, InvokeFacts
    <3>3. CASE kind[y] = "program" /\ \A v \in Thread : using[v] # y
      BY <1>1, <3>1, <3>2, <3>3, InvokeFacts
    <3>4. CASE /\ kind[y] = "shader"
               /\ \A p \in Context : <<p, y>> \in attached =>
                      p \in f /\ kind[p] = "program" /\ \A v \in Thread : using[v] # p
      <4>1. CASE y = x
        <5>1. shader_pc[t].op = "shader"
          BY <2>1, <3>4, <4>1
        <5> QED
          BY <1>1, <3>4, <4>1, <5>1, InvokeFacts
      <4>2. CASE y # x
        <5>1. PICK p \in Context : <<p, y>> \in attached
          BY <1>1, <2>2, <3>1, <3>4, <4>2, InvokeFacts
        <5>2. p = x /\ shader_pc[t].op = "program"
          BY <3>2, <3>4, <5>1
        <5> QED
          BY <1>1, <3>1, <3>4, <5>1, <5>2, InvokeFacts
      <4> QED
        BY <4>1, <4>2
    <3> QED
      BY <3>3, <3>4, DroppedFacts
  <2>6. using[t] # S!None => kind[using[t]] = "program"
    BY <1>2
  <2> QED
    BY <1>1, <1>2, <1>3, <2>2, <2>3, <2>4, <2>5, <2>6, BecomeInv
<1>8. ASSUME UNCHANGED <<kind, flagged, attached, using, maker, reused, strayed>>
      PROVE  S!IInv'
  <2> DEFINE C == shader_pc[t].checks
             D == {}
  <2>1. C \in SUBSET shader_pc[t].checks /\ D \in SUBSET shader_pc[t].gone /\ S!Check(t, C)
        /\ listed' = listed \ S!Entries(t, D) /\ strayed' = strayed \ S!Entries(t, D)
        /\ \A y \in Context, k \in S!Kinds : <<k, y>> \in shader_pc[t].checks \ C => kind[y] = k \/ <<k, y>> \in D
    BY <1>1, <1>8 DEF S!Entries
  <2> HIDE DEF C, D
  <2> QED
    BY <1>1, <1>8, <2>1, ContinueInv
<1> HIDE DEF x
<1>9. \/ /\ shader_pc[t].op = "use" /\ (x = S!None \/ S!Is("program", x))
         /\ S!Become(t, flagged, attached, [using EXCEPT ![t] = x])
      \/ shader_pc[t].op = "detach" /\ S!Become(t, flagged, attached \ {<<shader_pc[t].program, x>>}, using)
      \/ /\ shader_pc[t].op \in S!Kinds /\ S!Is(shader_pc[t].op, x)
         /\ S!Become(t, flagged \cup {x}, attached, using)
      \/ UNCHANGED <<kind, flagged, attached, using, maker, reused, strayed>>
  BY DEF S!Invoke, S!Kinds, S!gl, S!history, x
<1> QED
  BY <1>5, <1>6, <1>7, <1>8, <1>9
-----------------------------------------------------------------------------
\* The checks of a program are of things that may be checked.
LEMMA ProgramChecksType ==
    ASSUME NEW A \in SUBSET Context, NEW p \in {S!None} \cup Context
    PROVE  S!ProgramChecks(A, p) \in SUBSET S!Targets
BY DEF S!ProgramChecks, S!Targets, S!Kinds

\* Shaders are names.
LEMMA AttachedToType == \A p : S!AttachedTo(p) \in SUBSET Context
BY DEF S!AttachedTo

\* glUseProgram notes the program it takes the place of, with its shaders.
LEMMA UseProgramInv ==
    ASSUME S!IInv, NEW t \in Thread, NEW p \in Context \cup {S!None}, S!UseProgram(t, p)
    PROVE  S!IInv'
<1> DEFINE checks == IF using[t] = S!None THEN {} ELSE S!ProgramChecks(S!AttachedTo(using[t]), using[t])
           n == S!None
<1>1. /\ shader_pc[t].at = "idle" /\ S!Call(t, "use", p, S!None, checks)
      /\ \A v \in Thread : S!Calling(v) => shader_pc[v].op = "use"
      /\ UNCHANGED <<kind, flagged, attached, using, home, listed, maker, reused, strayed>>
  BY DEF S!UseProgram, S!At, S!AllUse, S!Calling, S!gl, S!history
<1>2. using[t] \in {S!None} \cup Context
  BY ShaderFacts
<1>3. checks \in SUBSET S!Targets
  BY <1>2, ProgramChecksType, AttachedToType
<1>4. using[t] # S!None => S!ProgramChecks(S!AttachedTo(using[t]), using[t]) \subseteq checks
  OBVIOUS
<1> HIDE DEF checks
<1>5. "use" \in {S!None, "use", "detach"} \cup S!Kinds /\ "use" \notin S!Kinds
  BY DEF S!Kinds
<1> QED
  BY <1>1, <1>3, <1>4, <1>5, CallStep

\* glDetachShader notes the shader.
LEMMA DetachShaderInv ==
    ASSUME S!IInv, NEW t \in Thread, NEW p \in Context, NEW s \in Context, S!DetachShader(t, p, s)
    PROVE  S!IInv'
<1> DEFINE checks == {<<"shader", s>>}
<1>1. /\ shader_pc[t].at = "idle" /\ S!Call(t, "detach", s, p, checks)
      /\ \A v \in Thread : ~S!Calling(v)
      /\ UNCHANGED <<kind, flagged, attached, using, home, listed, maker, reused, strayed>>
  BY DEF S!DetachShader, S!At, S!Alone, S!Calling, S!gl, S!history
<1>2. checks \in SUBSET S!Targets /\ <<"shader", s>> \in checks
  BY DEF S!Targets, S!Kinds
<1> HIDE DEF checks
<1>3. "detach" \in {S!None, "use", "detach"} \cup S!Kinds /\ "detach" \notin S!Kinds
  BY DEF S!Kinds
<1> QED
  BY <1>1, <1>2, <1>3, CallStep

\* glDeleteShader notes the shader.
LEMMA DeleteShaderInv ==
    ASSUME S!IInv, NEW t \in Thread, NEW s \in Context, S!DeleteShader(t, s)
    PROVE  S!IInv'
<1> DEFINE checks == {<<"shader", s>>}
<1>1. /\ shader_pc[t].at = "idle" /\ S!Known("shader", s) /\ S!Call(t, "shader", s, S!None, checks)
      /\ \A v \in Thread : ~S!Calling(v)
      /\ UNCHANGED <<kind, flagged, attached, using, home, listed, maker, reused, strayed>>
  BY DEF S!DeleteShader, S!At, S!Alone, S!Calling, S!gl, S!history
<1>2. checks \in SUBSET S!Targets /\ <<"shader", s>> \in checks
  BY DEF S!Targets, S!Kinds
<1> HIDE DEF checks
<1>3. "shader" \in {S!None, "use", "detach"} \cup S!Kinds
  BY DEF S!Kinds
<1> QED
  BY <1>1, <1>2, <1>3, CallStep

\* glDeleteProgram notes the program and its shaders.
LEMMA DeleteProgramInv ==
    ASSUME S!IInv, NEW t \in Thread, NEW p \in Context, S!DeleteProgram(t, p)
    PROVE  S!IInv'
<1> DEFINE checks == S!ProgramChecks(S!AttachedTo(p), p)
<1>1. /\ shader_pc[t].at = "idle" /\ S!Known("program", p) /\ S!Call(t, "program", p, S!None, checks)
      /\ \A v \in Thread : ~S!Calling(v)
      /\ UNCHANGED <<kind, flagged, attached, using, home, listed, maker, reused, strayed>>
  BY DEF S!DeleteProgram, S!At, S!Alone, S!Calling, S!gl, S!history
<1>2. checks \in SUBSET S!Targets
  BY ProgramChecksType, AttachedToType
<1>3. S!ProgramChecks(S!AttachedTo(p), p) \subseteq checks
  OBVIOUS
<1> HIDE DEF checks
<1>4. "program" \in {S!None, "use", "detach"} \cup S!Kinds
  BY DEF S!Kinds
<1> QED
  BY <1>1, <1>2, <1>3, <1>4, CallStep

\* glDeleteProgram(0) checks what happens to be there, which does no harm.
LEMMA DeleteZeroInv == ASSUME S!IInv, NEW t \in Thread, S!DeleteZero(t) PROVE S!IInv'
<1>1. PICK s \in Context \cup {S!None} : S!Call(t, S!None, S!None, S!None, S!ProgramChecks({s} \ {S!None}, S!None))
  BY DEF S!DeleteZero
<1> DEFINE checks == S!ProgramChecks({s} \ {S!None}, S!None)
<1>2. /\ shader_pc[t].at = "idle" /\ S!Call(t, S!None, S!None, S!None, checks)
      /\ \A v \in Thread : ~S!Calling(v)
      /\ UNCHANGED <<kind, flagged, attached, using, home, listed, maker, reused, strayed>>
  BY <1>1 DEF S!DeleteZero, S!At, S!Alone, S!Calling, S!gl, S!history
<1>3. checks \in SUBSET S!Targets
  <2>1. {s} \ {S!None} \in SUBSET Context
    OBVIOUS
  <2> QED
    BY <2>1, ProgramChecksType
<1> HIDE DEF checks
<1>4. S!None \in {S!None, "use", "detach"} \cup S!Kinds /\ S!None \notin S!Kinds
      /\ S!None # "use" /\ S!None \notin {"detach", "shader"} /\ S!None # "program"
  BY DEF S!Kinds, S!None
<1> QED
  BY <1>2, <1>3, <1>4, CallStep
-----------------------------------------------------------------------------
\* The invariant holds when nothing was created.
LEMMA ShaderInitInv == S!Init => S!IInv
<1> SUFFICES ASSUME S!Init PROVE S!IInv
  OBVIOUS
<1>1. S!Idle \in S!PC /\ S!Idle.at = "idle" /\ S!Idle.checks = {} /\ S!Idle.gone = {}
  BY DEF S!Idle, S!PC
<1>2. /\ shader_pc \in [Thread -> S!PC]
      /\ \A t \in Thread : shader_pc[t].at = "idle" /\ shader_pc[t].checks = {} /\ shader_pc[t].gone = {}
  BY <1>1 DEF S!Init
<1>3. S!TypeOK
  BY <1>2 DEF S!Init, S!TypeOK, S!At, S!Calling
<1>4. S!DroppedInv
  BY DEF S!Init, S!DroppedInv
<1>5. S!CallInv
  BY <1>2 DEF S!CallInv, S!At, S!Calling
<1>6. S!CheckInv
  BY <1>2 DEF S!CheckInv, S!At
<1>7. S!ListInv
  BY <1>2 DEF S!Init, S!ListInv, S!Accounted, S!At, S!Kinds, S!None
<1> QED
  BY <1>3, <1>4, <1>5, <1>6, <1>7 DEF S!IInv

\* Every step keeps it.
LEMMA ShaderNextInv == S!IInv /\ [S!Next]_(S!vars) => S!IInv'
<1> SUFFICES ASSUME S!IInv, [S!Next]_(S!vars) PROVE S!IInv'
  OBVIOUS
<1>1. CASE S!Next
  <2>1. PICK t \in Thread :
            \/ \E x \in Context : S!Create(t, "shader", x) \/ S!Create(t, "program", x)
            \/ \E p, s \in Context : S!Attach(t, p, s) \/ S!DetachShader(t, p, s)
            \/ \E x \in Context : S!DeleteShader(t, x) \/ S!DeleteProgram(t, x)
            \/ \E x \in Context \cup {S!None} : S!UseProgram(t, x)
            \/ S!DeleteZero(t) \/ S!Add(t) \/ S!Invoke(t) \/ S!Ask(t) \/ S!DeleteSingle(t)
    BY <1>1 DEF S!Next
  <2>2. "shader" \in S!Kinds /\ "program" \in S!Kinds
    BY DEF S!Kinds
  <2> QED
    BY <2>1, <2>2, ShaderCreateInv, AttachInv, DetachShaderInv, DeleteShaderInv, DeleteProgramInv, UseProgramInv,
       DeleteZeroInv, AddInv, InvokeInv, AskInv, DeleteSingleInv
<1>2. CASE UNCHANGED S!vars
  <2>1. UNCHANGED <<kind, flagged, attached, using, home, listed, shader_pc, maker, reused, strayed>>
    BY <1>2 DEF S!vars, S!gl, S!history
  <2>2. S!TypeOK'
    BY <2>1 DEF S!IInv, S!TypeOK, S!At, S!Calling
  <2>3. S!CallInv'
    BY <2>1 DEF S!IInv, S!CallInv, S!At, S!Calling
  <2>4. S!CheckInv'
    BY <2>1 DEF S!IInv, S!CheckInv, S!At, S!AttachedTo, S!ProgramChecks
  <2>5. S!ListInv'
    BY <2>1, SameList
  <2> QED
    BY <2>1, <2>2, <2>3, <2>4, <2>5, SameDropped DEF S!IInv
<1> QED
  BY <1>1, <1>2

\* The property, from the invariant.
LEMMA ShaderListed == S!IInv => ListedIsAlive
<1> SUFFICES ASSUME S!IInv, NEW n \in Thread, NEW x \in Context, NEW k \in S!Kinds, ~S!Busy(n, x)
             PROVE  /\ <<n, k, x>> \in listed => kind[x] = k \/ <<n, k, x>> \in strayed
                    /\ kind[x] = k /\ maker[x] = n => <<n, k, x>> \in listed \/ x \in reused
  BY DEF ListedIsAlive, S!ListedIsAlive, S!Kinds
<1>1. \A v \in Thread : home[v] = n => /\ <<k, x>> \notin shader_pc[v].checks
                                        /\ ~(shader_pc[v].at = "add" /\ shader_pc[v].name = x)
  BY DEF S!Busy, S!In, S!Kinds
<1>2. maker[x] = n => \A v \in Thread : ~(shader_pc[v].at = "add" /\ shader_pc[v].name = x)
  BY <1>1 DEF S!IInv, S!CallInv, S!At
<1> QED
  BY <1>1, <1>2 DEF S!IInv, S!ListInv, S!Accounted, S!In, S!At
-----------------------------------------------------------------------------
(* The inductive invariant: OpenGL keeps no object that nothing holds; what may go
   with a call is noted before it (the filter globjects_pre); what a namespace lists
   and is gone, a thread of that namespace is about to check, or it went by a call made
   through another namespace; and what was created in a namespace is listed there, or
   about to be, or had its name given out in the middle of a check.  Whichever contexts
   have one namespace. *)
THEOREM ShadersInvariant == S!Spec => []S!IInv
<1>1. S!Init => S!IInv
  BY ShaderInitInv
<1>2. S!IInv /\ [S!Next]_(S!vars) => S!IInv'
  BY ShaderNextInv
<1> QED
  BY <1>1, <1>2, PTL DEF S!Spec

(* The tables of a namespace (globjects.c:64-84), whichever contexts share it: but for
   names that a call made through it is busy with, what it lists and is gone went by a
   call made through another namespace, and what was created through it and is there
   is listed unless its name was given out anew between the question about the old
   object and its removal (globjects_checks). *)
THEOREM ShadersListedIsAlive == S!Spec => []ListedIsAlive
BY ShaderListed, ShadersInvariant, PTL

-----------------------------------------------------------------------------
(* THE HASH TABLE *)

(* Searches in a table of n entries. *)

\* No two places are at the same distance of a key.
LEMMA Distances ==
    ASSUME NEW n \in Nat \ {0}, NEW k \in Key \cup {NULL},
           NEW p \in 0 .. n - 1, NEW q \in 0 .. n - 1
    PROVE  /\ Distance(k, p, n) \in 0 .. n - 1
           /\ Distance(k, p, n) = Distance(k, q, n) => p = q
<1>1. Hash[k] \in Nat
  BY HashAssumption
<1> DEFINE h == Hash[k] % n
<1>2. h \in 0 .. n - 1
  BY <1>1
<1> HIDE DEF h
<1>3. /\ Distance(k, p, n) = IF p >= h THEN p - h ELSE p - h + n
      /\ Distance(k, q, n) = IF q >= h THEN q - h ELSE q - h + n
  BY DEF Distance, h
<1> QED
  BY <1>2, <1>3

\* A search ends in one place.
LEMMA OneEnd ==
    ASSUME NEW n \in Nat \ {0}, NEW t \in [0 .. n - 1 -> Entry], NEW k \in Key \cup {NULL},
           NEW stops, NEW p \in 0 .. n - 1, NEW q \in 0 .. n - 1,
           StopsAt(t, n, k, stops, p), StopsAt(t, n, k, stops, q)
    PROVE  p = q
<1>1. /\ Distance(k, p, n) \in 0 .. n - 1 /\ Distance(k, q, n) \in 0 .. n - 1
      /\ Distance(k, p, n) = Distance(k, q, n) => p = q
  BY Distances
<1>2. ~(Distance(k, p, n) < Distance(k, q, n)) /\ ~(Distance(k, q, n) < Distance(k, p, n))
  BY DEF StopsAt
<1> QED
  BY <1>1, <1>2

\* No key is in two places.
LEMMA OnePlace ==
    ASSUME NEW n \in Nat \ {0}, NEW t \in [0 .. n - 1 -> Entry], InPlace(t, n),
           NEW p \in Occupied(t), NEW q \in Occupied(t), t[p].key = t[q].key
    PROVE  p = q
<1>1. p \in 0 .. n - 1 /\ q \in 0 .. n - 1 /\ t[p].key \in Key \cup {NULL}
  BY DEF Occupied, Entry
<1>2. EndsAt(t, n, t[p].key, p) /\ EndsAt(t, n, t[p].key, q)
  BY DEF InPlace
<1> QED
  BY <1>1, <1>2, OneEnd DEF EndsAt

\* Where a key that is absent finds a free entry, a search for it ends.
LEMMA FreeForAbsent ==
    ASSUME NEW n \in Nat \ {0}, NEW t \in [0 .. n - 1 -> Entry], InPlace(t, n),
           NEW k \in Key, NEW p \in 0 .. n - 1, StopsAt(t, n, k, {NULL}, p),
           \A q \in Occupied(t) : t[q].key # k
    PROVE  EndsAt(t, n, k, p)
BY DEF StopsAt, EndsAt, Occupied

\* An entry filled where the search for its key ends leaves all in place.
LEMMA FillInPlace ==
    ASSUME NEW n \in Nat \ {0}, NEW t \in [0 .. n - 1 -> Entry], InPlace(t, n),
           NEW k \in Key \cup {NULL}, NEW v \in Value \cup {NULL},
           NEW p \in 0 .. n - 1, EndsAt(t, n, k, p)
    PROVE  /\ Filled(t, p, k, v) \in [0 .. n - 1 -> Entry]
           /\ InPlace(Filled(t, p, k, v), n)
<1> DEFINE f == Filled(t, p, k, v)
<1>1. /\ f \in [0 .. n - 1 -> Entry]
      /\ f[p] = [key |-> k, value |-> v]
      /\ \A q \in 0 .. n - 1 : q # p => f[q] = t[q]
  BY DEF Filled, Entry
<1>2. ASSUME NEW q \in Occupied(f) PROVE EndsAt(f, n, f[q].key, q)
  <2>1. q \in 0 .. n - 1 /\ f[q].key # NULL /\ DOMAIN f = 0 .. n - 1 /\ DOMAIN t = 0 .. n - 1
    BY <1>1, <1>2 DEF Occupied
  <2> HIDE DEF f
  <2>2. CASE q = p
    BY <1>1, <2>1, <2>2 DEF EndsAt, StopsAt
  <2>3. CASE q # p
    <3>1. f[q] = t[q] /\ q \in Occupied(t)
      BY <1>1, <2>1, <2>3 DEF Occupied
    <3>2. EndsAt(t, n, t[q].key, q)
      BY <3>1 DEF InPlace
    <3>3. t[p].key \in {NULL, k}
      BY DEF EndsAt, StopsAt
    <3>4. ASSUME NEW r \in 0 .. n - 1, Distance(f[q].key, r, n) < Distance(f[q].key, q, n)
          PROVE  f[r].key \notin {NULL, f[q].key}
      <4>1. t[r].key \notin {NULL, f[q].key}
        BY <2>1, <3>1, <3>2, <3>4 DEF EndsAt, StopsAt
      <4> QED
        BY <1>1, <3>3, <4>1
    <3> QED
      BY <2>1, <3>1, <3>4 DEF EndsAt, StopsAt
  <2> QED
    BY <2>2, <2>3
<1> QED
  BY <1>1, <1>2 DEF InPlace

\* What filling an entry does to the set of those that are not free.
LEMMA FillOccupied ==
    ASSUME NEW n \in Nat \ {0}, NEW t \in [0 .. n - 1 -> Entry],
           NEW k \in Key \cup {NULL}, NEW v \in Value \cup {NULL},
           NEW p \in 0 .. n - 1, t[p].key \in {NULL, k}
    PROVE  /\ k # NULL => Occupied(Filled(t, p, k, v)) = Occupied(t) \cup {p}
           /\ k = NULL => Occupied(Filled(t, p, k, v)) = Occupied(t) /\ p \notin Occupied(t)
           /\ \A q \in Occupied(t) : q # p => Filled(t, p, k, v)[q] = t[q]
           /\ Filled(t, p, k, v)[p] = [key |-> k, value |-> v]
BY KeyAssumption DEF Filled, Occupied, Entry

\* There are at most n entries that are not free.
LEMMA OccupiedFinite ==
    ASSUME NEW n \in Nat, NEW t \in [0 .. n - 1 -> Entry]
    PROVE  /\ IsFiniteSet(Occupied(t)) /\ Cardinality(Occupied(t)) \in Nat
           /\ Cardinality(Occupied(t)) <= n
           /\ Occupied(t) = DOMAIN t => Cardinality(Occupied(t)) = n
<1>1. IsFiniteSet(0 .. n - 1) /\ Cardinality(0 .. n - 1) = n
  BY FS_Interval
<1>2. Occupied(t) \in SUBSET (0 .. n - 1)
  BY DEF Occupied
<1>3. /\ IsFiniteSet(Occupied(t))
      /\ Cardinality(Occupied(t)) <= Cardinality(0 .. n - 1)
  BY <1>1, <1>2, FS_Subset
<1> QED
  BY <1>1, <1>3, FS_CardinalityType

\* A table that was just allocated is empty.
LEMMA AllocatedEmpty ==
    ASSUME NEW n \in Nat
    PROVE  /\ Allocated(n) \in [0 .. n - 1 -> Entry]
           /\ Occupied(Allocated(n)) = {}
           /\ InPlace(Allocated(n), n)
BY DEF Allocated, Blank, Entry, Occupied, InPlace
-----------------------------------------------------------------------------
(* The sizes on the list. *)

\* Adding to the last number of a list leaves the others.
LEMMA LastAdds ==
    ASSUME NEW s \in Seq(Nat), s # <<>>, NEW u, u = [s EXCEPT ![Len(s)] = @ + 2]
    PROVE  /\ Len(s) > 0 /\ s[Len(s)] \in Nat
           /\ Len(u) = Len(s) /\ u \in Seq(Nat)
           /\ \A j \in 1 .. Len(s) - 1 : u[j] = s[j] /\ s[j] \in Nat
           /\ u[Len(s)] = s[Len(s)] + 2
<1>1. PICK n \in Nat \ {0} : n = Len(s) /\ DOMAIN s = 1 .. n
  OBVIOUS
<1>2. \A j \in 1 .. n : s[j] \in Nat
  BY <1>1
<1>3. DOMAIN u = 1 .. n /\ u[n] = s[n] + 2 /\ \A j \in 1 .. n : j # n => u[j] = s[j]
  <2>1. u = [s EXCEPT ![n] = s[n] + 2] /\ n \in DOMAIN s
    BY <1>1
  <2> QED
    BY <1>1, <2>1, Zenon
<1>4. \A j \in 1 .. n : u[j] \in Nat
  BY <1>2, <1>3
<1>5. u = [j \in 1 .. n |-> u[j]]
  <2>1. u = [j \in DOMAIN s |-> u[j]]
    BY Zenon
  <2> QED
    BY <1>1, <2>1
<1>6. u \in Seq(Nat) /\ Len(u) = n
  BY <1>1, <1>4, <1>5
<1> QED
  BY <1>1, <1>2, <1>3, <1>6

\* The next table has more than twice the entries, or cannot be had.
LEMMA NextSize ==
    ASSUME TableTypeOK, Doubles, Sizes, made, size_index < Len(primes),
           primes[size_index + 1] < SIZE_MAX
    PROVE  /\ primes[size_index + 1] \in Nat
           /\ primes[size_index + 1] >= 2 * size + 1
           /\ primes[size_index + 1] >= 5
<1>1. Len(primes) \in Nat /\ \A j \in 1 .. Len(primes) : primes[j] \in Nat
  BY DEF TableTypeOK
<1>2. CASE size_index = 0
  BY <1>1, <1>2 DEF TableTypeOK, Doubles, Sizes
<1>3. CASE size_index > 0
  <2>1. size_index \in 1 .. Len(primes) - 1 /\ size_index + 1 \in 1 .. Len(primes)
    BY <1>1, <1>3 DEF TableTypeOK
  <2>2. primes[size_index + 1] >= 2 * primes[size_index] + 1
    BY <1>1, <2>1, SizeAssumption DEF Doubles
  <2>3. size = primes[size_index] /\ size >= 5
    BY <1>3 DEF Sizes
  <2>4. primes[size_index + 1] \in Nat /\ primes[size_index] \in Nat
    BY <1>1, <2>1
  <2> QED
    BY <2>2, <2>3, <2>4
<1> QED
  BY <1>2, <1>3 DEF TableTypeOK

\* The table before had less than half the entries.
LEMMA SizeBeforeSmall ==
    ASSUME TableTypeOK, Doubles, Sizes, size > 0
    PROVE  SizeBefore \in Nat /\ 2 * SizeBefore + 1 <= size
<1>1. Len(primes) \in Nat /\ \A j \in 1 .. Len(primes) : primes[j] \in Nat
  BY DEF TableTypeOK
<1>2. size_index > 0 /\ size_index <= Len(primes) /\ size = primes[size_index] /\ size < SIZE_MAX
  BY DEF TableTypeOK, Sizes
<1>3. CASE size_index < 2
  BY <1>3 DEF SizeBefore, TableTypeOK
<1>4. CASE size_index >= 2
  <2>1. size_index - 1 \in 1 .. Len(primes) - 1 /\ size_index - 1 + 1 = size_index
    BY <1>1, <1>2, <1>4 DEF TableTypeOK
  <2>2. primes[size_index - 1 + 1] >= 2 * primes[size_index - 1] + 1
    BY <1>1, <1>2, <2>1, SizeAssumption DEF Doubles, TableTypeOK
  <2> QED
    BY <1>1, <1>2, <1>4, <2>1, <2>2 DEF SizeBefore, TableTypeOK
<1> QED
  BY <1>3, <1>4 DEF TableTypeOK

-----------------------------------------------------------------------------
(* The loops end. *)

\* The invariant leaves a free entry in each table.
LEMMA InvProbesEnd == TableInv => ProbesEnd
<1> SUFFICES ASSUME TableInv PROVE ProbesEnd
    OBVIOUS
<1>0. TableTypeOK /\ Doubles /\ Sizes /\ Room /\ Moving
  BY DEF TableInv
<1>1. ASSUME size > 0 PROVE Occupied(entries) # DOMAIN entries
  <2>1. SizeBefore \in Nat /\ 2 * SizeBefore + 1 <= size
    BY <1>0, <1>1, SizeBeforeSmall
  <2>2. Cardinality(Occupied(entries)) <= count + SizeBefore /\ count <= size \div 2
    BY <1>0, <1>1 DEF Room
  <2>3. /\ Cardinality(Occupied(entries)) \in Nat
        /\ Occupied(entries) = DOMAIN entries => Cardinality(Occupied(entries)) = size
    BY <1>0, OccupiedFinite DEF TableTypeOK
  <2>4. size \in Nat /\ count \in Nat
    BY <1>0 DEF TableTypeOK
  <2> QED
    BY <2>1, <2>2, <2>3, <2>4
<1>2. ASSUME table_pc = "move" PROVE Occupied(big) # DOMAIN big
  <2> DEFINE n == primes[size_index + 1]
  <2>1. /\ made /\ size_index < Len(primes) /\ n < SIZE_MAX
        /\ big \in [0 .. n - 1 -> Entry] /\ i <= size /\ Cardinality(Occupied(big)) <= i
    BY <1>0, <1>2 DEF Moving, Sizes
  <2>2. n \in Nat /\ n >= 2 * size + 1
    BY <1>0, <2>1, NextSize
  <2> HIDE DEF n
  <2>3. /\ Cardinality(Occupied(big)) \in Nat
        /\ Occupied(big) = DOMAIN big => Cardinality(Occupied(big)) = n
    BY <2>1, <2>2, OccupiedFinite
  <2>4. size \in Nat /\ i \in Nat
    BY <1>0 DEF TableTypeOK
  <2> QED
    BY <2>1, <2>2, <2>3, <2>4
<1> QED
  BY <1>1, <1>2 DEF ProbesEnd

\* The invariant says what a search and the iteration find.
LEMMA InvFinds == TableInv => FindsWhatWasSet
<1> SUFFICES ASSUME TableInv PROVE FindsWhatWasSet
    OBVIOUS
<1>0. /\ TableTypeOK /\ Sizes /\ InPlace(entries, size) /\ HoldsMap
      /\ DOMAIN entries = 0 .. size - 1 /\ size \in Nat
  BY DEF TableInv, BothInPlace, TableTypeOK
<1>1. size = 0 => DOMAIN map = {}
  <2>1. size = 0 => Occupied(entries) = {}
    BY <1>0 DEF Occupied
  <2> QED
    BY <1>0, <2>1 DEF HoldsMap
<1>2. ASSUME NEW k \in Key, NEW p \in DOMAIN entries, EndsAt(entries, size, k, p)
      PROVE  /\ Counted(p) <=> k \in DOMAIN map
             /\ Counted(p) => Got(p) = map[k]
  <2>1. size \in Nat \ {0} /\ p \in 0 .. size - 1 /\ entries \in [0 .. size - 1 -> Entry]
    BY <1>0 DEF TableTypeOK
  <2>2. entries[p].key \in {NULL, k}
    BY <1>2 DEF EndsAt, StopsAt
  <2>3. CASE Counted(p)
    <3>1. entries[p].key = k /\ p \in Occupied(entries)
      BY <1>2, <2>2, <2>3 DEF Counted, Occupied
    <3> QED
      BY <1>0, <2>3, <3>1 DEF HoldsMap, Got
  <2>4. CASE ~Counted(p)
    <3>1. SUFFICES ASSUME k \in DOMAIN map PROVE FALSE
      BY <2>4
    <3>2. PICK q \in Occupied(entries) : entries[q].key = k
      BY <1>0, <3>1 DEF HoldsMap
    <3>3. q \in 0 .. size - 1 /\ EndsAt(entries, size, k, q)
      BY <1>0, <3>2 DEF InPlace, Occupied
    <3>4. p = q
      BY <1>2, <2>1, <3>3, OneEnd DEF EndsAt
    <3> QED
      BY <2>4, <3>2, <3>4 DEF Counted, Occupied
  <2> QED
    BY <2>3, <2>4
<1>3. ASSUME NEW p \in Occupied(entries), NEW q \in Occupied(entries),
             entries[p].key = entries[q].key
      PROVE  p = q
  <2>1. size \in Nat \ {0} /\ entries \in [0 .. size - 1 -> Entry]
    BY <1>0, <1>3 DEF TableTypeOK, Occupied
  <2> QED
    BY <1>0, <1>3, <2>1, OnePlace
<1> QED
  BY <1>0, <1>1, <1>2, <1>3 DEF FindsWhatWasSet, HoldsMap
-----------------------------------------------------------------------------
(* The invariant holds initially and every step keeps it. *)

(* An empty table is in order. *)
LEMMA TableInitInv == TableInit => TableInv
<1> SUFFICES ASSUME TableInit PROVE TableInv
    OBVIOUS
<1>0. /\ primes = <<>> /\ made = FALSE /\ size = 0 /\ size_index = 0 /\ count = 0
      /\ i = 0 /\ table_pc = "idle" /\ key = NULL /\ value = NULL
      /\ entries = Allocated(0) /\ map = [k \in {} |-> NULL]
  BY DEF TableInit
<1>1. entries \in [0 .. size - 1 -> Entry] /\ Occupied(entries) = {} /\ InPlace(entries, size)
  BY <1>0, AllocatedEmpty
<1>2. TableTypeOK
  <2>1. <<>> \in Seq(Nat)
    OBVIOUS
  <2> QED
    BY <1>0, <1>1, <2>1 DEF TableTypeOK
<1>3. Doubles /\ Sizes
  BY <1>0 DEF Doubles, Sizes
<1>4. Room
  BY <1>0, <1>1, FS_EmptySet DEF Room, SizeBefore
<1>5. Moving /\ BothInPlace
  BY <1>0, <1>1 DEF Moving, BothInPlace
<1>6. HoldsMap
  BY <1>0, <1>1 DEF HoldsMap
<1> QED
  BY <1>2, <1>3, <1>4, <1>5, <1>6 DEF TableInv

\* Where the table stays as it is and none is being copied to
LEMMA SameTable ==
    ASSUME TableInv, UNCHANGED <<size, size_index, count, entries, map>>,
           table_pc' # "move", UNCHANGED primes \/ (size_index = 0 /\ size = 0),
           table_pc' = "store" => size > 0 /\ count < size \div 2
    PROVE  Room' /\ Moving' /\ BothInPlace' /\ HoldsMap'
<1>1. Room'
  BY DEF TableInv, Room, SizeBefore
<1>2. Moving' /\ BothInPlace'
  BY DEF TableInv, Moving, BothInPlace
<1>3. HoldsMap'
  BY DEF TableInv, HoldsMap
<1> QED
  BY <1>1, <1>2, <1>3

(* The call of bugle_hash_set keeps the invariant. *)
LEMMA SetStep ==
    ASSUME TableInv, NEW k \in Key \cup {NULL}, NEW v \in Value \cup {NULL}, HashSet(k, v)
    PROVE  TableInv'
<1>0. /\ TableTypeOK /\ Doubles /\ Sizes /\ table_pc = "idle"
      /\ UNCHANGED <<primes, made, size, size_index, count, entries, big, i, map>>
      /\ key' = k /\ value' = v
      /\ table_pc' = IF ~Grows THEN "store" ELSE IF made THEN "grow" ELSE "primes"
  BY DEF TableInv, HashSet, table
<1>1. TableTypeOK'
  BY <1>0 DEF TableTypeOK
<1>2. Doubles'
  BY <1>0 DEF Doubles
<1>3. Sizes'
  BY <1>0 DEF Sizes
<1>4. table_pc' = "store" => size > 0 /\ count < size \div 2
  BY <1>0, SizeAssumption DEF Grows, TableTypeOK, Sizes
<1>5. table_pc' # "move"
  BY <1>0
<1> QED
  BY <1>0, <1>1, <1>2, <1>3, <1>4, <1>5, SameTable DEF TableInv

\* hash_initialise has its turns before there is a table.
LEMMA PrimesStep ==
    ASSUME TableInv, FirstPrime \/ NextPrime \/ AddTwo \/ LastPrime
    PROVE  TableInv'
<1>0. /\ TableTypeOK /\ Doubles /\ Sizes /\ table_pc = "primes" /\ ~made
      /\ UNCHANGED <<size, size_index, count, entries, big, i, key, value, map>>
  BY DEF TableInv, FirstPrime, NextPrime, AddTwo, LastPrime, table, Sizes
<1>1. size_index = 0 /\ size = 0 /\ Len(primes) \in Nat
  BY <1>0 DEF Sizes, TableTypeOK
<1>2. CASE FirstPrime
  <2>1. primes = <<>> /\ primes' = <<5>> /\ UNCHANGED <<made, table_pc>>
    BY <1>2 DEF FirstPrime
  <2>2. TableTypeOK' /\ Doubles' /\ Sizes'
    BY <1>0, <1>1, <2>1 DEF TableTypeOK, Doubles, Sizes
  <2> QED
    BY <1>0, <1>1, <2>1, <2>2, SameTable DEF TableInv
<1>3. CASE NextPrime
  <2>1. /\ primes # <<>> /\ primes' = Append(primes, 2 * Last + 1) /\ UNCHANGED <<made, table_pc>>
    BY <1>3 DEF NextPrime
  <2>2. /\ Len(primes) > 0 /\ Last = primes[Len(primes)] /\ Last \in Nat
        /\ Len(primes') = Len(primes) + 1 /\ primes' \in Seq(Nat)
        /\ \A j \in 1 .. Len(primes) : primes'[j] = primes[j]
        /\ primes'[Len(primes) + 1] = 2 * Last + 1
    BY <1>0, <2>1 DEF TableTypeOK, Last
  <2>3. TableTypeOK'
    BY <1>0, <2>1, <2>2 DEF TableTypeOK
  <2>4. Doubles'
    <3>1. primes'[1] >= 5
      <4>1. 1 \in 1 .. Len(primes)
        BY <1>1, <2>2
      <4> QED
        BY <1>0, <2>2, <4>1 DEF Doubles
    <3>2. ASSUME NEW j \in 1 .. Len(primes') - 1 PROVE primes'[j + 1] >= 2 * primes'[j] + 1
      <4>1. CASE j = Len(primes)
        <5>1. primes'[j] = primes[j] /\ primes'[j + 1] = 2 * Last + 1
          BY <1>1, <2>2, <4>1
        <5> QED
          BY <2>2, <4>1, <5>1
      <4>2. CASE j # Len(primes)
        <5>1. j \in 1 .. Len(primes) - 1 /\ j + 1 \in 1 .. Len(primes) /\ j \in 1 .. Len(primes)
          BY <1>1, <2>2, <4>2
        <5>2. primes'[j] = primes[j] /\ primes'[j + 1] = primes[j + 1]
          BY <2>2, <5>1
        <5> QED
          BY <1>0, <5>1, <5>2 DEF Doubles
      <4> QED
        BY <4>1, <4>2
    <3> QED
      BY <3>1, <3>2 DEF Doubles
  <2>5. Sizes'
    BY <1>0, <1>1, <2>1 DEF Sizes
  <2> QED
    BY <1>0, <1>1, <2>1, <2>3, <2>4, <2>5, SameTable DEF TableInv
<1>4. CASE AddTwo
  <2>1. /\ primes # <<>> /\ primes' = [primes EXCEPT ![Len(primes)] = @ + 2]
        /\ UNCHANGED <<made, table_pc>>
    BY <1>4 DEF AddTwo
  <2>2. /\ Len(primes) > 0 /\ primes[Len(primes)] \in Nat
        /\ Len(primes') = Len(primes) /\ primes' \in Seq(Nat)
        /\ \A j \in 1 .. Len(primes) - 1 : primes'[j] = primes[j] /\ primes[j] \in Nat
        /\ primes'[Len(primes)] = primes[Len(primes)] + 2
    <3>1. primes \in Seq(Nat) /\ primes # <<>>
      BY <1>0, <2>1 DEF TableTypeOK
    <3> QED
      BY <2>1, <3>1, LastAdds
  <2>3. TableTypeOK'
    BY <1>0, <2>1, <2>2 DEF TableTypeOK
  <2>4. Doubles'
    <3>1. primes'[1] >= 5
      <4>1. CASE Len(primes) = 1
        BY <1>0, <1>1, <2>2, <4>1 DEF Doubles
      <4>2. CASE Len(primes) # 1
        <5>1. 1 \in 1 .. Len(primes) - 1
          BY <1>1, <2>2, <4>2
        <5> QED
          BY <1>0, <2>2, <5>1 DEF Doubles
      <4> QED
        BY <4>1, <4>2
    <3>2. ASSUME NEW j \in 1 .. Len(primes') - 1 PROVE primes'[j + 1] >= 2 * primes'[j] + 1
      <4>1. j \in 1 .. Len(primes) - 1 /\ primes'[j] = primes[j] /\ primes[j] \in Nat
        BY <2>2
      <4>2. primes[j + 1] >= 2 * primes[j] + 1
        BY <1>0, <4>1 DEF Doubles
      <4>3. CASE j + 1 = Len(primes)
        BY <2>2, <4>1, <4>2, <4>3
      <4>4. CASE j + 1 # Len(primes)
        <5>1. j + 1 \in 1 .. Len(primes) - 1
          BY <1>1, <4>1, <4>4
        <5>2. primes'[j + 1] = primes[j + 1]
          BY <2>2, <5>1
        <5> QED
          BY <4>1, <4>2, <5>2
      <4> QED
        BY <4>3, <4>4
    <3> QED
      BY <3>1, <3>2 DEF Doubles
  <2>5. Sizes'
    BY <1>0, <1>1, <2>1 DEF Sizes
  <2> QED
    BY <1>0, <1>1, <2>1, <2>3, <2>4, <2>5, SameTable DEF TableInv
<1>5. CASE LastPrime
  <2>1. /\ primes # <<>> /\ primes' = Append(primes, SIZE_MAX) /\ made' = TRUE /\ table_pc' = "grow"
    BY <1>5 DEF LastPrime
  <2>2. /\ Len(primes) > 0
        /\ Len(primes') = Len(primes) + 1 /\ primes' \in Seq(Nat)
        /\ \A j \in 1 .. Len(primes) : primes'[j] = primes[j]
        /\ primes'[Len(primes) + 1] = SIZE_MAX
    BY <1>0, <2>1, SizeAssumption DEF TableTypeOK
  <2>3. TableTypeOK'
    BY <1>0, <2>1, <2>2 DEF TableTypeOK
  <2>4. Doubles'
    BY <1>0, <2>1, <2>2 DEF Doubles
  <2>5. Sizes'
    BY <1>0, <1>1, <2>1, <2>2 DEF Sizes
  <2> QED
    BY <1>0, <1>1, <2>1, <2>3, <2>4, <2>5, SameTable DEF TableInv
<1> QED
  BY <1>2, <1>3, <1>4, <1>5

(* The allocation of a greater table keeps the invariant. *)
LEMMA AllocateStep ==
    ASSUME TableInv, Allocate
    PROVE  TableInv'
<1>0. /\ TableTypeOK /\ Doubles /\ Sizes /\ Room /\ BothInPlace /\ HoldsMap /\ table_pc = "grow" /\ made
      /\ UNCHANGED <<primes, made, size, size_index, count, entries, key, value, map>> /\ i' = 0
      /\ IF primes[size_index + 1] < SIZE_MAX
         THEN table_pc' = "move" /\ big' = Allocated(primes[size_index + 1])
         ELSE table_pc' = "died" /\ UNCHANGED big
  BY DEF TableInv, Allocate, table, Sizes
<1>1. TableTypeOK'
  BY <1>0 DEF TableTypeOK
<1>2. Doubles' /\ Sizes'
  BY <1>0 DEF Doubles, Sizes
<1>3. HoldsMap'
  BY <1>0 DEF HoldsMap
<1>4. CASE table_pc' = "died"
  BY <1>0, <1>1, <1>2, <1>4, SameTable DEF TableInv
<1>5. CASE table_pc' = "move"
  <2> DEFINE n == primes[size_index + 1]
  <2>1. n < SIZE_MAX /\ big' = Allocated(n)
    BY <1>0, <1>5
  <2>2. Len(primes) \in Nat /\ size_index < Len(primes)
    <3>1. Len(primes) \in Nat /\ Len(primes) > 0 /\ primes[Len(primes)] = SIZE_MAX
      BY <1>0 DEF TableTypeOK, Sizes
    <3>2. size_index > 0 => size_index <= Len(primes) /\ primes[size_index] < SIZE_MAX
      BY <1>0 DEF Sizes
    <3> QED
      BY <1>0, <3>1, <3>2, SizeAssumption DEF TableTypeOK
  <2>3. n \in Nat
    BY <1>0, <2>1, <2>2, NextSize
  <2>4. big' \in [0 .. n - 1 -> Entry] /\ Occupied(big') = {} /\ InPlace(big', n)
    BY <2>1, <2>3, AllocatedEmpty
  <2>5. Moving'
    <3>1. Content(big', DOMAIN big') = {} /\ Content(entries', 0 .. i' - 1) = {}
      BY <1>0, <2>4 DEF Content
    <3>2. Cardinality(Occupied(big')) <= i' /\ i' <= size'
      BY <1>0, <2>4, FS_EmptySet DEF TableTypeOK
    <3> QED
      BY <1>0, <2>1, <2>2, <2>4, <3>1, <3>2 DEF Moving
  <2>6. BothInPlace'
    BY <1>0, <2>4 DEF BothInPlace
  <2>7. Room'
    BY <1>0, <1>5 DEF Room, SizeBefore
  <2> QED
    BY <1>1, <1>2, <1>3, <2>5, <2>6, <2>7 DEF TableInv
<1> QED
  BY <1>0, <1>4, <1>5

(* A turn of the loop that moves the entries keeps the invariant. *)
LEMMA MoveStep ==
    ASSUME TableInv, Move
    PROVE  TableInv'
<1> DEFINE n == primes[size_index + 1]
<1>0. /\ TableTypeOK /\ Doubles /\ Sizes /\ Room /\ Moving /\ BothInPlace /\ HoldsMap
      /\ table_pc = "move" /\ table_pc' = "move" /\ made
      /\ i < size /\ i' = i + 1
      /\ UNCHANGED <<primes, made, size, size_index, count, entries, key, value, map>>
  BY DEF TableInv, Move, table, Sizes
<1>1. TableTypeOK'
  BY <1>0 DEF TableTypeOK
<1>2. Doubles' /\ Sizes' /\ HoldsMap' /\ Room'
  BY <1>0 DEF Doubles, Sizes, HoldsMap, Room, SizeBefore
<1>3. /\ size_index < Len(primes) /\ n < SIZE_MAX /\ big \in [0 .. n - 1 -> Entry]
      /\ i \in Nat /\ size \in Nat /\ Cardinality(Occupied(big)) <= i
      /\ Content(big, DOMAIN big) = Content(entries, 0 .. i - 1)
      /\ InPlace(big, n) /\ InPlace(entries, size)
  BY <1>0 DEF Moving, TableTypeOK, BothInPlace
<1>4. n \in Nat \ {0}
  BY <1>0, <1>3, NextSize
<1>5. i \in 0 .. size - 1 /\ entries[i] \in Entry /\ DOMAIN entries = 0 .. size - 1
      /\ entries \in [0 .. size - 1 -> Entry] /\ size \in Nat \ {0}
  BY <1>0, <1>3 DEF TableTypeOK
<1>6. 0 .. i' - 1 = (0 .. i - 1) \cup {i}
  BY <1>0, <1>3
<1> HIDE DEF n
<1>7. CASE entries[i].key = NULL
  <2>1. big' = big
    BY <1>7 DEF Move
  <2>2. Content(entries', 0 .. i' - 1) = Content(entries, 0 .. i - 1)
    BY <1>0, <1>6, <1>7 DEF Content, Occupied
  <2>3. Cardinality(Occupied(big)) \in Nat
    BY <1>3, <1>4, OccupiedFinite
  <2>4. Moving'
    BY <1>0, <1>3, <2>1, <2>2, <2>3 DEF Moving, n
  <2>5. BothInPlace'
    BY <1>0, <1>3, <2>1 DEF BothInPlace, n
  <2> QED
    BY <1>1, <1>2, <2>4, <2>5 DEF TableInv
<1>8. CASE entries[i].key # NULL
  <2> DEFINE k == entries[i].key
             v == entries[i].value
  <2>1. PICK p \in 0 .. n - 1 : StopsAt(big, n, k, {NULL}, p) /\ big' = Filled(big, p, k, v)
    BY <1>3, <1>8 DEF Move, n
  <2>2. k \in Key /\ v \in Value \cup {NULL} /\ entries[i] = [key |-> k, value |-> v]
    BY <1>5, <1>8 DEF Entry
  <2>3. i \in Occupied(entries)
    BY <1>5, <1>8 DEF Occupied
  <2> HIDE DEF k, v
  <2>4. big[p].key = NULL
    BY <2>1 DEF StopsAt
  <2>5. ASSUME NEW q \in Occupied(big) PROVE big[q].key # k
    <3>1. big[q] \in Content(big, DOMAIN big)
      BY <2>5 DEF Content, Occupied
    <3>2. PICK r \in Occupied(entries) \cap 0 .. i - 1 : entries[r] = big[q]
      BY <1>3, <3>1 DEF Content
    <3>3. SUFFICES ASSUME big[q].key = k PROVE FALSE
      OBVIOUS
    <3>4. entries[r].key = entries[i].key
      BY <2>2, <3>2, <3>3
    <3>5. r = i
      BY <1>3, <1>5, <2>3, <3>2, <3>4, OnePlace
    <3> QED
      BY <1>3, <3>2, <3>5
  <2>6. EndsAt(big, n, k, p)
    BY <1>3, <1>4, <2>1, <2>2, <2>5, FreeForAbsent
  <2>7. big' \in [0 .. n - 1 -> Entry] /\ InPlace(big', n)
    BY <1>3, <1>4, <2>1, <2>2, <2>6, FillInPlace
  <2>8. /\ Occupied(big') = Occupied(big) \cup {p} /\ p \notin Occupied(big)
        /\ \A q \in Occupied(big) : big'[q] = big[q]
        /\ big'[p] = entries[i]
    <3>1. p \notin Occupied(big) /\ k # NULL
      BY <2>2, <2>4, KeyAssumption DEF Occupied
    <3>2. big[p].key \in {NULL, k} /\ k \in Key \cup {NULL}
      BY <2>2, <2>4
    <3>3. /\ Occupied(Filled(big, p, k, v)) = Occupied(big) \cup {p}
          /\ \A q \in Occupied(big) : q # p => Filled(big, p, k, v)[q] = big[q]
          /\ Filled(big, p, k, v)[p] = [key |-> k, value |-> v]
      <4>1. /\ n \in Nat \ {0} /\ big \in [0 .. n - 1 -> Entry] /\ p \in 0 .. n - 1
            /\ v \in Value \cup {NULL}
        BY <1>3, <1>4, <2>1, <2>2
      <4> QED
        BY <3>1, <3>2, <4>1, FillOccupied
    <3> QED
      BY <2>1, <2>2, <3>1, <3>3
  <2>9. Cardinality(Occupied(big')) <= i'
    <3>1. IsFiniteSet(Occupied(big)) /\ Cardinality(Occupied(big)) \in Nat
      BY <1>3, <1>4, OccupiedFinite
    <3>2. Cardinality(Occupied(big')) = Cardinality(Occupied(big)) + 1
      BY <2>8, <3>1, FS_AddElement
    <3> QED
      BY <1>0, <1>3, <3>1, <3>2
  <2>10. Content(big', DOMAIN big') = Content(entries', 0 .. i' - 1)
    <3>1. Content(big', DOMAIN big') = Content(big, DOMAIN big) \cup {entries[i]}
      BY <1>3, <2>7, <2>8 DEF Content, Occupied
    <3>2. Content(entries', 0 .. i' - 1) = Content(entries, 0 .. i - 1) \cup {entries[i]}
      BY <1>0, <1>6, <2>3 DEF Content
    <3> QED
      BY <1>3, <3>1, <3>2
  <2>11. Moving'
    BY <1>0, <1>3, <2>7, <2>9, <2>10 DEF Moving, n
  <2>12. BothInPlace'
    BY <1>0, <1>3, <2>7 DEF BothInPlace, n
  <2> QED
    BY <1>1, <1>2, <2>11, <2>12 DEF TableInv
<1> QED
  BY <1>7, <1>8

(* Putting the greater table in place keeps the invariant. *)
LEMMA InstallStep ==
    ASSUME TableInv, Install
    PROVE  TableInv'
<1> DEFINE n == primes[size_index + 1]
<1>0. /\ TableTypeOK /\ Doubles /\ Sizes /\ Moving /\ BothInPlace /\ HoldsMap
      /\ table_pc = "move" /\ table_pc' = "store" /\ made /\ i = size /\ i' = 0
      /\ size_index' = size_index + 1 /\ size' = n /\ count' = 0 /\ entries' = big
      /\ UNCHANGED <<primes, made, key, value, map>>
  BY DEF TableInv, Install, Sizes
<1>1. /\ size_index < Len(primes) /\ n < SIZE_MAX /\ big \in [0 .. n - 1 -> Entry]
      /\ size \in Nat /\ size_index \in Nat /\ Cardinality(Occupied(big)) <= size
      /\ Content(big, DOMAIN big) = Content(entries, 0 .. size - 1)
      /\ InPlace(big, n)
  BY <1>0 DEF Moving, TableTypeOK, BothInPlace
<1>2. n \in Nat /\ n >= 2 * size + 1 /\ n >= 5
  BY <1>0, <1>1, NextSize
<1>3. Len(primes) \in Nat
  BY <1>0 DEF TableTypeOK
<1>4. TableTypeOK'
  BY <1>0, <1>1, <1>2 DEF TableTypeOK
<1>5. Doubles'
  BY <1>0 DEF Doubles
<1>6. Sizes'
  BY <1>0, <1>1, <1>2, <1>3 DEF Sizes
<1>7. Room'
  <2>1. SizeBefore' = size
    BY <1>0, <1>1 DEF SizeBefore, Sizes
  <2>2. Cardinality(Occupied(entries')) <= count' + SizeBefore'
    BY <1>0, <1>1, <2>1
  <2>3. 0 < n \div 2
    BY <1>2
  <2> QED
    BY <1>0, <1>2, <2>2, <2>3 DEF Room
<1>8. Moving' /\ BothInPlace'
  BY <1>0, <1>1 DEF Moving, BothInPlace
<1>9. HoldsMap'
  <2> HIDE DEF n
  <2>1. ASSUME NEW e
        PROVE  (\E p \in Occupied(big) : big[p] = e) <=> (\E p \in Occupied(entries) : entries[p] = e)
    <3>1. Occupied(big) \cap DOMAIN big = Occupied(big)
      BY DEF Occupied
    <3>2. Occupied(entries) \cap 0 .. size - 1 = Occupied(entries)
      BY <1>0 DEF Occupied, TableTypeOK
    <3> QED
      BY <1>1, <3>1, <3>2 DEF Content
  <2>2. {big[p].key : p \in Occupied(big)} = {entries[p].key : p \in Occupied(entries)}
    BY <2>1
  <2>3. ASSUME NEW p \in Occupied(big) PROVE big[p].value = map[big[p].key]
    <3>1. PICK q \in Occupied(entries) : entries[q] = big[p]
      BY <2>1
    <3> QED
      BY <1>0, <3>1 DEF HoldsMap
  <2>4. entries' = big /\ map' = map
    BY <1>0
  <2>5. {entries[p].key : p \in Occupied(entries)} = DOMAIN map
    BY <1>0 DEF HoldsMap
  <2>6. /\ {entries'[p].key : p \in Occupied(entries')} = DOMAIN map'
        /\ \A p \in Occupied(entries') : entries'[p].value = map'[entries'[p].key]
    BY <2>2, <2>3, <2>4, <2>5
  <2> QED
    BY <2>6 DEF HoldsMap
<1> QED
  BY <1>4, <1>5, <1>6, <1>7, <1>8, <1>9 DEF TableInv

(* Writing the entry where the search ends keeps the invariant. *)
LEMMA StoreStep ==
    ASSUME TableInv, Store
    PROVE  TableInv'
<1>0. /\ TableTypeOK /\ Doubles /\ Sizes /\ Room /\ BothInPlace /\ HoldsMap
      /\ table_pc = "store" /\ table_pc' = "idle" /\ key' = NULL /\ value' = NULL
      /\ UNCHANGED <<primes, made, size, size_index, big, i>>
      /\ map' = IF key = NULL THEN map
                ELSE [k \in DOMAIN map \cup {key} |-> IF k = key THEN value ELSE map[k]]
  BY DEF TableInv, Store
<1>1. PICK p \in DOMAIN entries :
         /\ EndsAt(entries, size, key, p)
         /\ entries' = Filled(entries, p, key, value)
         /\ count' = IF entries[p].key = NULL THEN count + 1 ELSE count
  BY DEF Store
<1>2. /\ size \in Nat \ {0} /\ entries \in [0 .. size - 1 -> Entry] /\ p \in 0 .. size - 1
      /\ key \in Key \cup {NULL} /\ value \in Value \cup {NULL} /\ count \in Nat
      /\ InPlace(entries, size) /\ count < size \div 2
  BY <1>0 DEF TableTypeOK, Room, BothInPlace
<1>3. entries[p].key \in {NULL, key}
  BY <1>1 DEF EndsAt, StopsAt
<1>4. entries' \in [0 .. size - 1 -> Entry] /\ InPlace(entries', size)
  BY <1>1, <1>2, FillInPlace
<1>5. /\ key # NULL => Occupied(entries') = Occupied(entries) \cup {p}
      /\ key = NULL => Occupied(entries') = Occupied(entries) /\ p \notin Occupied(entries)
      /\ \A q \in Occupied(entries) : q # p => entries'[q] = entries[q]
      /\ entries'[p] = [key |-> key, value |-> value]
  <2> DEFINE f == Filled(entries, p, key, value)
  <2>1. /\ key # NULL => Occupied(f) = Occupied(entries) \cup {p}
        /\ key = NULL => Occupied(f) = Occupied(entries) /\ p \notin Occupied(entries)
        /\ \A q \in Occupied(entries) : q # p => f[q] = entries[q]
        /\ f[p] = [key |-> key, value |-> value]
    <3>1. /\ size \in Nat \ {0} /\ entries \in [0 .. size - 1 -> Entry] /\ p \in 0 .. size - 1
          /\ key \in Key \cup {NULL} /\ value \in Value \cup {NULL}
      BY <1>2
    <3> QED
      BY <1>3, <3>1, FillOccupied, SMTT(30)
  <2> HIDE DEF f
  <2>2. entries' = f
    BY <1>1 DEF f
  <2> QED
    BY <2>1, <2>2
<1>6. TableTypeOK'
  BY <1>0, <1>1, <1>2, <1>4 DEF TableTypeOK
<1>7. Doubles' /\ Sizes'
  BY <1>0 DEF Doubles, Sizes
<1>8. Room'
  <2>1. IsFiniteSet(Occupied(entries)) /\ Cardinality(Occupied(entries)) \in Nat
    BY <1>2, OccupiedFinite
  <2>2. Cardinality(Occupied(entries)) <= count + SizeBefore /\ SizeBefore' = SizeBefore
    BY <1>0 DEF Room, SizeBefore
  <2>3. SizeBefore \in Nat
    BY <1>0, <1>2, SizeBeforeSmall
  <2>4. Cardinality(Occupied(entries')) <= count' + SizeBefore
    <3>1. CASE key = NULL
      BY <1>1, <1>2, <1>5, <2>1, <2>2, <2>3, <3>1
    <3>2. CASE key # NULL /\ entries[p].key = NULL
      <4>1. Cardinality(Occupied(entries')) = Cardinality(Occupied(entries)) + 1
        <5>1. Occupied(entries') = Occupied(entries) \cup {p} /\ p \notin Occupied(entries)
          BY <1>5, <3>2 DEF Occupied
        <5> QED
          BY <2>1, <5>1, FS_AddElement
      <4> QED
        BY <1>1, <1>2, <2>1, <2>2, <2>3, <3>2, <4>1
    <3>3. CASE key # NULL /\ entries[p].key # NULL
      <4>1. Occupied(entries') = Occupied(entries)
        BY <1>2, <1>5, <3>3 DEF Occupied
      <4> QED
        BY <1>1, <2>2, <3>3, <4>1
    <3> QED
      BY <3>1, <3>2, <3>3
  <2>5. count' <= size \div 2
    BY <1>1, <1>2
  <2> QED
    BY <1>0, <2>2, <2>4, <2>5 DEF Room
<1>9. Moving' /\ BothInPlace'
  BY <1>0, <1>4 DEF Moving, BothInPlace
<1>10. HoldsMap'
  <2>1. CASE key = NULL
    <3>1. map' = map /\ Occupied(entries') = Occupied(entries)
      BY <1>0, <1>5, <2>1
    <3>2. \A q \in Occupied(entries) : entries'[q] = entries[q]
      BY <1>5, <2>1
    <3> QED
      BY <1>0, <3>1, <3>2 DEF HoldsMap
  <2>2. CASE key # NULL
    <3>1. /\ map' = [k \in DOMAIN map \cup {key} |-> IF k = key THEN value ELSE map[k]]
          /\ Occupied(entries') = Occupied(entries) \cup {p}
          /\ entries'[p].key = key /\ entries'[p].value = value
      BY <1>0, <1>5, <2>2
    <3>2. ASSUME NEW q \in Occupied(entries), q # p
          PROVE  entries'[q] = entries[q] /\ entries[q].key # key /\ entries[q].key \in DOMAIN map
      <4>1. q \in 0 .. size - 1 /\ EndsAt(entries, size, entries[q].key, q)
        BY <1>2, <3>2 DEF InPlace, Occupied
      <4>2. entries[q].key # key
        BY <1>1, <1>2, <3>2, <4>1, OneEnd DEF EndsAt
      <4> QED
        BY <1>0, <1>5, <3>2, <4>2 DEF HoldsMap
    <3>3. {entries'[q].key : q \in Occupied(entries')} = DOMAIN map'
      <4>1. ASSUME NEW k \in DOMAIN map PROVE \E q \in Occupied(entries') : entries'[q].key = k
        <5>1. PICK q \in Occupied(entries) : entries[q].key = k
          BY <1>0 DEF HoldsMap
        <5>2. CASE q = p
          <6>1. k = key
            BY <1>3, <5>1, <5>2 DEF Occupied
          <6> QED
            BY <3>1, <6>1
        <5>3. CASE q # p
          BY <3>1, <3>2, <5>1, <5>3
        <5> QED
          BY <5>2, <5>3
      <4>2. ASSUME NEW q \in Occupied(entries') PROVE entries'[q].key \in DOMAIN map \cup {key}
        BY <3>1, <3>2
      <4>3. DOMAIN map' = DOMAIN map \cup {key}
        BY <3>1
      <4> QED
        BY <3>1, <4>1, <4>2, <4>3
    <3>4. ASSUME NEW q \in Occupied(entries') PROVE entries'[q].value = map'[entries'[q].key]
      <4>1. CASE q = p
        BY <3>1, <4>1
      <4>2. CASE q # p
        <5>1. q \in Occupied(entries)
          BY <3>1, <4>2
        <5>2. entries[q].value = map[entries[q].key]
          BY <1>0, <5>1 DEF HoldsMap
        <5> QED
          BY <3>1, <3>2, <4>2, <5>1, <5>2
      <4> QED
        BY <4>1, <4>2
    <3> QED
      BY <3>3, <3>4 DEF HoldsMap
  <2> QED
    BY <2>1, <2>2
<1> QED
  BY <1>6, <1>7, <1>8, <1>9, <1>10 DEF TableInv

(* Clearing the table keeps the invariant. *)
LEMMA ClearStep ==
    ASSUME TableInv, Clear
    PROVE  TableInv'
<1>0. /\ TableTypeOK /\ Doubles /\ Sizes /\ table_pc = "idle"
      /\ size' = 0 /\ size_index' = 0 /\ count' = 0 /\ entries' = Allocated(0)
      /\ map' = [k \in {} |-> NULL]
      /\ UNCHANGED <<primes, made, big, i, table_pc, key, value>>
  BY DEF TableInv, Clear
<1>1. entries' \in [0 .. size' - 1 -> Entry] /\ Occupied(entries') = {} /\ InPlace(entries', size')
  BY <1>0, AllocatedEmpty
<1>2. TableTypeOK' /\ Doubles' /\ Sizes'
  BY <1>0, <1>1 DEF TableTypeOK, Doubles, Sizes
<1>3. Room'
  BY <1>0, <1>1, FS_EmptySet DEF Room, SizeBefore
<1>4. Moving' /\ BothInPlace'
  BY <1>0, <1>1 DEF Moving, BothInPlace
<1>5. HoldsMap'
  BY <1>0, <1>1 DEF HoldsMap
<1> QED
  BY <1>2, <1>3, <1>4, <1>5 DEF TableInv

(* Every step keeps the inductive invariant. *)
LEMMA TableNextInv == TableInv /\ [TableNext]_table_vars => TableInv'
<1> SUFFICES ASSUME TableInv, [TableNext]_table_vars PROVE TableInv'
    OBVIOUS
<1>1. CASE \E k \in Key \cup {NULL}, v \in Value \cup {NULL} : HashSet(k, v)
  BY <1>1, SetStep
<1>2. CASE FirstPrime \/ NextPrime \/ AddTwo \/ LastPrime
  BY <1>2, PrimesStep
<1>3. CASE Allocate
  BY <1>3, AllocateStep
<1>4. CASE Move
  BY <1>4, MoveStep
<1>5. CASE Install
  BY <1>5, InstallStep
<1>6. CASE Store
  BY <1>6, StoreStep
<1>7. CASE Clear
  BY <1>7, ClearStep
<1>8. CASE UNCHANGED table_vars
  BY <1>8 DEF table_vars, table, TableInv, TableTypeOK, Doubles, Sizes, Room, SizeBefore, Moving, BothInPlace, HoldsMap
<1> QED
  BY <1>1, <1>2, <1>3, <1>4, <1>5, <1>6, <1>7, <1>8 DEF TableNext
-----------------------------------------------------------------------------
\* Types, sizes, room and places are as the invariant says, in every state.
THEOREM TableInvariant ==
    ASSUME KeyAssumption, HashAssumption, SizeAssumption
    PROVE  TableSpec => []TableInv
<1>1. TableInit => TableInv
  BY TableInitInv
<1>2. TableInv /\ [TableNext]_table_vars => TableInv'
  BY TableNextInv
<1> QED
  BY <1>1, <1>2, PTL DEF TableSpec

(* Every search in a table and every loop that fills one ends (common/hashtable.c),
   for any keys, any hash and any width of size_t, although bugle_hashptr_set
   starts to count again at every growth. *)
THEOREM TableProbesEnd ==
    ASSUME KeyAssumption, HashAssumption, SizeAssumption
    PROVE  TableSpec => []ProbesEnd
<1>1. TableInv => ProbesEnd
  BY InvProbesEnd
<1> QED
  BY <1>1, TableInvariant, PTL

(* The table is the map of what was set: bugle_hashptr_get, bugle_hashptr_count and
   the iteration find that and nothing else. *)
THEOREM TableFindsWhatWasSet ==
    ASSUME KeyAssumption, HashAssumption, SizeAssumption
    PROVE  TableSpec => []FindsWhatWasSet
<1>1. TableInv => FindsWhatWasSet
  BY InvFinds
<1> QED
  BY <1>1, TableInvariant, PTL

-----------------------------------------------------------------------------
(* The product: what is proved of each of the three machines holds of the one that
   has them all (MCObjects checks that one). *)
THEOREM ObjectsParts == ObjectsSpec => Spec /\ S!Spec /\ TableSpec
<1>1. ObjectsInit => Init /\ S!Init /\ TableInit
  BY DEF ObjectsInit
<1>2. [ObjectsNext]_<<part, vars, shaders, table_vars>> => [Next]_vars /\ [S!Next]_(S!vars) /\ [TableNext]_table_vars
  <2>1. UNCHANGED shaders => UNCHANGED S!vars
    BY DEF shaders, S!vars, S!gl, S!history
  <2> QED
    BY <2>1 DEF ObjectsNext
<1> QED
  BY <1>1, <1>2, PTL DEF ObjectsSpec, Spec, S!Spec, TableSpec
=============================================================================
