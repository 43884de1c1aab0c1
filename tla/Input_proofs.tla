---------------------------- MODULE Input_proofs ----------------------------
(* Proofs about Input, for any keys, windows, handlers and masks and however much the
   user, the server and the other thread do: a press and its release go to the same
   side (PressesPaired), and what was announced is there (PendingHonest). *)
EXTENDS Input, FiniteSetTheorems, TLAPS

-----------------------------------------------------------------------------
(* Events and queues. *)

\* Among the events only those of keys have keys.
LEMMA EventFacts ==
    ASSUME NEW e \in Event \cup {NoEvent}
    PROVE  /\ e.type \in Type \cup {"none"} /\ (e # NoEvent <=> e.type # "none") /\ (e # NoEvent => e \in Event)
           /\ IsKey(e) => e.key \in Key /\ e.state \in States /\ e.window = Focus
           /\ e.type \in {"motion", "other"} => e.window \in Window
           /\ e.type = "motion" => e.place \in Places
           /\ \A k : Of(e, "press", k) \/ Of(e, "release", k) <=> IsKey(e) /\ e.key = k
BY DEF Event, NoEvent, IsKey, Type, Of

\* Nothing is of any key.
LEMMA NothingOf == /\ ~IsKey(NoEvent) /\ NoEvent.type = "none"
                   /\ \A k : ~Of(NoEvent, "press", k) /\ ~Of(NoEvent, "release", k)
BY DEF NoEvent, Of, IsKey

\* The events that the environment makes.
LEMMA MadeFacts ==
    /\ \A t \in {"press", "release"}, k \in Key, s \in States :
           LET e == KeyEvent(t, k, s) IN
           /\ e \in Event /\ e.type = t /\ e.key = k /\ e.state = s
           /\ \A m : m # k => ~Of(e, "press", m) /\ ~Of(e, "release", m)
    /\ \A w \in Window, p \in Places :
           LET e == Motion([window |-> w, place |-> p]) IN
           e \in Event /\ e.type = "motion" /\ \A k : ~Of(e, "press", k) /\ ~Of(e, "release", k)
    /\ \A w \in Window :
           LET e == Expose(w) IN
           e \in Event /\ e.type = "other" /\ \A k : ~Of(e, "press", k) /\ ~Of(e, "release", k)
BY FocusAssumption DEF KeyEvent, Motion, Expose, Event, Of

\* The queue without its place i.
LEMMA RemoveFacts ==
    ASSUME NEW q \in Seq(Event), NEW i \in 1..Len(q)
    PROVE  /\ RemoveAt(q, i) \in Seq(Event) /\ Len(RemoveAt(q, i)) = Len(q) - 1
           /\ \A j \in 1..(Len(q) - 1) : RemoveAt(q, i)[j] = IF j < i THEN q[j] ELSE q[j + 1]
<1> DEFINE a == SubSeq(q, 1, i - 1)
           b == SubSeq(q, i + 1, Len(q))
<1>1. a \in Seq(Event) /\ Len(a) = i - 1 /\ \A j \in 1..(i - 1) : a[j] = q[j]
  OBVIOUS
<1>2. b \in Seq(Event) /\ Len(b) = Len(q) - i /\ \A j \in 1..(Len(q) - i) : b[j] = q[i + j]
  OBVIOUS
<1>3. RemoveAt(q, i) = a \o b
  BY DEF RemoveAt
<1> HIDE DEF a, b
<1>4. Len(q) \in Nat /\ Len(a \o b) = Len(q) - 1 /\ a \o b \in Seq(Event)
  <2>1. a \o b \in Seq(Event) /\ Len(a \o b) = Len(a) + Len(b)
    <3>1. a \in Seq(Event) /\ b \in Seq(Event)
      BY <1>1, <1>2
    <3>2. a \o b \in Seq(Event)
      BY <3>1
    <3> QED
      BY <3>1, <3>2
  <2>2. Len(q) \in Nat /\ i \in Nat
    OBVIOUS
  <2>3. Len(a) + Len(b) = Len(q) - 1
    BY <1>1, <1>2, <2>2
  <2> QED
    BY <2>1, <2>2, <2>3
<1>5. \A j \in 1..(Len(q) - 1) : (a \o b)[j] = IF j < i THEN a[j] ELSE b[j - i + 1]
  BY <1>1, <1>2, <1>4
<1>6. \A j \in 1..(Len(q) - 1) : IF j < i THEN a[j] = q[j] ELSE b[j - i + 1] = q[j + 1]
  <2> SUFFICES ASSUME NEW j \in 1..(Len(q) - 1) PROVE IF j < i THEN a[j] = q[j] ELSE b[j - i + 1] = q[j + 1]
    OBVIOUS
  <2>1. CASE j < i
    BY <1>1, <2>1
  <2>2. CASE ~(j < i)
    <3>1. j - i + 1 \in 1..(Len(q) - i) /\ i + (j - i + 1) = j + 1
      BY <1>4, <2>2
    <3> QED
      BY <1>2, <2>2, <3>1
  <2> QED
    BY <2>1, <2>2
<1> QED
  BY <1>3, <1>4, <1>5, <1>6

\* A set of numbers that is not empty has a least one.
LEMMA LeastPlace == ASSUME NEW S \in SUBSET Nat, S # {} PROVE Min(S) \in S /\ \A m \in S : Min(S) <= m
<1>1. PICK R : IsWellFoundedOn(R, Nat) /\ \A m, n \in Nat : m < n => <<m, n>> \in R
  <2>1. \A m, n \in Nat : m < n => <<m, n>> \in OpToRel(<, Nat)
    BY Zenon DEF OpToRel
  <2> QED
    BY <2>1, NatLessThanWellFounded, Zenon
<1>2. \E n \in S : \A m \in S : ~(<<m, n>> \in R)
  <2>1. S \subseteq Nat /\ IsWellFoundedOn(R, Nat)
    BY <1>1
  <2> QED
    BY <2>1, WFMin, Zenon
<1>3. PICK n \in S : \A m \in S : ~(<<m, n>> \in R)
  BY <1>2
<1>4. \A m \in S : ~(m < n)
  BY <1>1, <1>3
<1>5. \A m \in S : n <= m
  BY <1>4
<1> QED
  BY <1>5 DEF Min
-----------------------------------------------------------------------------
(* What holds of a steady key of which nothing was handed over, with everything it depends on. *)
KeyOk(k, q, h, n, g, has, seen, u, on, left) ==
    /\ Ordered(k, q, h, g, has, u)
    /\ Paired(k, q, h, n, u, on)
    /\ Settled(k, q, h, seen, u, on)
    /\ k \in left => LetGo(k, q, h, n, u, on)

\* Nothing happens to the key: what is new on the queue, in hand and got is not its own.
LEMMA Carry ==
    ASSUME NEW k, NEW q \in Seq(Event), NEW q2, NEW h, NEW h2, NEW n, NEW n2, NEW g, NEW g2, NEW has, NEW has2,
           NEW seen, NEW seen2, NEW u, NEW u2, NEW on, NEW left, NEW left2,
           KeyOk(k, q, h, n, g, has, seen, u, on, left),
           \/ q2 = q
           \/ \E e : q2 = Append(q, e) /\ ~Of(e, "press", k) /\ ~Of(e, "release", k),
           \/ h2 = h /\ n2 = n
           \/ /\ ~Of(h, "press", k) /\ ~Of(h, "release", k)
              /\ ~Of(h2, "press", k) /\ ~Of(h2, "release", k),
           (g2 = g /\ has2 = has) \/ ~Of(g2, "release", k),
           k \in seen => k \in seen2,
           k \in u2.down <=> k \in u.down, k \in u.down => u2.state = u.state,
           k \in left2 => k \in left
    PROVE  KeyOk(k, q2, h2, n2, g2, has2, seen2, u2, on, left2)
<1>1. /\ Len(q) \in Nat /\ Len(q2) \in Nat /\ Len(q) <= Len(q2)
      /\ \A j \in 1..Len(q) : q2[j] = q[j]
      /\ \A j \in 1..Len(q2) : j \notin 1..Len(q) => ~Of(q2[j], "press", k) /\ ~Of(q2[j], "release", k)
  <2>1. CASE q2 = q
    BY <2>1
  <2>2. ASSUME NEW e, q2 = Append(q, e), ~Of(e, "press", k), ~Of(e, "release", k)
        PROVE  /\ Len(q) \in Nat /\ Len(q2) \in Nat /\ Len(q) <= Len(q2)
               /\ \A j \in 1..Len(q) : q2[j] = q[j]
               /\ \A j \in 1..Len(q2) : j \notin 1..Len(q) => ~Of(q2[j], "press", k) /\ ~Of(q2[j], "release", k)
    BY <2>2
  <2> QED
    BY <2>1, <2>2
<1>2. /\ \A j \in 1..Len(q2) : Of(q2[j], "press", k) \/ Of(q2[j], "release", k) => j \in 1..Len(q) /\ q2[j] = q[j]
      /\ \A j \in 1..Len(q) : j \in 1..Len(q2) /\ q2[j] = q[j]
  BY <1>1
<1>3. /\ Holds(q2, "press", k) <=> Holds(q, "press", k)
      /\ Holds(q2, "release", k) <=> Holds(q, "release", k)
  BY <1>2 DEF Holds
<1>4. /\ Of(h2, "press", k) <=> Of(h, "press", k)
      /\ Of(h2, "release", k) <=> Of(h, "release", k)
      /\ Of(h2, "press", k) \/ Of(h2, "release", k) => h2 = h /\ n2 = n
  OBVIOUS
<1>5. \A s : Alike(k, s, q, u) => Alike(k, s, q2, u2)
  BY <1>2 DEF Alike
<1>6. Ordered(k, q2, h2, g2, has2, u2)
  BY <1>2, <1>3, <1>4 DEF KeyOk, Ordered
<1>7. Paired(k, q2, h2, n2, u2, on)
  <2>1. IsKey(h2) /\ h2.key = k => Of(h2, "press", k) \/ Of(h2, "release", k)
    BY DEF IsKey, Of
  <2> QED
    BY <1>2, <1>4, <1>5, <2>1 DEF KeyOk, Paired
<1>8. Settled(k, q2, h2, seen2, u2, on)
  BY <1>2, <1>3, <1>4 DEF KeyOk, Settled
<1>9. k \in left2 => LetGo(k, q2, h2, n2, u2, on)
  BY <1>2, <1>4 DEF KeyOk, LetGo
<1> QED
  BY <1>6, <1>7, <1>8, <1>9 DEF KeyOk

\* The key is pressed, with nothing of it on its way.
LEMMA Pressed ==
    ASSUME NEW k, NEW q \in Seq(Event), NEW h, NEW n, NEW g, NEW has, NEW seen, NEW u, NEW u2, NEW on, NEW left,
           ~Holds(q, "press", k), ~Holds(q, "release", k), ~Of(h, "press", k), ~Of(h, "release", k),
           ~Of(g, "release", k), k \in u2.down, k \notin left,
           NEW e, Of(e, "press", k), e.state = u2.state
    PROVE  KeyOk(k, Append(q, e), h, n, g, has, seen, u2, on, left)
<1> DEFINE q2 == Append(q, e)
<1>1. /\ Len(q) \in Nat /\ Len(q2) = Len(q) + 1 /\ q2[Len(q2)] = e
      /\ \A j \in 1..Len(q) : q2[j] = q[j]
  OBVIOUS
<1> HIDE DEF q2
<1>2. ~Of(e, "release", k)
  BY DEF Of
<1>3. /\ \A j \in 1..Len(q2) : Of(q2[j], "press", k) => q2[j] = e
      /\ \A j \in 1..Len(q2) : ~Of(q2[j], "release", k)
      /\ Len(q2) \in 1..Len(q2)
  <2>1. \A j \in 1..Len(q2) : j \in 1..Len(q) \/ j = Len(q2)
    BY <1>1
  <2> QED
    BY <1>1, <1>2, <2>1 DEF Holds
<1>4. Holds(q2, "press", k) /\ ~Holds(q2, "release", k)
  BY <1>1, <1>3 DEF Holds
<1>5. Ordered(k, q2, h, g, has, u2)
  BY <1>3, <1>4 DEF Ordered
<1>6. Paired(k, q2, h, n, u2, on)
  <2>1. IsKey(h) => h.key # k
    BY DEF IsKey, Of
  <2> QED
    BY <1>3, <2>1 DEF Paired, Alike
<1>7. Settled(k, q2, h, seen, u2, on)
  BY <1>4 DEF Settled
<1> QED
  BY <1>5, <1>6, <1>7 DEF KeyOk, q2

\* The key is let go.
LEMMA LetUp ==
    ASSUME NEW k, NEW q \in Seq(Event), NEW h, NEW n, NEW g, NEW has, NEW seen, NEW u, NEW u2, NEW on, NEW left,
           KeyOk(k, q, h, n, g, has, seen, u, on, left),
           k \in u.down, k \notin u2.down,
           NEW e, Of(e, "release", k), e.state = u.state
    PROVE  KeyOk(k, Append(q, e), h, n, g, has, seen, u2, on, left)
<1> DEFINE q2 == Append(q, e)
<1>1. /\ Len(q) \in Nat /\ Len(q2) = Len(q) + 1 /\ q2[Len(q2)] = e
      /\ \A j \in 1..Len(q) : q2[j] = q[j]
  OBVIOUS
<1> HIDE DEF q2
<1>2. ~Of(e, "press", k)
  BY DEF Of
<1>3. ~Holds(q, "release", k) /\ ~Of(h, "release", k) /\ ~Of(g, "release", k)
  BY DEF KeyOk, Ordered
<1>4. /\ \A j \in 1..Len(q2) : j \in 1..Len(q) \/ j = Len(q2)
      /\ Len(q2) \in 1..Len(q2)
      /\ \A j \in 1..Len(q2) : Of(q2[j], "press", k) => j \in 1..Len(q) /\ q2[j] = q[j] /\ j < Len(q2)
      /\ \A j \in 1..Len(q2) : Of(q2[j], "release", k) => j = Len(q2) /\ q2[j] = e
  <2>1. \A j \in 1..Len(q2) : j \in 1..Len(q) \/ j = Len(q2)
    BY <1>1
  <2> QED
    BY <1>1, <1>2, <1>3, <2>1 DEF Holds
<1>5. Holds(q2, "press", k) <=> Holds(q, "press", k)
  BY <1>1, <1>4 DEF Holds
<1>6. Ordered(k, q2, h, g, has, u2)
  BY <1>3, <1>4 DEF Ordered
<1>7. \A s : Alike(k, s, q, u) => Alike(k, s, q2, u2)
  <2>1. \A s : Alike(k, s, q, u) => s = u.state
    BY <1>3 DEF Alike, Holds
  <2> QED
    BY <1>1, <1>4, <2>1 DEF Alike
<1>8. Paired(k, q2, h, n, u2, on)
  BY <1>4, <1>7 DEF KeyOk, Paired
<1>9. Settled(k, q2, h, seen, u2, on)
  BY <1>3, <1>4, <1>5 DEF KeyOk, Settled
<1>10. k \in left => LetGo(k, q2, h, n, u2, on)
  BY <1>1, <1>3, <1>4 DEF KeyOk, LetGo, Holds
<1> QED
  BY <1>6, <1>8, <1>9, <1>10 DEF KeyOk, q2

(* An event is taken off the queue into the hand: of a key's events the press comes
   first. *)
LEMMA TakenOff ==
    ASSUME NEW k, NEW q \in Seq(Event), NEW n, NEW i \in 1..Len(q), NEW g, NEW has, NEW seen, NEW u, NEW on, NEW left,
           KeyOk(k, q, NoEvent, 0, g, has, seen, u, on, left),
           Of(q[i], "release", k) => \A j \in 1..(i - 1) : ~Of(q[j], "press", k),
           n \in {0, 1}, n = 1 /\ IsKey(q[i]) /\ q[i].key = k => KeyWanted(on, k, q[i].state),
           ~Of(g, "release", k)
    PROVE  KeyOk(k, RemoveAt(q, i), q[i], n, g, has, seen, u, on, left)
<1> DEFINE p == RemoveAt(q, i)
           e == q[i]
           o(j) == IF j < i THEN j ELSE j + 1
<1>1. /\ Len(q) \in Nat /\ Len(p) = Len(q) - 1
      /\ \A j \in 1..Len(p) : p[j] = IF j < i THEN q[j] ELSE q[j + 1]
  <2>1. Len(q) \in Nat
    OBVIOUS
  <2> QED
    BY <2>1, RemoveFacts
<1>2. \A j \in 1..Len(p) : o(j) \in 1..Len(q) /\ o(j) # i /\ p[j] = q[o(j)]
  BY <1>1
<1>3. \A j, m \in 1..Len(p) : (o(j) < o(m) => j < m) /\ (o(j) = o(m) => j = m)
  BY <1>1
<1>4. \A j \in 1..Len(q) : j # i => \E m \in 1..Len(p) : o(m) = j /\ p[m] = q[j]
  <2> SUFFICES ASSUME NEW j \in 1..Len(q), j # i
               PROVE  \E m \in 1..Len(p) : o(m) = j /\ p[m] = q[j]
    OBVIOUS
  <2>1. CASE j < i
    <3>1. j \in 1..Len(p) /\ o(j) = j
      BY <1>1, <2>1
    <3> QED
      BY <1>2, <3>1
  <2>2. CASE ~(j < i)
    <3>1. j - 1 \in 1..Len(p) /\ o(j - 1) = j
      BY <1>1, <2>2
    <3> QED
      BY <1>2, <3>1
  <2> QED
    BY <2>1, <2>2
<1> HIDE DEF p, o, e
<1>5. \A t : Of(e, t, k) <=> Of(q[i], t, k)
  BY DEF e
<1>6. /\ \A j, m \in 1..Len(q) :
             Of(q[j], "release", k) => /\ Of(q[m], "press", k) => m < j
                                       /\ Of(q[m], "release", k) => m = j
      /\ k \in u.down => ~Holds(q, "release", k)
  BY DEF KeyOk, Ordered
<1>7. Of(e, "release", k) => ~Holds(p, "press", k) /\ ~Holds(p, "release", k)
  <2> SUFFICES ASSUME Of(e, "release", k), NEW j \in 1..Len(p), Of(p[j], "press", k) \/ Of(p[j], "release", k)
               PROVE  FALSE
    BY DEF Holds
  <2>1. o(j) \in 1..Len(q) /\ o(j) # i /\ p[j] = q[o(j)]
    BY <1>2
  <2>2. i \in 1..Len(q) /\ Of(q[i], "release", k)
    BY <1>5
  <2>3. Of(q[o(j)], "press", k) => o(j) < i
    BY <1>6, <2>1, <2>2
  <2>4. Of(q[o(j)], "release", k) => o(j) = i
    BY <1>6, <2>1, <2>2
  <2>5. Of(q[o(j)], "press", k)
    BY <2>1, <2>4
  <2>6. o(j) \in 1..(i - 1)
    BY <2>1, <2>3, <2>5
  <2> QED
    BY <2>2, <2>5, <2>6
<1>8. Ordered(k, p, e, g, has, u)
  <2>1. ASSUME NEW j \in 1..Len(p), NEW m \in 1..Len(p), Of(p[j], "release", k)
        PROVE  /\ Of(p[m], "press", k) => m < j
               /\ Of(p[m], "release", k) => m = j
    <3>1. /\ o(j) \in 1..Len(q) /\ o(m) \in 1..Len(q)
          /\ p[j] = q[o(j)] /\ p[m] = q[o(m)]
      BY <1>2
    <3>2. /\ Of(p[m], "press", k) => o(m) < o(j)
          /\ Of(p[m], "release", k) => o(m) = o(j)
      BY <1>6, <2>1, <3>1
    <3> QED
      BY <1>3, <3>2
  <2>2. k \in u.down => ~Holds(p, "release", k) /\ ~Of(e, "release", k)
    BY <1>2, <1>5, <1>6 DEF Holds
  <2> QED
    BY <1>7, <2>1, <2>2 DEF Ordered
<1>9. \A s : Alike(k, s, q, u) => Alike(k, s, p, u) \/ (Of(e, "release", k) /\ e.state = s)
  <2> SUFFICES ASSUME NEW s, Alike(k, s, q, u) PROVE Alike(k, s, p, u) \/ (Of(e, "release", k) /\ e.state = s)
    OBVIOUS
  <2>1. CASE k \in u.down /\ u.state = s
    BY <2>1 DEF Alike
  <2>2. ASSUME NEW j \in 1..Len(q), Of(q[j], "release", k), q[j].state = s
        PROVE  Alike(k, s, p, u) \/ (Of(e, "release", k) /\ e.state = s)
    BY <1>4, <2>2 DEF Alike, e
  <2> QED
    BY <2>1, <2>2 DEF Alike
<1>10. Paired(k, p, e, n, u, on)
  <2>1. ASSUME NEW j \in 1..Len(p), Of(p[j], "press", k) PROVE Alike(k, p[j].state, p, u)
    <3>1. Alike(k, p[j].state, q, u)
      BY <1>2, <2>1 DEF KeyOk, Paired
    <3>2. ~Of(e, "release", k)
      BY <1>7, <2>1 DEF Holds
    <3> QED
      BY <1>9, <3>1, <3>2
  <2>2. Of(e, "press", k) => Alike(k, e.state, p, u)
    <3>1. Of(e, "press", k) => Alike(k, e.state, q, u)
      BY DEF KeyOk, Paired, e
    <3>2. Of(e, "press", k) => ~Of(e, "release", k)
      BY DEF Of
    <3> QED
      BY <1>9, <3>1, <3>2
  <2>3. n > 0 /\ IsKey(e) /\ e.key = k => KeyWanted(on, k, e.state)
    BY DEF e
  <2> QED
    BY <2>1, <2>2, <2>3 DEF Paired
<1>11. Settled(k, p, e, seen, u, on)
  <2>1. ~Holds(p, "press", k) /\ ~Of(e, "press", k) => ~Holds(q, "press", k)
    BY <1>4, <1>5 DEF Holds
  <2>2. \A j \in 1..Len(p) : Of(p[j], "release", k) => o(j) \in 1..Len(q) /\ Of(q[o(j)], "release", k) /\ q[o(j)] = p[j]
    BY <1>2
  <2>3. Of(e, "release", k) => Of(q[i], "release", k) /\ e = q[i]
    BY DEF e
  <2> QED
    BY <2>1, <2>2, <2>3, NothingOf DEF KeyOk, Settled
<1>12. k \in left => LetGo(k, p, e, n, u, on)
  <2> SUFFICES ASSUME k \in left PROVE LetGo(k, p, e, n, u, on)
    OBVIOUS
  <2>1. \A s : Lets(on, k, s, 0) => Lets(on, k, s, n)
    BY HandlerAssumption DEF Lets
  <2>2. \/ k \in u.down /\ Lets(on, k, u.state, 0)
        \/ \E j \in 1..Len(q) : Of(q[j], "release", k) /\ Lets(on, k, q[j].state, 0)
    BY NothingOf DEF KeyOk, LetGo
  <2>3. ASSUME NEW j \in 1..Len(q), Of(q[j], "release", k), Lets(on, k, q[j].state, 0)
        PROVE  LetGo(k, p, e, n, u, on)
    <3>1. CASE j = i
      BY <2>1, <2>3, <3>1 DEF LetGo, e
    <3>2. CASE j # i
      BY <1>4, <2>3, <3>2 DEF LetGo
    <3> QED
      BY <3>1, <3>2
  <2> QED
    BY <2>2, <2>3 DEF LetGo
<1> QED
  BY <1>8, <1>10, <1>11, <1>12 DEF KeyOk, p, e

\* The event in hand has been through the handlers.
LEMMA PutDown ==
    ASSUME NEW k, NEW q \in Seq(Event), NEW h, NEW n, NEW g, NEW has, NEW seen, NEW u, NEW on, NEW left,
           KeyOk(k, q, h, n, g, has, seen, u, on, left), n > 0,
           k \in left /\ Of(h, "release", k) => ~Lets(on, k, h.state, n)
    PROVE  KeyOk(k, q, NoEvent, 0, g, has, seen, u, on, left)
<1>1. Ordered(k, q, NoEvent, g, has, u)
  BY NothingOf DEF KeyOk, Ordered
<1>2. Paired(k, q, NoEvent, 0, u, on)
  BY NothingOf DEF KeyOk, Paired
<1>3. Settled(k, q, NoEvent, seen, u, on)
  <2>1. ASSUME Of(h, "press", k)
        PROVE  /\ k \in u.down => KeyWanted(on, k, u.state)
               /\ \A j \in 1..Len(q) : Of(q[j], "release", k) => KeyWanted(on, k, q[j].state)
    <3>1. KeyWanted(on, k, h.state)
      BY <2>1 DEF KeyOk, Paired, Of, IsKey
    <3>2. Alike(k, h.state, q, u)
      BY <2>1 DEF KeyOk, Paired
    <3>3. \A i, j \in 1..Len(q) : Of(q[i], "release", k) /\ Of(q[j], "release", k) => j = i
      BY DEF KeyOk, Ordered
    <3>4. k \in u.down => ~Holds(q, "release", k)
      BY DEF KeyOk, Ordered
    <3> QED
      BY <3>1, <3>2, <3>3, <3>4 DEF Alike, Holds
  <2> QED
    BY <2>1, NothingOf DEF KeyOk, Settled
<1>4. k \in left => LetGo(k, q, NoEvent, 0, u, on)
  BY DEF KeyOk, LetGo
<1> QED
  BY <1>1, <1>2, <1>3, <1>4 DEF KeyOk

\* The application gets the event in hand: of a steady key, one that is not wanted.
LEMMA HandedOver ==
    ASSUME NEW k, NEW q \in Seq(Event), NEW h, NEW n, NEW has, NEW seen, NEW u, NEW on, NEW left,
           KeyOk(k, q, h, n, NoEvent, has, has, u, on, left),
           Of(h, "press", k) \/ Of(h, "release", k) => ~KeyWanted(on, k, h.state),
           Of(h, "press", k) => k \in seen,
           k \in has /\ ~Of(h, "release", k) => k \in seen
    PROVE  KeyOk(k, q, NoEvent, 0, h, has, seen, u, on, left)
<1>1. ~(Of(h, "press", k) /\ Of(h, "release", k))
  BY DEF Of
<1>2. \A s, m : Lets(on, k, s, m) => KeyWanted(on, k, s)
  BY DEF Lets, KeyWanted
<1>3. Of(h, "release", k) => k \in has
  BY <1>1 DEF KeyOk, Ordered, Settled
<1>4. Ordered(k, q, NoEvent, h, has, u)
  BY <1>3, NothingOf DEF KeyOk, Ordered
<1>5. Paired(k, q, NoEvent, 0, u, on)
  BY NothingOf DEF KeyOk, Paired
<1>6. Settled(k, q, NoEvent, seen, u, on)
  <2>1. CASE Of(h, "release", k)
    BY <2>1, <1>3, NothingOf DEF KeyOk, Ordered, Settled, Holds
  <2>2. CASE ~Of(h, "release", k)
    BY <2>2, NothingOf DEF KeyOk, Settled
  <2> QED
    BY <2>1, <2>2
<1>7. k \in left => LetGo(k, q, NoEvent, 0, u, on)
  BY <1>2 DEF KeyOk, LetGo
<1> QED
  BY <1>4, <1>5, <1>6, <1>7 DEF KeyOk

\* A handler has been called, which may have told the camera of a press or of a release.
LEMMA PassedOn ==
    ASSUME NEW k, NEW q \in Seq(Event), NEW h, NEW n \in Nat, NEW m \in Nat, NEW g, NEW has, NEW seen, NEW u, NEW on,
           NEW left, NEW left2,
           KeyOk(k, q, h, n, g, has, seen, u, on, left), n > 0,
           k \in left2 => \/ k \in left /\ (Of(h, "release", k) /\ Lets(on, k, h.state, n) => Lets(on, k, h.state, m))
                          \/ Of(h, "press", k) /\ Lets(on, k, h.state, 0)
    PROVE  KeyOk(k, q, h, m, g, has, seen, u, on, left2)
<1>1. Paired(k, q, h, m, u, on)
  BY DEF KeyOk, Paired
<1>2. Of(h, "press", k) /\ Lets(on, k, h.state, 0) => LetGo(k, q, h, m, u, on)
  BY DEF KeyOk, Paired, Alike, LetGo
<1>3. k \in left /\ (Of(h, "release", k) /\ Lets(on, k, h.state, n) => Lets(on, k, h.state, m))
          => LetGo(k, q, h, m, u, on)
  BY DEF KeyOk, LetGo
<1> QED
  BY <1>1, <1>2, <1>3 DEF KeyOk

\* A key's event in hand comes to the handlers: it is one that is wanted.
LEMMA TurnedTo ==
    ASSUME NEW k, NEW q, NEW h, NEW g, NEW has, NEW seen, NEW u, NEW on, NEW left,
           KeyOk(k, q, h, 0, g, has, seen, u, on, left),
           IsKey(h) /\ h.key = k => KeyWanted(on, k, h.state)
    PROVE  KeyOk(k, q, h, 1, g, has, seen, u, on, left)
<1>1. \A s : Lets(on, k, s, 0) => Lets(on, k, s, 1)
  BY DEF Lets
<1> QED
  BY <1>1 DEF KeyOk, Paired, LetGo
-----------------------------------------------------------------------------
(* What event_predicate says, with what it looks at, and the number of the events that
   are for the application. *)
ForHandlers(on, active, e) ==
    \/ active /\ e.type = "motion"
    \/ IsKey(e) /\ KeyWanted(on, e.key, e.state)
Meant(q, on, active) == {j \in 1..Len(q) : ~ForHandlers(on, active, q[j])}
Number(q, on, active) == Cardinality(Meant(q, on, active))

\* Wanted in these terms, before and after a step.
LEMMA WantedMeans ==
    /\ \A e : Wanted(e) <=> ForHandlers(camera.on, mouse.active, e)
    /\ \A e : Wanted(e)' <=> ForHandlers(camera.on, mouse.active, e)'
BY DEF Wanted, ForHandlers, Catches, Wants, KeyWanted

\* There are not more of them than events.
LEMMA NumberFacts ==
    ASSUME NEW q \in Seq(Event), NEW on, NEW active
    PROVE  /\ IsFiniteSet(Meant(q, on, active)) /\ Number(q, on, active) \in Nat
           /\ (\A j \in 1..Len(q) : ~ForHandlers(on, active, q[j])) => Number(q, on, active) = Len(q)
           /\ (\E j \in 1..Len(q) : ~ForHandlers(on, active, q[j])) => Number(q, on, active) > 0
<1> DEFINE M == Meant(q, on, active)
<1>1. Len(q) \in Nat
  OBVIOUS
<1>2. IsFiniteSet(1..Len(q)) /\ Cardinality(1..Len(q)) = Len(q)
  <2>1. 1 \in Int /\ Len(q) \in Int
    BY <1>1
  <2>2. IsFiniteSet(1..Len(q)) /\ Cardinality(1..Len(q)) = IF 1 > Len(q) THEN 0 ELSE Len(q) - 1 + 1
    BY <2>1, FS_Interval
  <2> QED
    BY <1>1, <2>2
<1>3. M \in SUBSET (1..Len(q))
  BY DEF Meant
<1>4. IsFiniteSet(M)
  BY <1>2, <1>3, FS_Subset
<1>5. Cardinality(M) \in Nat
  BY <1>4, FS_CardinalityType
<1>6. (\A j \in 1..Len(q) : ~ForHandlers(on, active, q[j])) => M = 1..Len(q)
  BY DEF Meant
<1>7. (\E j \in 1..Len(q) : ~ForHandlers(on, active, q[j])) => M # {}
  BY DEF Meant
<1>8. M # {} => Cardinality(M) # 0
  BY <1>4, FS_EmptySet
<1> QED
  BY <1>2, <1>4, <1>5, <1>6, <1>7, <1>8 DEF Number

\* An event that comes, if it is for the application, is one more.
LEMMA NumberAppend ==
    ASSUME NEW q \in Seq(Event), NEW e, NEW on, NEW active
    PROVE  Number(Append(q, e), on, active) =
               Number(q, on, active) + (IF ForHandlers(on, active, e) THEN 0 ELSE 1)
<1> DEFINE M == Meant(q, on, active)
           M2 == Meant(Append(q, e), on, active)
           n == Len(q) + 1
<1>1. /\ Len(q) \in Nat /\ Len(Append(q, e)) = n /\ Append(q, e)[n] = e
      /\ \A j \in 1..Len(q) : Append(q, e)[j] = q[j]
  OBVIOUS
<1>2. M2 = IF ForHandlers(on, active, e) THEN M ELSE M \cup {n}
  <2>1. \A j : j \in 1..n <=> j \in 1..Len(q) \/ j = n
    BY <1>1
  <2>2. n \notin 1..Len(q)
    BY <1>1
  <2> HIDE DEF n
  <2> QED
    BY <1>1, <2>1, <2>2 DEF Meant
<1>3. IsFiniteSet(M) /\ Cardinality(M) \in Nat
  BY NumberFacts DEF Number
<1>4. n \notin M
  BY <1>1 DEF Meant
<1>5. Cardinality(M \cup {n}) = Cardinality(M) + 1
  BY <1>3, <1>4, FS_AddElement
<1> QED
  BY <1>2, <1>3, <1>5 DEF Number

\* An event that is taken off, if it was for the application, is one less.
LEMMA NumberRemove ==
    ASSUME NEW q \in Seq(Event), NEW i \in 1..Len(q), NEW on, NEW active
    PROVE  Number(q, on, active) =
               Number(RemoveAt(q, i), on, active) + (IF ForHandlers(on, active, q[i]) THEN 0 ELSE 1)
<1> DEFINE p == RemoveAt(q, i)
           M == Meant(q, on, active)
           P == Meant(p, on, active)
           f == [j \in P |-> IF j < i THEN j ELSE j + 1]
<1>1. /\ Len(q) \in Nat /\ Len(p) = Len(q) - 1 /\ p \in Seq(Event)
      /\ \A j \in 1..Len(p) : p[j] = IF j < i THEN q[j] ELSE q[j + 1]
  <2>1. Len(q) \in Nat
    OBVIOUS
  <2> QED
    BY <2>1, RemoveFacts
<1> HIDE DEF p
<1>2. \A j \in P : f[j] \in M \ {i}
  BY <1>1 DEF Meant
<1>3. \A j, m \in P : f[j] = f[m] => j = m
  BY <1>1 DEF Meant
<1>4. \A m \in M \ {i} : \E j \in P : f[j] = m
  <2> SUFFICES ASSUME NEW m \in M \ {i} PROVE \E j \in P : f[j] = m
    OBVIOUS
  <2>1. CASE m < i
    <3>1. m \in 1..Len(p) /\ p[m] = q[m]
      BY <1>1, <2>1 DEF Meant
    <3>2. m \in P /\ f[m] = m
      BY <2>1, <3>1 DEF Meant
    <3> QED
      BY <3>2
  <2>2. CASE ~(m < i)
    <3>1. m - 1 \in 1..Len(p) /\ p[m - 1] = q[m] /\ ~(m - 1 < i)
      BY <1>1, <2>2 DEF Meant
    <3>2. m - 1 \in P /\ f[m - 1] = m
      BY <1>1, <3>1 DEF Meant
    <3> QED
      BY <3>2
  <2> QED
    BY <2>1, <2>2
<1>5. f \in Bijection(P, M \ {i})
  <2>1. f \in [P -> M \ {i}]
    BY <1>2
  <2>2. f \in Injection(P, M \ {i})
    BY <1>3, <2>1 DEF Injection, IsInjective
  <2>3. f \in Surjection(P, M \ {i})
    BY <1>4, <2>1 DEF Surjection
  <2> QED
    BY <2>2, <2>3 DEF Bijection
<1>6. IsFiniteSet(P) /\ Cardinality(P) \in Nat
  BY <1>1, NumberFacts DEF Number
<1>7. IsFiniteSet(M) /\ Cardinality(M) \in Nat
  BY NumberFacts DEF Number
<1>8. Cardinality(M \ {i}) = Cardinality(P)
  BY <1>5, <1>6, FS_Bijection DEF ExistsBijection
<1>9. Cardinality(M \ {i}) = IF i \in M THEN Cardinality(M) - 1 ELSE Cardinality(M)
  BY <1>7, FS_RemoveElement
<1>10. i \in M <=> ~ForHandlers(on, active, q[i])
  BY DEF Meant
<1> QED
  BY <1>6, <1>7, <1>8, <1>9, <1>10 DEF Number, p
-----------------------------------------------------------------------------
(* What a step of the application's call starts from. *)

\* The first wanted event in the queue, if any.
LEMMA FirstWantedFacts ==
    ASSUME queue \in Seq(Event)
    PROVE  /\ FirstWanted = 0 => \A j \in 1..Len(queue) : ~Wanted(queue[j])
           /\ FirstWanted # 0 => /\ FirstWanted \in 1..Len(queue)
                                 /\ Wanted(queue[FirstWanted]) /\ queue[FirstWanted] \in Event
                                 /\ \A j \in 1..(FirstWanted - 1) : ~Wanted(queue[j])
<1> DEFINE S == {j \in 1..Len(queue) : Wanted(queue[j])}
<1>1. FirstWanted = IF S # {} THEN Min(S) ELSE 0
  BY DEF FirstWanted, SelectInSeq
<1>2. S \in SUBSET Nat /\ Len(queue) \in Nat
  OBVIOUS
<1>3. S # {} => Min(S) \in S /\ \A m \in S : Min(S) <= m
  BY <1>2, LeastPlace
<1>4. S # {} => \A j \in 1..(Min(S) - 1) : ~Wanted(queue[j])
  BY <1>2, <1>3
<1> QED
  BY <1>1, <1>2, <1>3, <1>4

\* The first event in the queue that the real function takes, if any.
LEMMA FirstAcceptedFacts ==
    ASSUME queue \in Seq(Event), FirstAccepted # 0
    PROVE  /\ FirstAccepted \in 1..Len(queue)
           /\ Accepts(queue[FirstAccepted]) /\ queue[FirstAccepted] \in Event
           /\ \A j \in 1..(FirstAccepted - 1) : ~Accepts(queue[j])
<1> DEFINE S == {j \in 1..Len(queue) : Accepts(queue[j])}
<1>1. FirstAccepted = IF S # {} THEN Min(S) ELSE 0
  BY DEF FirstAccepted, SelectInSeq
<1>2. S \in SUBSET Nat /\ Len(queue) \in Nat
  OBVIOUS
<1>3. S # {} => Min(S) \in S /\ \A m \in S : Min(S) <= m
  BY <1>2, LeastPlace
<1>4. S # {} => \A j \in 1..(Min(S) - 1) : ~Accepts(queue[j])
  BY <1>2, <1>3
<1> QED
  BY <1>1, <1>2, <1>3, <1>4

\* The handler whose turn it is, if any matches.
LEMMA NextHandlerFacts ==
    ASSUME call.next \in Nat, call.next > 0
    PROVE  /\ NextHandler = 0 => \A i \in call.next..Len(Handlers) : ~Matches(Handlers[i], call.ev)
           /\ NextHandler # 0 => /\ NextHandler \in 1..Len(Handlers) /\ NextHandler >= call.next
                                 /\ Matches(Handlers[NextHandler], call.ev)
                                 /\ \A i \in call.next..(NextHandler - 1) : ~Matches(Handlers[i], call.ev)
<1> DEFINE n == Len(Handlers)
           S == {i \in call.next..n : Matches(Handlers[i], call.ev)}
<1>1. NextHandler = IF S # {} THEN Min(S) ELSE 0
  BY DEF NextHandler, SelectInSubSeq
<1>2. S \in SUBSET Nat /\ n \in Nat
  BY HandlerAssumption
<1>3. S # {} => Min(S) \in S /\ \A m \in S : Min(S) <= m
  BY <1>2, LeastPlace
<1> HIDE DEF n
<1>4. S # {} => \A i \in call.next..(Min(S) - 1) : ~Matches(Handlers[i], call.ev)
  BY <1>2, <1>3
<1>5. \A i \in call.next..n : i \in 1..n
  OBVIOUS
<1>6. NextHandler = 0 => S = {}
  BY <1>1, <1>3
<1>7. NextHandler # 0 => S # {} /\ NextHandler = Min(S)
  BY <1>1
<1>8. NextHandler # 0 => /\ NextHandler \in 1..n /\ NextHandler >= call.next
                        /\ Matches(Handlers[NextHandler], call.ev)
  BY <1>3, <1>5, <1>7
<1> QED
  BY <1>4, <1>6, <1>7, <1>8 DEF n

\* A call that is under way, with all its parts.
LEMMA CallFacts ==
    ASSUME TypeOK, ~At("idle")
    PROVE  /\ call \in Calls /\ call.at \in {"count", "extract", "wait", "took", "handle"}
           /\ call.class \in Blocking \cup {"count", "check"} /\ call.any \in BOOLEAN
           /\ call.ask \in [windows : SUBSET Window, types : SUBSET Type]
           /\ call.ev \in Event \cup {NoEvent} /\ call.back \in {"", "extract", "wait"} /\ call.next \in Nat
<1>1. call \in Calls
  BY DEF TypeOK, At, Idle
<1> QED
  BY <1>1 DEF Calls

\* What the parts of the state are.
LEMMA StateFacts ==
    ASSUME TypeOK
    PROVE  /\ camera.on \in BOOLEAN /\ camera.intercept \in BOOLEAN /\ camera.pressed \subseteq Key
           /\ mouse.active \in BOOLEAN /\ mouse.first \in BOOLEAN /\ mouse.window \in Window \cup {NoWindow}
           /\ user.down \subseteq Key /\ user.state \in States
           /\ user.pointer.window \in Window /\ user.pointer.place \in Places
           /\ user.pointer = [window |-> user.pointer.window, place |-> user.pointer.place]
           /\ queue \in Seq(Event) /\ Len(queue) \in Nat
BY DEF TypeOK

\* What the application comes to know is of keys.
LEMMA SeenType == ASSUME TypeOK PROVE Seen \subseteq Key
<1>1. got.type \in {"press", "release"} => got.key \in Key
  BY EventFacts DEF TypeOK, IsKey
<1> QED
  BY <1>1 DEF Seen, TypeOK

\* A new event goes to the end of the queue.
LEMMA AppendType == ASSUME NEW q \in Seq(Event), NEW e \in Event PROVE Append(q, e) \in Seq(Event)
OBVIOUS

\* Unless nothing new came.
LEMMA GrownType ==
    ASSUME NEW q \in Seq(Event), NEW q2, q2 = q \/ \E e \in Event : q2 = Append(q, e)
    PROVE  q2 \in Seq(Event)
BY AppendType
-----------------------------------------------------------------------------
(* Types. *)

\* The calls begin alike.
LEMMA AsksEnter ==
    ASSUME Asks
    PROVE  \E class \in Blocking \cup {"count", "check"}, w \in SUBSET Window, m \in SUBSET Type :
               /\ "press" \in m <=> "release" \in m
               /\ Enter(class, [windows |-> w, types |-> m])
<1> DEFINE Begins == \E class \in Blocking \cup {"count", "check"}, w \in SUBSET Window, m \in SUBSET Type :
               /\ "press" \in m <=> "release" \in m
               /\ Enter(class, [windows |-> w, types |-> m])
<1>1. \A m \in Masks : m \in SUBSET Type /\ ("press" \in m <=> "release" \in m)
  BY AskAssumption
<1>2. \A x \in Typed : {x} \in SUBSET Type /\ ("press" \in {x} <=> "release" \in {x})
  BY AskAssumption
<1>3. "press" \in Type /\ "release" \in Type
  BY DEF Type
<1>4. CASE XNextEvent \/ XPeekEvent \/ XPending \/ XEventsQueued
  BY <1>3, <1>4 DEF XNextEvent, XPeekEvent, XPending, XEventsQueued, Anything, Blocking
<1>5. CASE XIfEvent \/ XMaskEvent \/ XPeekIfEvent \/ XCheckIfEvent \/ XCheckMaskEvent
  BY <1>1, <1>5 DEF XIfEvent, XMaskEvent, XPeekIfEvent, XCheckIfEvent, XCheckMaskEvent, Blocking
<1>6. CASE XWindowEvent \/ XCheckWindowEvent
  BY <1>1, <1>6 DEF XWindowEvent, XCheckWindowEvent, Blocking
<1>7. CASE XCheckTypedEvent \/ XCheckTypedWindowEvent
  BY <1>2, <1>7 DEF XCheckTypedEvent, XCheckTypedWindowEvent
<1> QED
  BY <1>4, <1>5, <1>6, <1>7 DEF Asks

\* A warp leaves the pointer in a window and may put a motion on the queue.
LEMMA WarpFacts ==
    ASSUME TypeOK, NEW w \in Window, NEW q \in Seq(Event), Warp(w, q)
    PROVE  /\ user' \in [down : SUBSET Key, state : States, pointer : [window : Window, place : Places]]
           /\ user'.down = user.down /\ user'.state = user.state
           /\ queue' = q \/ \E e \in Event : queue' = Append(q, e) /\ e.type = "motion"
<1> DEFINE target == [window |-> w, place |-> "centre"]
<1>1. target \in [window : Window, place : Places]
  BY DEF Places
<1>2. user' = [user EXCEPT !.pointer = target]
  BY DEF Warp
<1>3. Motion(target) \in Event /\ Motion(target).type = "motion"
  BY MadeFacts DEF Places
<1>4. queue' = q \/ queue' = Append(q, Motion(target))
  BY DEF Warp
<1> HIDE DEF target
<1> QED
  BY <1>1, <1>2, <1>3, <1>4 DEF TypeOK

\* The camera is switched and the pointer grabbed or released.
LEMMA SwitchFacts ==
    ASSUME TypeOK, NEW on \in BOOLEAN, SwitchCamera(on)
    PROVE  /\ camera' \in [on : BOOLEAN, intercept : BOOLEAN, pressed : SUBSET Key]
           /\ camera'.on = on /\ camera'.pressed = camera.pressed
           /\ mouse' \in [active : BOOLEAN, first : BOOLEAN, window : Window \cup {NoWindow}]
           /\ ~mouse'.first => mouse'.window \in Window
           /\ promised' \in Nat /\ promised' \in {0, promised} /\ held' = held /\ stale' = stale
           /\ (on = camera.on /\ mouse'.active = mouse.active) \/ promised' = 0
           /\ steady' = IF on = camera.on THEN steady ELSE {}
           /\ handed' = handed
<1>1. camera' = [camera EXCEPT !.on = on] /\ mouse' = Switched(on) /\ Predicate(on, mouse'.active)
  BY DEF SwitchCamera
<1>2. mouse' \in {mouse, [mouse EXCEPT !.active = TRUE, !.first = TRUE], [mouse EXCEPT !.active = FALSE]}
  BY <1>1 DEF Switched, Grabbed, Released
<1>3. /\ mouse' \in [active : BOOLEAN, first : BOOLEAN, window : Window \cup {NoWindow}]
      /\ ~mouse'.first => mouse'.window \in Window
  BY <1>2 DEF TypeOK
<1>4. camera' \in [on : BOOLEAN, intercept : BOOLEAN, pressed : SUBSET Key]
      /\ camera'.on = on /\ camera'.pressed = camera.pressed
  BY <1>1 DEF TypeOK
<1> QED
  BY <1>1, <1>3, <1>4 DEF Predicate, TypeOK

\* What a callback does to the camera, the pointer and the queue.
LEMMA CallbackFacts ==
    ASSUME TypeOK, NEW w, NEW e, e.key \in Key, Callback(w, e)
    PROVE  /\ camera' \in [on : BOOLEAN, intercept : BOOLEAN, pressed : SUBSET Key]
           /\ mouse' \in [active : BOOLEAN, first : BOOLEAN, window : Window \cup {NoWindow}]
           /\ ~mouse'.first => mouse'.window \in Window
           /\ promised' \in Nat /\ promised' \in {0, promised} /\ held' = held
           /\ (camera'.on = camera.on /\ mouse'.active = mouse.active) \/ promised' = 0
           /\ steady' = IF camera'.on = camera.on THEN steady ELSE {}
           /\ handed' = handed
           /\ queue' = queue \/ \E x \in Event : queue' = Append(queue, x) /\ x.type = "other"
           /\ stale' \subseteq stale
           /\ \A k \in camera'.pressed \ stale' :
                  \/ k \in camera.pressed \ stale /\ (w.action = "move" => k # e.key)
                  \/ w.action = "move" /\ e.type = "press" /\ k = e.key
<1>1. CASE w.action = "toggle" /\ Toggle
  <2>1. SwitchCamera(~camera.on) /\ (~camera.on) \in BOOLEAN /\ UNCHANGED queue
    BY <1>1 DEF Toggle, TypeOK
  <2> QED
    BY <1>1, <2>1, SwitchFacts
<1>2. CASE w.action = "move" /\ Move(e.key, e.type = "press")
  <2>1. /\ camera' = [camera EXCEPT !.pressed = IF e.type = "press" THEN @ \cup {e.key} ELSE @ \ {e.key}]
        /\ stale' = stale \ {e.key}
        /\ mouse' = mouse /\ held' = held /\ steady' = steady /\ handed' = handed
        /\ promised' = promised
    BY <1>2 DEF Move
  <2>2. /\ camera' \in [on : BOOLEAN, intercept : BOOLEAN, pressed : SUBSET Key] /\ camera'.on = camera.on
        /\ camera'.pressed = IF e.type = "press" THEN camera.pressed \cup {e.key} ELSE camera.pressed \ {e.key}
    BY <2>1 DEF TypeOK
  <2>3. Expose(user.pointer.window) \in Event /\ Expose(user.pointer.window).type = "other"
    BY MadeFacts, StateFacts
  <2>4. queue' = queue \/ queue' = Append(queue, Expose(user.pointer.window))
    BY <1>2 DEF Move
  <2>5. queue' = queue \/ \E x \in Event : queue' = Append(queue, x) /\ x.type = "other"
    BY <2>3, <2>4
  <2> QED
    BY <1>2, <2>1, <2>2, <2>5 DEF TypeOK
<1>3. CASE w.action = "grab" /\ Grab
  <2>1. /\ camera' = [camera EXCEPT !.intercept = ~camera.intercept] /\ queue' = queue
        /\ mouse' \in {[mouse EXCEPT !.active = TRUE, !.first = TRUE], [mouse EXCEPT !.active = FALSE]}
        /\ Predicate(camera.on, mouse'.active)
    BY <1>3 DEF Grab, Grabbed, Released
  <2>2. camera' \in [on : BOOLEAN, intercept : BOOLEAN, pressed : SUBSET Key]
        /\ camera'.on = camera.on /\ camera'.pressed = camera.pressed
    BY <2>1 DEF TypeOK
  <2>3. /\ mouse' \in [active : BOOLEAN, first : BOOLEAN, window : Window \cup {NoWindow}]
        /\ ~mouse'.first => mouse'.window \in Window
    BY <2>1 DEF TypeOK
  <2> QED
    BY <1>3, <2>1, <2>2, <2>3 DEF Predicate, TypeOK
<1>4. CASE w.action = "flag" /\ UNCHANGED <<camera, mouse, queue, history>>
  BY <1>4 DEF history, TypeOK
<1> QED
  BY <1>1, <1>2, <1>3, <1>4 DEF Callback

\* A step keeps the types.
LEMMA TypeStep == TypeOK /\ CallInv /\ [Next]_vars => TypeOK'
<1> SUFFICES ASSUME TypeOK, CallInv, [Next]_vars PROVE TypeOK'
  OBVIOUS
<1> USE DEF TypeOK
<1>1. CASE Asks
  <2>1. PICK class \in Blocking \cup {"count", "check"}, w \in SUBSET Window, m \in SUBSET Type :
            Enter(class, [windows |-> w, types |-> m])
    BY <1>1, AsksEnter
  <2>2. call' \in Calls
    BY <2>1 DEF Enter, Calls, Blocking
  <2> QED
    BY <2>1, <2>2, SeenType DEF Enter
<1>2. CASE ExtractTake
  <2>1. call' \in Calls
    BY <1>2, CallFacts, FirstWantedFacts DEF ExtractTake, At, Calls
  <2>2. queue' \in Seq(Event)
    BY <1>2, FirstWantedFacts, RemoveFacts DEF ExtractTake
  <2> QED
    BY <1>2, <2>1, <2>2 DEF ExtractTake, history
<1>3. CASE ExtractDone
  <2>1. call \in Calls /\ call.next \in Nat
    BY <1>3, CallFacts DEF ExtractDone, At
  <2>2. call' \in {Idle} \cup Calls
    <3>1. \/ call' = Idle
          \/ call' = [call EXCEPT !.at = AfterExtract] /\ AfterExtract \in {"wait", "count"}
      BY <1>3 DEF ExtractDone, AfterExtract, Return
    <3>2. \A x \in {"wait", "count"} : [call EXCEPT !.at = x] \in Calls
      BY <2>1 DEF Calls
    <3> QED
      BY <3>1, <3>2
  <2> QED
    BY <1>3, <2>1, <2>2 DEF ExtractDone, Return
<1>4. CASE Count
  <2>1. call \in Calls /\ Len(queue) \in Nat
    BY <1>4, CallFacts, StateFacts DEF Count, At
  <2>2. call' \in {Idle} \cup Calls
    <3>1. call' = Idle \/ call' = [call EXCEPT !.at = "extract", !.any = FALSE, !.next = Len(queue)]
      BY <1>4 DEF Count, Return
    <3>2. [call EXCEPT !.at = "extract", !.any = FALSE, !.next = Len(queue)] \in Calls
      BY <2>1 DEF Calls
    <3> QED
      BY <3>1, <3>2
  <2> QED
    BY <1>4, <2>2 DEF Count, Return
<1>5. CASE RealTake
  <2>1. FirstAccepted \in 1..Len(queue) /\ queue[FirstAccepted] \in Event
    BY <1>5, FirstAcceptedFacts DEF RealTake
  <2>2. call' \in Calls
    BY <1>5, <2>1, CallFacts DEF RealTake, At, Calls
  <2>3. queue' \in Seq(Event)
    BY <1>5, <2>1, RemoveFacts DEF RealTake
  <2> QED
    BY <1>5, <2>2, <2>3 DEF RealTake, history
<1>6. CASE RealNone
  BY <1>6 DEF RealNone, Return, history
<1>7. CASE Deliver
  <2>1. call.ev \in Event \cup {NoEvent}
    BY <1>7, CallFacts DEF Deliver, At
  <2>2. IsKey(call.ev) => call.ev.key \in Key
    BY <2>1, EventFacts
  <2>3. handed' \subseteq Key
    BY <1>7, <2>2 DEF Deliver
  <2> QED
    BY <1>7, <2>1, <2>3 DEF Deliver, Return
<1>8. CASE Retry
  <2>1. call' \in Calls
    BY <1>8, CallFacts DEF Retry, At, Calls
  <2> QED
    BY <1>8, <2>1 DEF Retry, history
<1>9. CASE HandleMotion
  <2>1. call \in Calls /\ call.ev \in Event /\ call.back \in {"extract", "wait"}
    BY <1>9, CallFacts, EventFacts DEF HandleMotion, At, CallInv
  <2>2. call' \in Calls
    BY <1>9, <2>1 DEF HandleMotion, Calls
  <2>3. call.ev.window \in Window
    BY <1>9, <2>1, EventFacts DEF HandleMotion
  <2>4. Expose(user.pointer.window) \in Event
    BY MadeFacts
  <2>5. UNCHANGED <<camera, got, zero, moves, history>>
    BY <1>9 DEF HandleMotion
  <2>6. CASE ~mouse.active /\ UNCHANGED <<mouse, queue, user>>
    BY <2>2, <2>5, <2>6 DEF history
  <2>7. CASE queue' = Append(queue, Expose(user.pointer.window)) /\ UNCHANGED <<mouse, user>>
    BY <2>2, <2>4, <2>5, <2>7 DEF history
  <2>8. CASE mouse' = Anchored(call.ev.window) /\ Warp(call.ev.window, queue)
    <3>1. queue' \in Seq(Event)
      <4>1. queue' = queue \/ \E e \in Event : queue' = Append(queue, e)
        BY <2>3, <2>8, WarpFacts
      <4> QED
        BY <4>1, StateFacts, GrownType
    <3>2. /\ mouse' \in [active : BOOLEAN, first : BOOLEAN, window : Window \cup {NoWindow}]
          /\ ~mouse'.first => mouse'.window \in Window
      BY <2>3, <2>8 DEF Anchored
    <3> QED
      BY <2>2, <2>3, <2>5, <2>8, <3>1, <3>2, WarpFacts DEF history
  <2>9. CASE ~mouse.first /\ UNCHANGED mouse /\ Warp(mouse.window, Recentre(call.ev))
    <3>1. mouse.window \in Window
      BY <2>9
    <3>2. Recentre(call.ev) \in Seq(Event)
      BY <2>4 DEF Recentre
    <3>3. queue' \in Seq(Event)
      <4>1. PICK q \in Seq(Event) : q = Recentre(call.ev)
        BY <3>2
      <4>2. queue' = q \/ \E e \in Event : queue' = Append(q, e)
        BY <2>9, <3>1, <4>1, WarpFacts
      <4> QED
        BY <4>2, GrownType
    <3> QED
      BY <2>2, <2>5, <2>9, <3>1, <3>2, <3>3, WarpFacts DEF history
  <2>10. CASE UNCHANGED mouse /\ UNCHANGED <<queue, user>>
    BY <2>2, <2>5, <2>10 DEF history
  <2> QED
    BY <1>9, <2>6, <2>7, <2>8, <2>9, <2>10 DEF HandleMotion
<1>10. CASE HandleKey
  <2>1. call \in Calls /\ call.ev \in Event \cup {NoEvent} /\ call.next \in Nat /\ call.next > 0
    BY <1>10, CallFacts DEF HandleKey, At, CallInv
  <2>2. NextHandler \in Nat /\ call.ev.key \in Key
    BY <1>10, <2>1, NextHandlerFacts, EventFacts DEF HandleKey
  <2>3. call' \in Calls /\ UNCHANGED <<got, user, zero, moves>>
    <3>1. call' = [call EXCEPT !.next = NextHandler + 1] /\ UNCHANGED <<got, user, zero, moves>>
      BY <1>10 DEF HandleKey
    <3>2. NextHandler + 1 \in Nat
      BY <2>2
    <3> QED
      BY <2>1, <3>1, <3>2 DEF Calls
  <2>4. CASE Callback(Handlers[NextHandler], call.ev)
    <3>1. queue' = queue \/ \E x \in Event : queue' = Append(queue, x)
      BY <2>2, <2>4, CallbackFacts
    <3>2. /\ camera' \in [on : BOOLEAN, intercept : BOOLEAN, pressed : SUBSET Key]
          /\ mouse' \in [active : BOOLEAN, first : BOOLEAN, window : Window \cup {NoWindow}]
          /\ ~mouse'.first => mouse'.window \in Window
          /\ promised' \in Nat /\ held' = held /\ steady' \subseteq steady
          /\ handed' = handed /\ stale' \subseteq stale
      BY <2>2, <2>4, CallbackFacts
    <3>3. queue' \in Seq(Event)
      BY <3>1, StateFacts, GrownType
    <3> QED
      BY <2>3, <3>2, <3>3
  <2>5. CASE UNCHANGED <<camera, mouse, queue, history>>
    BY <2>3, <2>5 DEF history
  <2> QED
    BY <1>10, <2>4, <2>5 DEF HandleKey
<1>11. CASE HandleEnd
  <2>1. call' \in Calls
    BY <1>11, CallFacts DEF HandleEnd, At, CallInv, Calls
  <2> QED
    BY <1>11, <2>1 DEF HandleEnd, history
<1>12. ASSUME NEW k \in Key, Press(k) PROVE TypeOK'
  <2>1. KeyEvent("press", k, user.state) \in Event
    BY MadeFacts
  <2>2. queue' \in Seq(Event) /\ moves' \in Nat
    BY <1>12, <2>1 DEF Press, Happens
  <2>3. user' \in [down : SUBSET Key, state : States, pointer : [window : Window, place : Places]]
    BY <1>12 DEF Press
  <2> QED
    BY <1>12, <2>2, <2>3 DEF Press
<1>13. ASSUME NEW k \in Key, Release(k) PROVE TypeOK'
  <2>1. KeyEvent("release", k, user.state) \in Event
    BY MadeFacts
  <2>2. queue' \in Seq(Event) /\ moves' \in Nat
    BY <1>13, <2>1 DEF Release, Happens
  <2>3. user' \in [down : SUBSET Key, state : States, pointer : [window : Window, place : Places]]
    BY <1>13 DEF Release
  <2> QED
    BY <1>13, <2>2, <2>3 DEF Release, history
<1>14. ASSUME NEW w \in Window, Point(w) PROVE TypeOK'
  <2>1. user'.pointer = [window |-> w, place |-> "off"]
    BY <1>14 DEF Point
  <2>2. Motion(user'.pointer) \in Event
    BY <2>1, MadeFacts DEF Places
  <2>3. user' \in [down : SUBSET Key, state : States, pointer : [window : Window, place : Places]]
    BY <1>14 DEF Point, Places
  <2>4. queue' \in Seq(Event) /\ moves' \in Nat
    BY <1>14, <2>2 DEF Point, Happens
  <2> QED
    BY <1>14, <2>3, <2>4 DEF Point, history
<1>15. CASE Shift
  <2>1. user' \in [down : SUBSET Key, state : States, pointer : [window : Window, place : Places]] /\ moves' \in Nat
    BY <1>15 DEF Shift, States, Happens
  <2> QED
    BY <1>15, <2>1 DEF Shift
<1>16. CASE Redraw
  <2>1. Expose(Focus) \in Event
    BY MadeFacts, FocusAssumption
  <2>2. queue' \in Seq(Event) /\ moves' \in Nat
    BY <1>16, <2>1 DEF Redraw, Happens
  <2> QED
    BY <1>16, <2>2 DEF Redraw, history
<1>17. CASE OtherThread
  <2>1. SwitchCamera(~camera.on) /\ (~camera.on) \in BOOLEAN /\ moves' \in Nat
        /\ UNCHANGED <<queue, call, got, user, zero>>
    BY <1>17 DEF OtherThread, Happens
  <2> QED
    BY <2>1, SwitchFacts
<1>18. CASE UNCHANGED vars
  BY <1>18 DEF vars, history
<1> QED
  BY <1>1, <1>2, <1>3, <1>4, <1>5, <1>6, <1>7, <1>8, <1>9, <1>10, <1>11, <1>12, <1>13, <1>14, <1>15, <1>16, <1>17, <1>18
     DEF Next, Inside, Environment
-----------------------------------------------------------------------------
(* Calls. *)

\* What happens outside a call leaves it as it is.
LEMMA CallKept ==
    ASSUME TypeOK, CallInv, UNCHANGED <<call, got>>, queue' = queue \/ \E e : queue' = Append(queue, e)
    PROVE  CallInv'
<1>1. Len(queue) <= Len(queue') /\ \A j \in 1..Len(queue) : j \in 1..Len(queue') /\ queue'[j] = queue[j]
  <2>1. queue \in Seq(Event) /\ Len(queue) \in Nat
    BY StateFacts
  <2>2. CASE queue' = queue
    BY <2>1, <2>2
  <2>3. ASSUME NEW e, queue' = Append(queue, e)
        PROVE  Len(queue) <= Len(queue') /\ \A j \in 1..Len(queue) : j \in 1..Len(queue') /\ queue'[j] = queue[j]
    BY <2>1, <2>3
  <2> QED
    BY <2>2, <2>3
<1>2. At("extract") => call.next \in Nat
  BY CallFacts DEF At
<1>3. Len(queue) \in Nat /\ Len(queue') \in Nat
  <2>1. queue \in Seq(Event) /\ Len(queue) \in Nat
    BY StateFacts
  <2>2. \A e : Len(Append(queue, e)) = Len(queue) + 1
    BY <2>1
  <2> QED
    BY <2>1, <2>2
<1>4. call' = call /\ got' = got
  OBVIOUS
<1> QED
  BY <1>1, <1>2, <1>3, <1>4 DEF CallInv, At

\* A step keeps what is said of a call.
LEMMA CallStep == TypeOK /\ CallInv /\ [Next]_vars => CallInv'
<1> SUFFICES ASSUME TypeOK, CallInv, [Next]_vars PROVE CallInv'
  OBVIOUS
<1>1. CASE Asks
  <2>1. PICK class \in Blocking \cup {"count", "check"}, w \in SUBSET Window, m \in SUBSET Type :
            /\ "press" \in m <=> "release" \in m
            /\ Enter(class, [windows |-> w, types |-> m])
    BY <1>1, AsksEnter
  <2>2. /\ call'.at = (IF class = "count" THEN "count" ELSE "extract") /\ call'.class = class
        /\ call'.ask.types = m /\ call'.ev = NoEvent
    BY <2>1 DEF Enter
  <2>3. got' = NoEvent
    BY <2>1 DEF Enter
  <2> QED
    BY <2>1, <2>2, <2>3 DEF CallInv, At
<1>2. CASE ExtractTake
  <2>1. /\ call.at = "extract" /\ call \in Calls
        /\ call' = [call EXCEPT !.at = "handle", !.any = TRUE, !.ev = queue[FirstWanted],
                                !.back = "extract", !.next = 1]
        /\ got' = got
    BY <1>2, CallFacts DEF ExtractTake, At
  <2>2. queue[FirstWanted] # NoEvent
    BY <1>2, FirstWantedFacts, StateFacts, EventFacts DEF ExtractTake, NoEvent, Event
  <2>3. /\ call'.at = "handle" /\ call'.any = TRUE /\ call'.ev = queue[FirstWanted] /\ call'.back = "extract"
        /\ call'.next = 1 /\ call'.ask = call.ask
    BY <2>1 DEF Calls
  <2> QED
    BY <2>1, <2>2, <2>3 DEF CallInv, At
<1>3. CASE ExtractDone
  <2>1. call.at = "extract" /\ call \in Calls /\ queue' = queue
    BY <1>3, CallFacts DEF ExtractDone, At
  <2>2. CASE call' = Idle
    BY <2>2 DEF Idle, CallInv, At
  <2>3. CASE call' = [call EXCEPT !.at = AfterExtract] /\ got' = got /\ AfterExtract # "counted"
    <3>1. call'.at = AfterExtract /\ call'.class = call.class /\ call'.ask = call.ask /\ call'.ev = call.ev
      BY <2>1, <2>3 DEF Calls
    <3>2. (AfterExtract = "wait" /\ call.class # "count") \/ AfterExtract = "count"
      BY <2>3 DEF AfterExtract
    <3> QED
      BY <2>1, <2>3, <3>1, <3>2 DEF CallInv, At
  <2> QED
    BY <1>3, <2>2, <2>3 DEF ExtractDone, Return
<1>4. CASE Count
  <2>1. call.at = "count" /\ call \in Calls /\ queue' = queue /\ Len(queue) \in Nat
    BY <1>4, CallFacts, StateFacts DEF Count, At
  <2>2. CASE call' = Idle
    BY <2>2 DEF Idle, CallInv, At
  <2>3. CASE call' = [call EXCEPT !.at = "extract", !.any = FALSE, !.next = Len(queue)] /\ got' = got
    <3>1. call'.at = "extract" /\ call'.ask = call.ask /\ call'.ev = call.ev /\ call'.next = Len(queue)
      BY <2>1, <2>3 DEF Calls
    <3> QED
      BY <2>1, <2>3, <3>1 DEF CallInv, At
  <2> QED
    BY <1>4, <2>2, <2>3 DEF Count, Return
<1>5. CASE RealTake
  <2>1. call.at = "wait" /\ call \in Calls /\ got' = got
        /\ call' = [call EXCEPT !.at = "took", !.ev = queue[FirstAccepted]]
        /\ queue' = IF call.class \in Peeks THEN queue ELSE RemoveAt(queue, FirstAccepted)
    BY <1>5, CallFacts DEF RealTake, At
  <2>2. FirstAccepted \in 1..Len(queue) /\ queue[FirstAccepted] # NoEvent
    <3>1. FirstAccepted # 0 /\ queue \in Seq(Event)
      BY <1>5, StateFacts DEF RealTake
    <3>2. FirstAccepted \in 1..Len(queue) /\ queue[FirstAccepted] \in Event
      BY <3>1, FirstAcceptedFacts
    <3>3. NoEvent \notin Event
      BY DEF NoEvent, Event
    <3> QED
      BY <3>2, <3>3
  <2>3. /\ call'.at = "took" /\ call'.ask = call.ask /\ call'.ev = queue[FirstAccepted]
        /\ call'.class = call.class
    BY <2>1 DEF Calls
  <2> QED
    BY <2>1, <2>2, <2>3 DEF CallInv, At
<1>6. CASE RealNone
  BY <1>6 DEF RealNone, Return, Idle, CallInv, At
<1>7. CASE Deliver
  BY <1>7 DEF Deliver, Return, Idle, CallInv, At
<1>8. CASE Retry
  <2>1. call.at = "took" /\ call \in Calls /\ got' = got
        /\ \/ call' = [call EXCEPT !.at = "extract", !.ev = NoEvent] /\ call.class # "count"
           \/ call' = [call EXCEPT !.at = "handle", !.back = "wait", !.next = 1]
    BY <1>8, CallFacts DEF Retry, At, Peeks
  <2>2. CASE call' = [call EXCEPT !.at = "extract", !.ev = NoEvent] /\ call.class # "count"
    <3>1. call'.at = "extract" /\ call'.ask = call.ask /\ call'.ev = NoEvent /\ call'.class = call.class
      BY <2>1, <2>2 DEF Calls
    <3> QED
      BY <2>1, <2>2, <3>1 DEF CallInv, At
  <2>3. CASE call' = [call EXCEPT !.at = "handle", !.back = "wait", !.next = 1]
    <3>1. /\ call'.at = "handle" /\ call'.ask = call.ask /\ call'.ev = call.ev /\ call'.class = call.class
          /\ call'.back = "wait" /\ call'.next = 1
      BY <2>1, <2>3 DEF Calls
    <3> QED
      BY <2>1, <3>1 DEF CallInv, At
  <2> QED
    BY <2>1, <2>2, <2>3
<1>9. CASE HandleMotion \/ HandleEnd
  <2>1. call.at = "handle" /\ call \in Calls /\ got' = got
        /\ \/ call' = [call EXCEPT !.at = call.back, !.ev = NoEvent]
           \/ call' = [call EXCEPT !.at = call.back, !.ev = NoEvent, !.next = 0]
    BY <1>9, CallFacts DEF HandleMotion, HandleEnd, At
  <2>2. /\ call'.at = call.back /\ call'.ask = call.ask /\ call'.ev = NoEvent /\ call'.class = call.class
        /\ call'.any = call.any
    BY <2>1 DEF Calls
  <2> QED
    BY <2>1, <2>2 DEF CallInv, At
<1>10. CASE HandleKey
  <2>1. call.at = "handle" /\ call \in Calls /\ got' = got /\ call' = [call EXCEPT !.next = NextHandler + 1]
    BY <1>10, CallFacts DEF HandleKey, At
  <2>2. /\ call'.at = "handle" /\ call'.ask = call.ask /\ call'.ev = call.ev /\ call'.class = call.class
        /\ call'.any = call.any /\ call'.back = call.back /\ call'.next = NextHandler + 1
    BY <2>1 DEF Calls
  <2>3. NextHandler \in Nat
    <3>1. call.next \in Nat /\ call.next > 0
      BY <2>1, CallFacts DEF CallInv, At
    <3>2. NextHandler # 0
      BY <1>10 DEF HandleKey
    <3> QED
      BY <3>1, <3>2, NextHandlerFacts
  <2> QED
    BY <2>1, <2>2, <2>3 DEF CallInv, At
<1>11. CASE Environment \/ UNCHANGED vars
  <2>1. UNCHANGED <<call, got>> /\ (queue' = queue \/ \E e : queue' = Append(queue, e))
    BY <1>11 DEF Environment, Press, Release, Point, Shift, Redraw, OtherThread, vars
  <2> QED
    BY <2>1, CallKept
<1> QED
  BY <1>1, <1>2, <1>3, <1>4, <1>5, <1>6, <1>7, <1>8, <1>9, <1>10, <1>11 DEF Next, Inside
-----------------------------------------------------------------------------
(* What was announced. *)

\* An event that a function took and will return, if it is for the application.
Aside(c, on, active) ==
    IF c.at = "took" /\ c.class \notin Peeks /\ ~ForHandlers(on, active, c.ev) THEN 1 ELSE 0

\* PendingHonest in these terms, before and after a step.
LEMMA PendingMeans ==
    /\ PendingHonest <=> promised <= Number(queue, camera.on, mouse.active) + Aside(call, camera.on, mouse.active)
    /\ PendingHonest' <=> promised' <= Number(queue', camera'.on, mouse'.active) + Aside(call', camera'.on, mouse'.active)
<1>1. /\ Foreign(queue) = Meant(queue, camera.on, mouse.active)
      /\ Foreign(queue)' = Meant(queue', camera'.on, mouse'.active)
  BY DEF Foreign, Meant, Wanted, ForHandlers, Catches, Wants, KeyWanted
<1>2. /\ Wanted(call.ev) <=> ForHandlers(camera.on, mouse.active, call.ev)
      /\ Wanted(call.ev)' <=> ForHandlers(camera'.on, mouse'.active, call'.ev)
  BY DEF Wanted, ForHandlers, Catches, Wants, KeyWanted
<1> QED
  BY <1>1, <1>2 DEF PendingHonest, Number, Aside

\* Nothing that was announced goes away when the events only become more.
LEMMA PendingKept ==
    ASSUME TypeOK, PendingHonest, promised' \in Nat,
           promised' = 0 \/ (promised' = promised /\ camera'.on = camera.on /\ mouse'.active = mouse.active),
           queue' = queue \/ \E e : queue' = Append(queue, e),
           Aside(call', camera.on, mouse.active) = Aside(call, camera.on, mouse.active)
    PROVE  PendingHonest'
<1>1. queue \in Seq(Event) /\ promised \in Nat
  BY DEF TypeOK
<1>2. \A on, active : Number(queue', on, active) \in Nat /\ Number(queue, on, active) \in Nat
                     /\ Number(queue, on, active) <= Number(queue', on, active)
  <2> SUFFICES ASSUME NEW on, NEW active
               PROVE  /\ Number(queue', on, active) \in Nat /\ Number(queue, on, active) \in Nat
                      /\ Number(queue, on, active) <= Number(queue', on, active)
    OBVIOUS
  <2>1. Number(queue, on, active) \in Nat
    BY <1>1, NumberFacts
  <2>2. ASSUME NEW e, queue' = Append(queue, e)
        PROVE  Number(queue', on, active) \in Nat /\ Number(queue, on, active) <= Number(queue', on, active)
    BY <1>1, <2>1, <2>2, NumberAppend
  <2> QED
    BY <2>1, <2>2
<1>3. \A c, on, active : Aside(c, on, active) \in {0, 1}
  BY DEF Aside
<1> DEFINE n == Number(queue, camera.on, mouse.active)
           n2 == Number(queue', camera'.on, mouse'.active)
           a == Aside(call, camera.on, mouse.active)
           a2 == Aside(call', camera'.on, mouse'.active)
<1>4. promised <= n + a /\ n \in Nat /\ n2 \in Nat /\ a \in {0, 1} /\ a2 \in {0, 1}
  BY <1>2, <1>3, PendingMeans
<1>5. promised' # 0 => n <= n2 /\ a2 = a /\ promised' = promised
  BY <1>2
<1>6. promised' <= n2 + a2
  <2> HIDE DEF n, n2, a, a2
  <2> QED
    BY <1>1, <1>4, <1>5
<1> QED
  BY <1>6, PendingMeans

\* A step keeps PendingHonest.
LEMMA PendingStep == TypeOK /\ CallInv /\ PendingHonest /\ [Next]_vars => PendingHonest'
<1> SUFFICES ASSUME TypeOK, CallInv, PendingHonest, [Next]_vars PROVE PendingHonest'
  OBVIOUS
<1> DEFINE N(q) == Number(q, camera.on, mouse.active)
           A(c) == Aside(c, camera.on, mouse.active)
           Ours(e) == ForHandlers(camera.on, mouse.active, e)
<1>t. queue \in Seq(Event) /\ promised \in Nat /\ promised' \in Nat /\ N(queue) \in Nat
  <2>1. TypeOK'
    BY TypeStep
  <2> QED
    BY <2>1, NumberFacts DEF TypeOK
<1>p. promised <= N(queue) + A(call)
  BY PendingMeans
<1>a. \A c : A(c) \in {0, 1} /\ (c.at # "took" => A(c) = 0)
  BY DEF Aside
<1>w. \A e : Wanted(e) <=> Ours(e)
  BY WantedMeans
<1>1. CASE Asks
  <2>1. PICK class, ask : Enter(class, ask)
    BY <1>1, AsksEnter
  <2>2. call.at # "took" /\ call'.at # "took" /\ UNCHANGED <<camera, mouse, queue, promised>>
    BY <2>1 DEF Enter, At
  <2> QED
    BY <1>t, <1>a, <2>2, PendingKept
<1>2. CASE ExtractTake
  <2>1. /\ call.at # "took" /\ call'.at # "took" /\ UNCHANGED <<camera, mouse, promised>>
        /\ queue' = RemoveAt(queue, FirstWanted) /\ FirstWanted # 0
    <3>1. call \in Calls
      BY <1>2, CallFacts DEF ExtractTake, At
    <3> QED
      BY <1>2, <3>1 DEF ExtractTake, At, history, Calls
  <2>2. FirstWanted \in 1..Len(queue) /\ Ours(queue[FirstWanted])
    BY <1>t, <1>w, <2>1, FirstWantedFacts
  <2>3. N(queue) = N(queue') + 0
    BY <1>t, <2>1, <2>2, NumberRemove
  <2>4. N(queue') \in Nat
    BY <1>t, <2>1, <2>2, RemoveFacts, NumberFacts
  <2> HIDE DEF N, A
  <2>5. promised' <= N(queue') + A(call')
    BY <1>t, <1>p, <1>a, <2>1, <2>3, <2>4
  <2> QED
    BY <2>1, <2>5, PendingMeans DEF N, A
<1>3. CASE ExtractDone
  <2>1. call.at = "extract" /\ call \in Calls /\ call'.at # "took" /\ UNCHANGED <<camera, mouse, queue>>
    <3>1. call.at = "extract" /\ call \in Calls
      BY <1>3, CallFacts DEF ExtractDone, At
    <3>2. \/ call' = Idle
          \/ call' = [call EXCEPT !.at = AfterExtract] /\ AfterExtract \in {"wait", "count"}
      BY <1>3 DEF ExtractDone, AfterExtract, Return
    <3>3. call'.at # "took"
      <4>1. CASE call' = Idle
        BY <4>1 DEF Idle
      <4>2. CASE call' # Idle
        BY <3>1, <3>2, <4>2 DEF Calls
      <4> QED
        BY <4>1, <4>2
    <3> QED
      BY <1>3, <3>1, <3>3 DEF ExtractDone
  <2>2. CASE promised' = promised
    BY <1>t, <1>a, <2>1, <2>2, PendingKept
  <2>3. CASE AfterExtract = "counted" /\ promised' = call.next
    <3>1. call.next <= Len(queue)
      BY <2>1, <2>3 DEF AfterExtract, CallInv, At, Calls
    <3>2. \A j \in 1..Len(queue) : ~Ours(queue[j])
      BY <1>3, <1>t, <1>w, FirstWantedFacts DEF ExtractDone
    <3>3. N(queue) = Len(queue)
      BY <1>t, <3>2, NumberFacts
    <3> HIDE DEF N, A
    <3>4. promised' <= N(queue) + A(call')
      BY <1>t, <1>a, <2>1, <2>3, <3>1, <3>3
    <3> QED
      BY <2>1, <3>4, PendingMeans DEF N, A
  <2> QED
    BY <1>3, <2>2, <2>3 DEF ExtractDone
<1>4. CASE Count
  <2>1. call.at = "count" /\ call'.at # "took" /\ UNCHANGED <<camera, mouse, queue>> /\ promised' \in {0, promised}
    <3>1. call.at = "count" /\ call \in Calls
      BY <1>4, CallFacts DEF Count, At
    <3>2. \/ call' = Idle /\ promised' = 0
          \/ /\ call' = [call EXCEPT !.at = "extract", !.any = FALSE, !.next = Len(queue)]
             /\ promised' = promised
      BY <1>4 DEF Count, Return
    <3>3. call'.at # "took"
      <4>1. CASE call' = Idle
        BY <4>1 DEF Idle
      <4>2. CASE call' # Idle
        BY <3>1, <3>2, <4>2 DEF Calls
      <4> QED
        BY <4>1, <4>2
    <3> QED
      BY <1>4, <3>1, <3>2, <3>3 DEF Count
  <2> QED
    BY <1>t, <1>a, <2>1, PendingKept
<1>5. CASE RealTake
  <2>1. /\ call.at = "wait" /\ call'.at = "took" /\ call'.ev = queue[FirstAccepted] /\ call'.class = call.class
        /\ UNCHANGED <<camera, mouse, promised>> /\ FirstAccepted # 0
        /\ queue' = IF call.class \in Peeks THEN queue ELSE RemoveAt(queue, FirstAccepted)
    <3>1. call \in Calls /\ call.at = "wait"
      BY <1>5, CallFacts DEF RealTake, At
    <3> QED
      BY <1>5, <3>1 DEF RealTake, history, Calls
  <2>2. FirstAccepted \in 1..Len(queue)
    BY <1>t, <2>1, FirstAcceptedFacts
  <2>3. CASE call.class \in Peeks
    <3>1. A(call) = 0 /\ A(call') = 0
      BY <2>1, <2>3 DEF Aside
    <3> QED
      BY <1>t, <2>1, <2>3, <3>1, PendingKept
  <2>4. CASE call.class \notin Peeks
    <3>1. A(call) = 0 /\ A(call') = IF Ours(queue[FirstAccepted]) THEN 0 ELSE 1
      BY <2>1, <2>4 DEF Aside
    <3>2. N(queue) = N(queue') + (IF Ours(queue[FirstAccepted]) THEN 0 ELSE 1)
      BY <1>t, <2>1, <2>2, <2>4, NumberRemove
    <3>3. N(queue') \in Nat
      BY <1>t, <2>1, <2>2, <2>4, RemoveFacts, NumberFacts
    <3> HIDE DEF N, A, Ours
    <3>4. promised' <= N(queue') + A(call')
      BY <1>t, <1>p, <2>1, <3>1, <3>2, <3>3
    <3> QED
      BY <2>1, <3>4, PendingMeans DEF N, A
  <2> QED
    BY <2>3, <2>4
<1>6. CASE RealNone
  <2>1. call.at # "took" /\ call'.at # "took" /\ UNCHANGED <<camera, mouse, queue, promised>>
    BY <1>6 DEF RealNone, Return, Idle, At, history
  <2> QED
    BY <1>t, <1>a, <2>1, PendingKept
<1>7. CASE Deliver
  <2>1. /\ call.at = "took" /\ call'.at # "took" /\ UNCHANGED <<camera, mouse, queue>>
        /\ promised' = IF Wanted(call.ev) THEN promised
                       ELSE IF call.class \in Peeks THEN IF promised = 0 THEN 1 ELSE promised
                       ELSE IF promised = 0 THEN 0 ELSE promised - 1
    BY <1>7 DEF Deliver, Return, Idle, At
  <2>2. A(call) = IF call.class \in Peeks \/ Ours(call.ev) THEN 0 ELSE 1
    BY <2>1 DEF Aside
  <2>3. call.class \in Peeks /\ ~Ours(call.ev) => N(queue) > 0
    <3>1. call.class \in Peeks => \E j \in 1..Len(queue) : queue[j] = call.ev
      BY <2>1 DEF CallInv, At
    <3> QED
      BY <1>t, <3>1, NumberFacts
  <2>4. A(call') = 0
    BY <1>a, <2>1
  <2>5. promised' = IF Ours(call.ev) THEN promised
                    ELSE IF call.class \in Peeks THEN IF promised = 0 THEN 1 ELSE promised
                    ELSE IF promised = 0 THEN 0 ELSE promised - 1
    BY <1>w, <2>1
  <2> HIDE DEF N, A, Ours
  <2>6. promised' <= N(queue) + A(call')
    BY <1>t, <1>p, <2>2, <2>3, <2>4, <2>5
  <2> QED
    BY <2>1, <2>6, PendingMeans DEF N, A
<1>8. CASE Retry
  <2>1. call.at = "took" /\ call'.at # "took" /\ UNCHANGED <<camera, mouse, queue, promised>> /\ Wanted(call.ev)
    <3>1. call \in Calls /\ call.at = "took"
      BY <1>8, CallFacts DEF Retry, At
    <3> QED
      BY <1>8, <3>1 DEF Retry, Returnable, history, Calls
  <2>2. A(call) = 0
    BY <1>w, <2>1 DEF Aside
  <2> QED
    BY <1>t, <1>a, <2>1, <2>2, PendingKept
<1>9. CASE HandleMotion
  <2>1. call.at = "handle" /\ call'.at # "took" /\ UNCHANGED <<camera, promised>> /\ mouse'.active = mouse.active
    <3>1. call \in Calls /\ call.at = "handle" /\ call.back \in {"extract", "wait"}
      BY <1>9, CallFacts DEF HandleMotion, At, CallInv
    <3>2. mouse' = mouse \/ mouse' = Anchored(call.ev.window)
      BY <1>9 DEF HandleMotion
    <3>3. mouse'.active = mouse.active
      BY <3>2 DEF Anchored, TypeOK
    <3> QED
      BY <1>9, <3>1, <3>3 DEF HandleMotion, history, Calls
  <2>2. \/ queue' = queue \/ \E e : queue' = Append(queue, e)
        \/ \E e \in Event : \E e2 : queue' = Append(Append(queue, e), e2)
    <3>1. Expose(user.pointer.window) \in Event
      BY MadeFacts, StateFacts
    <3> QED
      BY <1>9, <3>1 DEF HandleMotion, Warp, Recentre
  <2>3. CASE queue' = queue \/ \E e : queue' = Append(queue, e)
    BY <1>t, <1>a, <2>1, <2>3, PendingKept
  <2>4. ASSUME NEW e \in Event, NEW e2, queue' = Append(Append(queue, e), e2) PROVE PendingHonest'
    <3> DEFINE q == Append(queue, e)
    <3>1. q \in Seq(Event)
      BY <1>t
    <3>2. N(q) = N(queue) + (IF Ours(e) THEN 0 ELSE 1)
      BY <1>t, NumberAppend
    <3>3. N(queue') = N(q) + (IF Ours(e2) THEN 0 ELSE 1)
      <4> HIDE DEF q
      <4>1. queue' = Append(q, e2)
        BY <2>4 DEF q
      <4> QED
        BY <3>1, <4>1, NumberAppend
    <3>4. A(call) = 0 /\ A(call') = 0
      BY <1>a, <2>1
    <3> HIDE DEF N, A, Ours
    <3>5. promised' <= N(queue') + A(call')
      BY <1>t, <1>p, <2>1, <3>2, <3>3, <3>4
    <3> QED
      BY <2>1, <3>5, PendingMeans DEF N, A
  <2> QED
    BY <2>2, <2>3, <2>4
<1>10. CASE HandleKey
  <2>1. call.at = "handle" /\ call'.at = "handle" /\ call.ev.key \in Key
    <3>1. call \in Calls /\ call.at = "handle"
      BY <1>10, CallFacts DEF HandleKey, At
    <3> QED
      BY <1>10, <3>1, EventFacts DEF HandleKey, Calls
  <2>2. CASE Callback(Handlers[NextHandler], call.ev)
    <3>1. /\ queue' = queue \/ \E e : queue' = Append(queue, e)
          /\ promised' \in {0, promised}
          /\ (camera'.on = camera.on /\ mouse'.active = mouse.active) \/ promised' = 0
      BY <2>1, <2>2, CallbackFacts
    <3> QED
      BY <1>t, <1>a, <2>1, <3>1, PendingKept
  <2>3. CASE UNCHANGED <<camera, mouse, queue, history>>
    BY <1>t, <1>a, <2>1, <2>3, PendingKept DEF history
  <2> QED
    BY <1>10, <2>2, <2>3 DEF HandleKey
<1>11. CASE HandleEnd
  <2>1. call.at = "handle" /\ call'.at # "took" /\ UNCHANGED <<camera, mouse, queue, promised>>
    <3>1. call \in Calls /\ call.at = "handle" /\ call.back \in {"extract", "wait"}
      BY <1>11, CallFacts DEF HandleEnd, At, CallInv
    <3> QED
      BY <1>11, <3>1 DEF HandleEnd, history, Calls
  <2> QED
    BY <1>t, <1>a, <2>1, PendingKept
<1>12. CASE OtherThread
  <2>1. SwitchCamera(~camera.on) /\ (~camera.on) \in BOOLEAN /\ UNCHANGED <<queue, call>>
    BY <1>12, StateFacts DEF OtherThread
  <2>2. promised' = 0
    BY <2>1, SwitchFacts DEF SwitchCamera, Predicate, TypeOK
  <2> QED
    BY <1>t, <2>1, <2>2, PendingKept
<1>13. CASE \/ UNCHANGED vars \/ \E k \in Key : Press(k) \/ Release(k)
            \/ \E w \in Window : Point(w)
            \/ Shift \/ Redraw
  <2>1. UNCHANGED <<camera, mouse, call, promised>> /\ (queue' = queue \/ \E e : queue' = Append(queue, e))
    BY <1>13 DEF vars, history, Press, Release, Point, Shift, Redraw
  <2> QED
    BY <1>t, <2>1, PendingKept
<1> QED
  BY <1>1, <1>2, <1>3, <1>4, <1>5, <1>6, <1>7, <1>8, <1>9, <1>10, <1>11, <1>12, <1>13 DEF Next, Inside, Environment
-----------------------------------------------------------------------------
(* What a steady key has on its way. *)

\* What is left of the camera's keys when those of an earlier press are not counted.
Left == camera.pressed \ stale

\* KeyInv in the terms of the lemmas above, before and after a step.
LEMMA KeyMeans ==
    /\ KeyInv <=> \A k \in steady \ handed :
                     KeyOk(k, queue, Hand, From, got, held, Seen, user, camera.on, Left)
    /\ KeyInv' <=> \A k \in steady' \ handed' :
                      KeyOk(k, queue', Hand', From', got', held', Seen', user', camera'.on, Left')
BY DEF KeyInv, KeyOk, Left

\* What is in hand is an event that is coming.
LEMMA HandFacts ==
    ASSUME TypeOK
    PROVE  /\ Hand \in Event \cup {NoEvent} /\ From \in Nat /\ (Hand # NoEvent => Hand \in InHand)
           /\ \A j \in 1..Len(queue) : queue[j] \in Coming
<1>1. ~At("idle") => call.ev \in Event \cup {NoEvent} /\ call.next \in Nat
  BY CallFacts
<1>2. \A j \in 1..Len(queue) : queue[j] \in ToSet(queue)
  BY StateFacts DEF ToSet
<1> QED
  BY <1>1, <1>2 DEF Hand, From, Taken, InHand, At, Coming

\* Before an event that event_predicate takes there is no press of a steady key's.
LEMMA PressFirst ==
    ASSUME TypeOK, NEW k, NEW i \in 1..Len(queue), NEW h, NEW n, NEW g, NEW has, NEW seen, NEW left,
           KeyOk(k, queue, h, n, g, has, seen, user, camera.on, left), Of(queue[i], "release", k),
           NEW j \in 1..Len(queue), Of(queue[j], "press", k)
    PROVE  queue[j].state = queue[i].state /\ (Wanted(queue[j]) <=> Wanted(queue[i]))
<1>1. \A m \in 1..Len(queue) : Of(queue[m], "release", k) => m = i
  BY DEF KeyOk, Ordered
<1>2. k \notin user.down
  BY DEF KeyOk, Ordered, Holds
<1>3. Alike(k, queue[j].state, queue, user)
  BY DEF KeyOk, Paired
<1>4. queue[j].state = queue[i].state
  BY <1>1, <1>2, <1>3 DEF Alike
<1> QED
  BY <1>4 DEF Wanted, Catches, Of, IsKey

\* The steps that take events out, hand them over or put them down.
LEMMA KeyTaking ==
    ASSUME TypeOK, CallInv, KeyInv, NEW k \in steady' \ handed',
           ExtractTake \/ RealTake \/ Deliver \/ Retry
    PROVE  KeyOk(k, queue', Hand', From', got', held', Seen', user', camera'.on, Left')
<1>1. k \in steady \ handed /\ UNCHANGED <<camera, user, held, stale>>
  BY DEF ExtractTake, RealTake, Deliver, Retry, history
<1>2. KeyOk(k, queue, Hand, From, got, held, Seen, user, camera.on, Left)
  BY <1>1, KeyMeans
<1>3. /\ ~At("idle") /\ got = NoEvent /\ Seen = held /\ Left' = Left
      /\ call \in Calls /\ queue \in Seq(Event)
  <2>1. ~At("idle") /\ got = NoEvent
    BY DEF ExtractTake, RealTake, Deliver, Retry, At, CallInv
  <2> QED
    BY <1>1, <2>1, CallFacts, StateFacts, NothingOf DEF Seen, Left
<1>4. CASE ExtractTake
  <2>1. /\ FirstWanted # 0 /\ queue' = RemoveAt(queue, FirstWanted) /\ got' = NoEvent /\ call.at = "extract"
        /\ call' = [call EXCEPT !.at = "handle", !.any = TRUE, !.ev = queue[FirstWanted],
                                !.back = "extract", !.next = 1]
    BY <1>3, <1>4 DEF ExtractTake, At
  <2>2. Hand = NoEvent /\ From = 0 /\ Hand' = queue[FirstWanted] /\ From' = 1 /\ Seen' = held
    BY <1>1, <1>3, <2>1, NothingOf DEF Hand, From, Taken, At, Calls, Seen
  <2>3. /\ FirstWanted \in 1..Len(queue) /\ Wanted(queue[FirstWanted])
        /\ \A j \in 1..(FirstWanted - 1) : ~Wanted(queue[j])
    BY <1>3, <2>1, FirstWantedFacts
  <2>4. Of(queue[FirstWanted], "release", k) => \A j \in 1..(FirstWanted - 1) : ~Of(queue[j], "press", k)
    <3>1. \A j \in 1..(FirstWanted - 1) : j \in 1..Len(queue)
      BY <2>3, StateFacts
    <3> QED
      BY <1>2, <2>3, <3>1, PressFirst
  <2>5. IsKey(queue[FirstWanted]) /\ queue[FirstWanted].key = k => KeyWanted(camera.on, k, queue[FirstWanted].state)
    BY <2>3, WantedMeans DEF ForHandlers, IsKey
  <2>6. KeyOk(k, queue, NoEvent, 0, NoEvent, held, held, user, camera.on, Left)
    BY <1>2, <1>3, <2>2
  <2>7. KeyOk(k, RemoveAt(queue, FirstWanted), queue[FirstWanted], 1, NoEvent, held, held, user, camera.on, Left)
    BY <1>3, <2>3, <2>4, <2>5, <2>6, TakenOff, NothingOf
  <2> QED
    BY <1>1, <1>3, <2>1, <2>2, <2>7
<1>5. CASE RealTake
  <2>1. /\ FirstAccepted # 0 /\ got' = NoEvent /\ call.at = "wait"
        /\ queue' = IF call.class \in Peeks THEN queue ELSE RemoveAt(queue, FirstAccepted)
        /\ call' = [call EXCEPT !.at = "took", !.ev = queue[FirstAccepted]]
    BY <1>3, <1>5 DEF RealTake, At
  <2>2. /\ Hand = NoEvent /\ From = 0 /\ From' = 0 /\ Seen' = held
        /\ Hand' = IF call.class \in Peeks THEN NoEvent ELSE queue[FirstAccepted]
    BY <1>1, <1>3, <2>1, NothingOf DEF Hand, From, Taken, At, Calls, Seen
  <2>3. KeyOk(k, queue, NoEvent, 0, NoEvent, held, held, user, camera.on, Left)
    BY <1>2, <1>3, <2>2
  <2>4. CASE call.class \in Peeks
    BY <1>1, <1>3, <2>1, <2>2, <2>3, <2>4
  <2>5. CASE call.class \notin Peeks
    <3>1. /\ FirstAccepted \in 1..Len(queue) /\ Accepts(queue[FirstAccepted])
          /\ \A j \in 1..(FirstAccepted - 1) : ~Accepts(queue[j])
      BY <1>3, <2>1, FirstAcceptedFacts
    <3>2. ASSUME Of(queue[FirstAccepted], "release", k), NEW j \in 1..(FirstAccepted - 1), Of(queue[j], "press", k)
          PROVE  FALSE
      <4>1. j \in 1..Len(queue) /\ queue[j] \in Event /\ queue[FirstAccepted] \in Event
        BY <1>3, <3>1, StateFacts
      <4>2. Wanted(queue[j]) <=> Wanted(queue[FirstAccepted])
        BY <1>2, <3>1, <3>2, <4>1, PressFirst
      <4>3. queue[j].window = queue[FirstAccepted].window
        BY <3>2, <4>1, EventFacts DEF Of, IsKey
      <4>4. "press" \in call.ask.types <=> "release" \in call.ask.types
        BY <1>3 DEF CallInv
      <4> QED
        BY <3>1, <3>2, <4>2, <4>3, <4>4 DEF Accepts, Asked, Of
    <3>3. KeyOk(k, RemoveAt(queue, FirstAccepted), queue[FirstAccepted], 0, NoEvent, held, held, user, camera.on, Left)
      <4>1. Of(queue[FirstAccepted], "release", k) => \A j \in 1..(FirstAccepted - 1) : ~Of(queue[j], "press", k)
        BY <3>2
      <4>2. ~Of(NoEvent, "release", k)
        BY NothingOf
      <4>3. PICK n \in {0, 1} : n = 0
        OBVIOUS
      <4>4. n = 1 /\ IsKey(queue[FirstAccepted]) /\ queue[FirstAccepted].key = k
                => KeyWanted(camera.on, k, queue[FirstAccepted].state)
        BY <4>3
      <4>5. KeyOk(k, RemoveAt(queue, FirstAccepted), queue[FirstAccepted], n, NoEvent, held, held, user, camera.on, Left)
        BY <1>3, <2>3, <3>1, <4>1, <4>2, <4>4, TakenOff
      <4> QED
        BY <4>3, <4>5
    <3> QED
      BY <1>1, <1>3, <2>1, <2>2, <2>5, <3>3
  <2> QED
    BY <2>4, <2>5
<1>6. CASE Deliver
  <2>1. /\ call.at = "took" /\ call' = Idle /\ queue' = queue
        /\ got' = IF call.class \in Peeks THEN NoEvent ELSE call.ev
        /\ Wanted(call.ev) /\ IsKey(call.ev) /\ call.class \notin Peeks => k # call.ev.key
    BY <1>6 DEF Deliver, Return, At
  <2>2. /\ From = 0 /\ Hand' = NoEvent /\ From' = 0
        /\ Hand = IF call.class \in Peeks THEN NoEvent ELSE call.ev
    BY <2>1 DEF Hand, From, Taken, At, Idle
  <2>3. KeyOk(k, queue, Hand, 0, NoEvent, held, held, user, camera.on, Left)
    BY <1>2, <1>3, <2>2
  <2>4. got' = Hand
    BY <2>1, <2>2
  <2>5. Of(Hand, "press", k) \/ Of(Hand, "release", k) => ~KeyWanted(camera.on, k, Hand.state)
    BY <2>1, <2>2, NothingOf, WantedMeans DEF Of, IsKey, ForHandlers
  <2>6. (Of(Hand, "press", k) => k \in Seen') /\ (k \in held /\ ~Of(Hand, "release", k) => k \in Seen')
    BY <1>1, <2>4 DEF Seen, Of
  <2>7. KeyOk(k, queue, NoEvent, 0, Hand, held, Seen', user, camera.on, Left)
    BY <1>3, <2>3, <2>5, <2>6, HandedOver
  <2> QED
    BY <1>1, <1>3, <2>1, <2>2, <2>4, <2>7
<1>7. CASE Retry
  <2>1. /\ call.at = "took" /\ queue' = queue /\ got' = NoEvent /\ Wanted(call.ev)
        /\ call' = IF call.class \in Peeks
                   THEN [call EXCEPT !.at = "extract", !.ev = NoEvent]
                   ELSE [call EXCEPT !.at = "handle", !.back = "wait", !.next = 1]
    BY <1>3, <1>7 DEF Retry, Returnable, At
  <2>2. /\ Hand' = Hand /\ From = 0 /\ Seen' = held
        /\ IF call.class \in Peeks THEN Hand = NoEvent /\ From' = 0 ELSE Hand = call.ev /\ From' = 1
    BY <1>1, <1>3, <2>1, NothingOf DEF Hand, From, Taken, At, Calls, Seen
  <2>3. KeyOk(k, queue, Hand, 0, NoEvent, held, held, user, camera.on, Left)
    BY <1>2, <1>3, <2>2
  <2>4. CASE call.class \in Peeks
    BY <1>1, <1>3, <2>1, <2>2, <2>3, <2>4
  <2>5. CASE call.class \notin Peeks
    <3>1. IsKey(Hand) /\ Hand.key = k => KeyWanted(camera.on, k, Hand.state)
      BY <2>1, <2>2, <2>5, WantedMeans DEF ForHandlers, IsKey
    <3>2. KeyOk(k, queue, Hand, 1, NoEvent, held, held, user, camera.on, Left)
      BY <2>3, <3>1, TurnedTo
    <3> QED
      BY <1>1, <1>3, <2>1, <2>2, <2>5, <3>2
  <2> QED
    BY <2>4, <2>5
<1> QED
  BY <1>4, <1>5, <1>6, <1>7

\* A key's event is with the handlers.
LEMMA KeyHandling ==
    ASSUME TypeOK, CallInv, KeyInv, NEW k \in steady' \ handed', HandleKey \/ HandleEnd
    PROVE  KeyOk(k, queue', Hand', From', got', held', Seen', user', camera'.on, Left')
<1>1. /\ call.at = "handle" /\ call \in Calls /\ call.next \in Nat /\ call.next > 0 /\ got = NoEvent
      /\ IsKey(call.ev) /\ call.ev \in Event \cup {NoEvent}
  <2>1. ~At("idle") /\ call.at = "handle"
    BY DEF HandleKey, HandleEnd, At
  <2> QED
    BY <2>1, CallFacts DEF HandleKey, HandleEnd, At, CallInv
<1>2. Hand = call.ev /\ From = call.next /\ Seen = held /\ queue \in Seq(Event)
  BY <1>1, NothingOf, StateFacts DEF Hand, From, Taken, At, Seen
<1>3. /\ call.ev.key \in Key /\ call.ev.state \in States
      /\ \A m : Of(call.ev, "press", m) \/ Of(call.ev, "release", m) <=> call.ev.key = m
  BY <1>1, EventFacts
<1>4. \A i \in 1..Len(Handlers) : Handlers[i] \in HandlerSet
  BY HandlerAssumption
<1>5. CASE HandleEnd
  <2>1. /\ NextHandler = 0 /\ UNCHANGED <<camera, mouse, queue, got, user, held, steady, handed, stale>>
        /\ call' = [call EXCEPT !.at = call.back, !.ev = NoEvent, !.next = 0]
    BY <1>5 DEF HandleEnd, history
  <2>2. call.back \in {"extract", "wait"}
    BY <1>1 DEF CallInv, At
  <2>3. Hand' = NoEvent /\ From' = 0 /\ Seen' = held /\ Left' = Left
    BY <1>1, <2>1, <2>2, NothingOf DEF Hand, From, Taken, At, Calls, Seen, Left
  <2>4. Of(call.ev, "release", k) => ~Lets(camera.on, k, call.ev.state, call.next)
    <3>1. \A i \in call.next..Len(Handlers) : ~Matches(Handlers[i], call.ev)
      BY <1>1, <2>1, NextHandlerFacts
    <3> SUFFICES ASSUME Of(call.ev, "release", k), NEW i \in 1..Len(Handlers), i >= call.next,
                        Handlers[i].key = k, Handlers[i].state = call.ev.state, ~Handlers[i].press, Handlers[i].upper
                 PROVE  FALSE
      BY DEF Lets
    <3>2. Handlers[i].press = (call.ev.type = "press")
      BY <1>4 DEF Of, HandlerSet
    <3>3. i \in call.next..Len(Handlers)
      BY <1>1
    <3> QED
      BY <3>1, <3>2, <3>3 DEF Matches, Catches, Of
  <2>5. KeyOk(k, queue, call.ev, call.next, NoEvent, held, held, user, camera.on, Left)
    BY <1>1, <1>2, <2>1, KeyMeans
  <2>6. KeyOk(k, queue, NoEvent, 0, NoEvent, held, held, user, camera.on, Left)
    <3>1. k \in Left /\ Of(call.ev, "release", k) => ~Lets(camera.on, k, call.ev.state, call.next)
      BY <2>4
    <3> QED
      BY <1>1, <1>2, <2>5, <3>1, PutDown
  <2> QED
    BY <1>1, <2>1, <2>3, <2>6
<1>6. CASE HandleKey
  <2> DEFINE w == Handlers[NextHandler]
  <2>1. /\ NextHandler \in 1..Len(Handlers) /\ NextHandler >= call.next /\ Matches(w, call.ev)
        /\ \A i \in call.next..(NextHandler - 1) : ~Matches(Handlers[i], call.ev)
    BY <1>1, <1>6, NextHandlerFacts DEF HandleKey
  <2>2. /\ call' = [call EXCEPT !.next = NextHandler + 1] /\ UNCHANGED <<got, user>>
        /\ IF Wants(w) THEN Callback(w, call.ev) ELSE UNCHANGED <<camera, mouse, queue, history>>
    BY <1>6 DEF HandleKey
  <2>3. Hand' = call.ev /\ From' = NextHandler + 1
    BY <1>1, <2>2 DEF Hand, From, Taken, At, Calls
  <2>4. \A m : Of(call.ev, "release", m) /\ Lets(camera.on, m, call.ev.state, call.next) /\ ~(w.action = "move" /\ Wants(w))
                  => Lets(camera.on, m, call.ev.state, NextHandler + 1)
    <3> SUFFICES ASSUME NEW m, Of(call.ev, "release", m), ~(w.action = "move" /\ Wants(w)),
                        NEW i \in 1..Len(Handlers), i >= call.next,
                        LET x == Handlers[i] IN
                        /\ x.key = m /\ x.state = call.ev.state /\ ~x.press /\ x.upper /\ x.action = "move"
                        /\ x.guarded => camera.on
                 PROVE  Lets(camera.on, m, call.ev.state, NextHandler + 1)
      BY DEF Lets
    <3>1. Handlers[i].press = (call.ev.type = "press")
      BY <1>4 DEF Of, HandlerSet
    <3>2. Matches(Handlers[i], call.ev)
      BY <3>1 DEF Matches, Catches, Of
    <3>3. i # NextHandler
      BY DEF Wants
    <3>4. i >= NextHandler + 1
      BY <1>1, <2>1, <3>2, <3>3
    <3> QED
      BY <3>4 DEF Lets
  <2>5. /\ k \in steady \ handed /\ camera'.on = camera.on /\ held' = held /\ Seen' = held
        /\ queue' = queue \/ \E x \in Event : queue' = Append(queue, x) /\ x.type = "other"
        /\ k \in Left' => \/ k \in Left /\ (w.action = "move" /\ Wants(w) => k # call.ev.key)
                          \/ Wants(w) /\ w.action = "move" /\ call.ev.type = "press" /\ k = call.ev.key
    <3>1. CASE Wants(w)
      <4>1. Callback(w, call.ev)
        BY <2>2, <3>1
      <4>2. /\ camera'.on = camera.on /\ k \in steady \ handed /\ held' = held
            /\ queue' = queue \/ \E x \in Event : queue' = Append(queue, x) /\ x.type = "other"
            /\ k \in Left' => \/ k \in Left /\ (w.action = "move" => k # call.ev.key)
                              \/ w.action = "move" /\ call.ev.type = "press" /\ k = call.ev.key
        <5> HIDE DEF w
        <5> QED
          BY <1>3, <4>1, CallbackFacts DEF Left
      <4> QED
        BY <1>1, <2>2, <3>1, <4>2, NothingOf DEF Seen
    <3>2. CASE ~Wants(w)
      BY <1>1, <2>2, <3>2, NothingOf DEF history, Left, Seen
    <3> QED
      BY <3>1, <3>2
  <2>6. Wants(w) /\ w.action = "move" /\ call.ev.type = "press" => Lets(camera.on, call.ev.key, call.ev.state, 0)
    <3> SUFFICES ASSUME Wants(w), w.action = "move", call.ev.type = "press"
                 PROVE  Lets(camera.on, call.ev.key, call.ev.state, 0)
      OBVIOUS
    <3>1. w.press /\ w.upper /\ w.key = call.ev.key /\ w.state = call.ev.state /\ (w.guarded => camera.on)
      BY <2>1 DEF Matches, Catches, Wants
    <3>2. PICK j \in 1..Len(Handlers) : Handlers[j] = [w EXCEPT !.press = FALSE]
      BY <2>1, <3>1, MoveAssumption
    <3>3. w \in HandlerSet
      BY <1>4, <2>1
    <3>4. LET x == Handlers[j] IN
          /\ x.key = w.key /\ x.state = w.state /\ x.press = FALSE /\ x.upper = w.upper /\ x.action = w.action
          /\ x.guarded = w.guarded
      BY <3>2, <3>3 DEF HandlerSet
    <3>5. j >= 0
      OBVIOUS
    <3> HIDE DEF w
    <3> QED
      BY <3>1, <3>4, <3>5 DEF Lets
  <2>7. KeyOk(k, queue, call.ev, call.next, NoEvent, held, held, user, camera.on, Left)
    BY <1>1, <1>2, <2>5, KeyMeans
  <2>8. k \in Left' =>
          \/ k \in Left /\ (Of(call.ev, "release", k) /\ Lets(camera.on, k, call.ev.state, call.next)
                               => Lets(camera.on, k, call.ev.state, NextHandler + 1))
          \/ Of(call.ev, "press", k) /\ Lets(camera.on, k, call.ev.state, 0)
    <3>1. Of(call.ev, "release", k) => k = call.ev.key
      BY DEF Of
    <3>2. call.ev.type = "press" /\ k = call.ev.key => Of(call.ev, "press", k)
      BY DEF Of
    <3> HIDE DEF w
    <3> QED
      BY <2>4, <2>5, <2>6, <3>1, <3>2
  <2>9. KeyOk(k, queue, call.ev, NextHandler + 1, NoEvent, held, held, user, camera.on, Left')
    <3>1. PICK m \in Nat : m = NextHandler + 1
      BY <2>1
    <3>2. KeyOk(k, queue, call.ev, m, NoEvent, held, held, user, camera.on, Left')
      <4>1. k \in Left' =>
              \/ k \in Left /\ (Of(call.ev, "release", k) /\ Lets(camera.on, k, call.ev.state, call.next)
                                   => Lets(camera.on, k, call.ev.state, m))
              \/ Of(call.ev, "press", k) /\ Lets(camera.on, k, call.ev.state, 0)
        BY <2>8, <3>1
      <4> QED
        BY <1>1, <1>2, <2>7, <4>1, PassedOn
    <3> QED
      BY <3>1, <3>2
  <2>10. queue' = queue \/ \E e : queue' = Append(queue, e) /\ ~Of(e, "press", k) /\ ~Of(e, "release", k)
    BY <2>5 DEF Of
  <2>11. KeyOk(k, queue', call.ev, NextHandler + 1, NoEvent, held, held, user, camera.on, Left')
    BY <1>2, <2>9, <2>10, Carry
  <2> QED
    BY <1>1, <2>2, <2>3, <2>5, <2>11
<1> QED
  BY <1>5, <1>6

\* A motion is handled, or a call goes on without an event in hand.
LEMMA KeyPassing ==
    ASSUME TypeOK, CallInv, KeyInv, NEW k \in steady' \ handed',
           Asks \/ ExtractDone \/ Count \/ RealNone \/ HandleMotion
    PROVE  KeyOk(k, queue', Hand', From', got', held', Seen', user', camera'.on, Left')
<1>1. k \in steady \ handed /\ UNCHANGED <<camera, stale>>
  <2>1. CASE Asks
    <3>1. PICK class, ask : Enter(class, ask)
      BY <2>1, AsksEnter
    <3> QED
      BY <3>1 DEF Enter
  <2>2. CASE ~Asks
    BY <2>2 DEF ExtractDone, Count, RealNone, HandleMotion, history
  <2> QED
    BY <2>1, <2>2
<1>2. KeyOk(k, queue, Hand, From, got, held, Seen, user, camera.on, Left)
  BY <1>1, KeyMeans
<1>3. queue \in Seq(Event) /\ Left' = Left
  BY <1>1, StateFacts DEF Left
<1>4. CASE Asks
  <2>1. PICK class, ask : Enter(class, ask)
    BY <1>4, AsksEnter
  <2>2. /\ call.at = "idle" /\ call'.at \in {"count", "extract"} /\ queue' = queue /\ user' = user
        /\ got' = NoEvent /\ held' = Seen
    BY <2>1 DEF Enter, At
  <2>3. Hand = NoEvent /\ Hand' = NoEvent /\ From = 0 /\ From' = 0 /\ Seen' = Seen
    BY <2>2, NothingOf DEF Hand, From, Taken, At, Seen
  <2> QED
    BY <1>1, <1>2, <1>3, <2>2, <2>3, NothingOf, Carry
<1>5. CASE ExtractDone \/ Count \/ RealNone
  <2>1. /\ call.at \in {"extract", "count", "wait"} /\ ~At("idle") /\ got = NoEvent
        /\ UNCHANGED <<queue, user, held>> /\ got' = NoEvent
    BY <1>5 DEF ExtractDone, Count, RealNone, At, CallInv, Return, history
  <2>2. call'.at \in {"idle", "wait", "count", "extract"}
    <3>1. call \in Calls
      BY <2>1, CallFacts
    <3>2. \/ call' = Idle
          \/ call' = [call EXCEPT !.at = AfterExtract] /\ AfterExtract \in {"wait", "count"}
          \/ call' = [call EXCEPT !.at = "extract", !.any = FALSE, !.next = Len(queue)]
      BY <1>5 DEF ExtractDone, Count, RealNone, AfterExtract, Return
    <3>3. CASE call' = Idle
      BY <3>3 DEF Idle
    <3>4. CASE call' # Idle
      BY <3>1, <3>2, <3>4 DEF Calls
    <3> QED
      BY <3>3, <3>4
  <2>3. Hand = NoEvent /\ Hand' = NoEvent /\ From = 0 /\ From' = 0 /\ Seen' = Seen
    BY <2>1, <2>2 DEF Hand, From, Taken, At, Seen
  <2> QED
    BY <1>1, <1>2, <1>3, <2>1, <2>3
<1>6. CASE HandleMotion
  <2>1. /\ call.at = "handle" /\ ~At("idle") /\ got' = got /\ held' = held /\ call.ev.type = "motion"
        /\ call' = [call EXCEPT !.at = call.back, !.ev = NoEvent]
    BY <1>6 DEF HandleMotion, At, history
  <2>2. call \in Calls /\ call.back \in {"extract", "wait"} /\ call.ev \in Event \cup {NoEvent}
    BY <2>1, CallFacts DEF CallInv, At
  <2>3. Hand = call.ev /\ Hand' = NoEvent /\ From' = 0 /\ Seen' = Seen
    BY <2>1, <2>2 DEF Hand, From, Taken, At, Calls, Seen
  <2>4. ~Of(Hand, "press", k) /\ ~Of(Hand, "release", k)
    BY <2>1, <2>3 DEF Of
  <2>5. PICK q : /\ q = queue \/ \E e : q = Append(queue, e) /\ ~Of(e, "press", k) /\ ~Of(e, "release", k)
                 /\ q \in Seq(Event)
                 /\ queue' = q \/ \E e : queue' = Append(q, e) /\ ~Of(e, "press", k) /\ ~Of(e, "release", k)
    <3>1. Expose(user.pointer.window) \in Event /\ Expose(user.pointer.window).type = "other"
      BY MadeFacts, StateFacts
    <3>2. \A x : Motion(x).type = "motion"
      BY DEF Motion
    <3>3. PICK q \in {queue, Append(queue, Expose(user.pointer.window))} :
              queue' = q \/ \E x : queue' = Append(q, Motion(x))
      BY <1>6 DEF HandleMotion, Warp, Recentre
    <3> QED
      BY <1>3, <3>1, <3>2, <3>3, AppendType DEF Of
  <2>6. user'.down = user.down /\ user'.state = user.state
    <3>1. user' = user \/ \E x : user' = [user EXCEPT !.pointer = x]
      BY <1>6 DEF HandleMotion, Warp
    <3> QED
      BY <3>1 DEF TypeOK
  <2>7. KeyOk(k, q, Hand, From, got, held, Seen, user, camera.on, Left)
    BY <1>2, <1>3, <2>5, Carry
  <2>8. KeyOk(k, queue', NoEvent, 0, got, held, Seen, user', camera.on, Left)
    BY <2>4, <2>5, <2>6, <2>7, NothingOf, Carry
  <2> QED
    BY <1>1, <1>3, <2>1, <2>3, <2>8
<1> QED
  BY <1>4, <1>5, <1>6

\* The user presses or lets go of a key, this one or another.
LEMMA KeyTyped ==
    ASSUME TypeOK, CallInv, KeyInv, NEW k \in steady' \ handed', NEW m \in Key, Press(m) \/ Release(m)
    PROVE  KeyOk(k, queue', Hand', From', got', held', Seen', user', camera'.on, Left')
<1>1. /\ UNCHANGED <<camera, call, got, held>> /\ Hand' = Hand /\ From' = From /\ Seen' = Seen
      /\ queue \in Seq(Event)
  <2>1. UNCHANGED <<camera, call, got, held>>
    BY DEF Press, Release, history
  <2> QED
    BY <2>1, StateFacts DEF Hand, From, Taken, At, Seen
<1>2. CASE Press(m)
  <2> DEFINE e == KeyEvent("press", m, user.state)
  <2>1. /\ queue' = Append(queue, e) /\ user' = [user EXCEPT !.down = user.down \cup {m}]
        /\ stale' = stale \cup (camera.pressed \cap {m})
        /\ steady' = IF \E x \in Coming \cup {got} : IsKey(x) /\ x.key = m THEN steady \ {m} ELSE steady \cup {m}
        /\ handed' = handed \ {m}
    BY <1>2 DEF Press
  <2>2. user'.down = user.down \cup {m} /\ user'.state = user.state
    BY <2>1 DEF TypeOK
  <2>3. /\ e.type = "press" /\ e.key = m /\ e.state = user.state
        /\ \A x : x # m => ~Of(e, "press", x) /\ ~Of(e, "release", x)
    BY MadeFacts, StateFacts
  <2> HIDE DEF e
  <2>4. CASE k = m
    <3>1. \A x \in Coming \cup {got} : ~Of(x, "press", k) /\ ~Of(x, "release", k)
      BY <2>1, <2>4 DEF Of, IsKey
    <3>2. ~Holds(queue, "press", k) /\ ~Holds(queue, "release", k)
      BY <3>1, HandFacts DEF Holds
    <3>3. ~Of(Hand, "press", k) /\ ~Of(Hand, "release", k)
      BY <3>1, HandFacts, NothingOf DEF Coming
    <3>4. ~Of(got, "release", k) /\ k \in user'.down /\ k \notin Left' /\ Of(e, "press", k) /\ e.state = user'.state
      BY <1>1, <2>1, <2>2, <2>3, <2>4, <3>1 DEF Of, Left
    <3>5. KeyOk(k, Append(queue, e), Hand, From, got, held, Seen, user', camera.on, Left')
      BY <1>1, <3>2, <3>3, <3>4, Pressed
    <3> QED
      BY <1>1, <2>1, <3>5
  <2>5. CASE k # m
    <3>1. k \in steady \ handed
      BY <2>1, <2>5
    <3>2. KeyOk(k, queue, Hand, From, got, held, Seen, user, camera.on, Left)
      BY <3>1, KeyMeans
    <3>3. k \in user'.down <=> k \in user.down
      BY <2>2, <2>5
    <3>4. k \in Left' => k \in Left
      BY <1>1, <2>1 DEF Left
    <3>5. queue' = Append(queue, e) /\ ~Of(e, "press", k) /\ ~Of(e, "release", k)
      BY <2>1, <2>3, <2>5
    <3>6. KeyOk(k, queue', Hand, From, got, held, Seen, user', camera.on, Left')
      BY <1>1, <2>2, <3>2, <3>3, <3>4, <3>5, Carry
    <3> QED
      BY <1>1, <3>6
  <2> QED
    BY <2>4, <2>5
<1>3. CASE Release(m)
  <2> DEFINE e == KeyEvent("release", m, user.state)
  <2>1. /\ queue' = Append(queue, e) /\ user' = [user EXCEPT !.down = user.down \ {m}] /\ m \in user.down
        /\ UNCHANGED history
    BY <1>3 DEF Release
  <2>2. user'.down = user.down \ {m} /\ user'.state = user.state
    BY <2>1 DEF TypeOK
  <2>3. /\ e.type = "release" /\ e.key = m /\ e.state = user.state
        /\ \A x : x # m => ~Of(e, "press", x) /\ ~Of(e, "release", x)
    BY MadeFacts, StateFacts
  <2> HIDE DEF e
  <2>4. KeyOk(k, queue, Hand, From, got, held, Seen, user, camera.on, Left) /\ Left' = Left
    BY <1>1, <2>1, KeyMeans DEF history, Left
  <2>5. CASE k = m
    <3>1. k \in user.down /\ k \notin user'.down /\ Of(e, "release", k)
      BY <2>1, <2>2, <2>3, <2>5 DEF Of
    <3>2. KeyOk(k, Append(queue, e), Hand, From, got, held, Seen, user', camera.on, Left)
      BY <1>1, <2>3, <2>4, <3>1, LetUp
    <3> QED
      BY <1>1, <2>1, <2>4, <3>2
  <2>6. CASE k # m
    <3>1. k \in user'.down <=> k \in user.down
      BY <2>2, <2>6
    <3>2. queue' = Append(queue, e) /\ ~Of(e, "press", k) /\ ~Of(e, "release", k)
      BY <2>1, <2>3, <2>6
    <3>3. KeyOk(k, queue', Hand, From, got, held, Seen, user', camera.on, Left)
      BY <1>1, <2>2, <2>4, <3>1, <3>2, Carry
    <3> QED
      BY <1>1, <2>4, <3>3
  <2> QED
    BY <2>5, <2>6
<1> QED
  BY <1>2, <1>3

\* What else the user, the server and the other thread do is not of a steady key.
LEMMA KeyElsewhere ==
    ASSUME TypeOK, CallInv, KeyInv, NEW k \in steady' \ handed',
           (\E w \in Window : Point(w)) \/ Shift \/ Redraw \/ OtherThread \/ UNCHANGED vars
    PROVE  KeyOk(k, queue', Hand', From', got', held', Seen', user', camera'.on, Left')
<1>1. CASE OtherThread
  <2>1. SwitchCamera(~camera.on) /\ (~camera.on) \in BOOLEAN
    BY <1>1, StateFacts DEF OtherThread
  <2>2. steady' = {}
    BY <2>1, StateFacts, SwitchFacts
  <2> QED
    BY <2>2
<1>2. CASE (\E w \in Window : Point(w)) \/ Shift \/ Redraw \/ UNCHANGED vars
  <2>1. /\ UNCHANGED <<camera, call, got, held, handed, stale>> /\ steady' \subseteq steady
        /\ k \in user.down => user'.state = user.state
        /\ user'.down = user.down
        /\ queue' = queue \/ \E e : queue' = Append(queue, e) /\ e.type \in {"motion", "other"}
    <3>1. ASSUME NEW w \in Window, Point(w)
          PROVE  /\ UNCHANGED <<camera, call, got, held, handed, stale, steady>>
                 /\ user' = [user EXCEPT !.pointer = [window |-> w, place |-> "off"]]
                 /\ \E e : queue' = Append(queue, e) /\ e.type \in {"motion", "other"}
      BY <3>1 DEF Point, history, Motion
    <3>2. CASE Redraw \/ UNCHANGED vars
      BY <3>2 DEF Redraw, vars, history, Expose
    <3>3. CASE Shift
      <4>1. /\ UNCHANGED <<camera, call, got, held, handed, stale, queue>> /\ steady' = steady \ user.down
            /\ \E s : user' = [user EXCEPT !.state = s]
        BY <3>3 DEF Shift
      <4> QED
        BY <4>1 DEF TypeOK
    <3>4. ASSUME NEW w \in Window, Point(w) PROVE user'.down = user.down /\ user'.state = user.state
      BY <3>1, <3>4 DEF TypeOK
    <3> QED
      BY <1>2, <3>1, <3>2, <3>3, <3>4
  <2>2. Hand' = Hand /\ From' = From /\ Seen' = Seen /\ Left' = Left /\ queue \in Seq(Event)
    BY <2>1, StateFacts DEF Hand, From, Taken, At, Seen, Left
  <2>3. queue' = queue \/ \E e : queue' = Append(queue, e) /\ ~Of(e, "press", k) /\ ~Of(e, "release", k)
    BY <2>1 DEF Of
  <2>4. KeyOk(k, queue, Hand, From, got, held, Seen, user, camera.on, Left)
    BY <2>1, KeyMeans
  <2>5. KeyOk(k, queue', Hand, From, got, held, Seen, user', camera.on, Left)
    BY <2>1, <2>2, <2>3, <2>4, Carry
  <2> QED
    BY <2>1, <2>2, <2>5
<1> QED
  BY <1>1, <1>2

\* A step keeps what is said of the steady keys.
LEMMA KeyStep == TypeOK /\ CallInv /\ KeyInv /\ [Next]_vars => KeyInv'
<1> SUFFICES ASSUME TypeOK, CallInv, KeyInv, [Next]_vars, NEW k \in steady' \ handed'
             PROVE  KeyOk(k, queue', Hand', From', got', held', Seen', user', camera'.on, Left')
  BY KeyMeans
<1>1. CASE ExtractTake \/ RealTake \/ Deliver \/ Retry
  BY <1>1, KeyTaking
<1>2. CASE HandleKey \/ HandleEnd
  BY <1>2, KeyHandling
<1>3. CASE Asks \/ ExtractDone \/ Count \/ RealNone \/ HandleMotion
  BY <1>3, KeyPassing
<1>4. ASSUME NEW m \in Key, Press(m) \/ Release(m)
      PROVE  KeyOk(k, queue', Hand', From', got', held', Seen', user', camera'.on, Left')
  BY <1>4, KeyTyped
<1>5. CASE (\E w \in Window : Point(w)) \/ Shift \/ Redraw \/ OtherThread \/ UNCHANGED vars
  BY <1>5, KeyElsewhere
<1> QED
  BY <1>1, <1>2, <1>3, <1>4, <1>5 DEF Next, Inside, Environment
-----------------------------------------------------------------------------
(* Results. *)

\* At the start there is nothing on its way.
LEMMA InitIInv == Init => IInv
<1> SUFFICES ASSUME Init PROVE IInv
  OBVIOUS
<1>1. /\ camera \in [on : BOOLEAN, intercept : {TRUE}, pressed : {{}}]
      /\ mouse = [active |-> FALSE, first |-> TRUE, window |-> NoWindow]
      /\ queue = <<>> /\ call = Idle /\ got = NoEvent
      /\ user = [down |-> {}, state |-> "plain", pointer |-> [window |-> Focus, place |-> "off"]]
      /\ moves = 0 /\ held = {} /\ steady = {} /\ handed = {} /\ promised = 0 /\ stale = {}
  BY DEF Init
<1>2. TypeOK
  <2>1. camera \in [on : BOOLEAN, intercept : BOOLEAN, pressed : SUBSET Key]
    BY <1>1
  <2>2. /\ mouse \in [active : BOOLEAN, first : BOOLEAN, window : Window \cup {NoWindow}] /\ mouse.first
    BY <1>1
  <2>3. user \in [down : SUBSET Key, state : States, pointer : [window : Window, place : Places]]
    BY <1>1, FocusAssumption DEF States, Places
  <2>4. queue \in Seq(Event)
    BY <1>1
  <2> QED
    BY <1>1, <2>1, <2>2, <2>3, <2>4 DEF TypeOK
<1>3. CallInv
  BY <1>1 DEF CallInv, At, Idle
<1>4. KeyInv
  BY <1>1 DEF KeyInv
<1>5. PendingHonest
  <2>1. Number(queue, camera.on, mouse.active) \in Nat /\ promised = 0
    BY <1>1, <1>2, NumberFacts DEF TypeOK
  <2>2. Aside(call, camera.on, mouse.active) \in {0, 1}
    BY DEF Aside
  <2> QED
    BY <2>1, <2>2, PendingMeans
<1> QED
  BY <1>2, <1>3, <1>4, <1>5 DEF IInv

(* The invariant: where a call is and what it holds, what each steady key has on its
   way, and what was announced. *)
THEOREM InputInvariant == Spec => []IInv
<1>1. IInv /\ [Next]_vars => IInv'
  BY TypeStep, CallStep, KeyStep, PendingStep DEF IInv
<1> QED
  BY <1>1, InitIInv, PTL DEF Spec

(* While nothing that event_predicate looks at changes, a press and its release go to
   the same side: no release without its press for the application, and no key that the
   camera holds after its release.  It says nothing of a key of which a function has
   returned a wanted event with 0 since the press (the loops of input.c:290, 430, 477 and 567
   end on it, and libX11's functions return 0): of those the press may go to the camera
   and the release to the application.  If zero is empty, there are none. *)
THEOREM InputPressesPaired == Spec => []PressesPaired
<1>1. IInv => PressesPaired
  <2> SUFFICES ASSUME IInv PROVE PressesPaired
    OBVIOUS
  <2>1. TypeOK /\ KeyInv
    BY DEF IInv
  <2>2. got.type = "release" /\ got.key \in steady \ handed => got.key \in held
    BY <2>1 DEF KeyInv, Ordered, Of
  <2>3. ASSUME NEW k \in ((camera.pressed \ stale) \cap steady) \ handed
        PROVE  k \in user.down \/ \E e \in Coming : e.type = "release" /\ e.key = k
    <3>1. LetGo(k, queue, Hand, From, user, camera.on)
      BY <2>1, <2>3 DEF KeyInv
    <3>2. Of(Hand, "release", k) => Hand \in Coming
      BY <2>1, HandFacts, NothingOf DEF Coming
    <3> QED
      BY <2>1, <3>1, <3>2, HandFacts DEF LetGo, Of
  <2> QED
    BY <2>2, <2>3 DEF PressesPaired
<1> QED
  BY <1>1, InputInvariant, PTL

(* The application does not block on events that XPending or XPeekEvent announced and
   a filter-set then took away. *)
THEOREM InputPendingHonest == Spec => []PendingHonest
<1>1. IInv => PendingHonest
  BY DEF IInv
<1> QED
  BY <1>1, InputInvariant, PTL
=============================================================================
