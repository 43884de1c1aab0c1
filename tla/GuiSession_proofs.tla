------------------------- MODULE GuiSession_proofs -------------------------
(* gldb's main window over several runs, for any number of runs, of the user's actions
   and of breakpoints, and for programs that do what they like.

   The inductive invariant IInv says that the program, its pipe, the worker and the queue
   go together (QueueInv), what the menu offers (MenuInv), what a program says before
   anything else (StartInv), and in which order levels travel (LevelInv).  The last two
   are about the requests and about the responses on their way, in the ring, in the
   worker's hand and in the pipe: they are stated, and first proved, of any two queues,
   for each thing that can happen to these.  Then each action is shown to do one of them. *)
EXTENDS GuiSession, SequenceTheorems, TLAPS

(* What the first element leaves: the other ones, one place earlier. *)
LEMMA TailFacts == ASSUME NEW S, NEW s \in Seq(S), s # <<>>
                   PROVE  /\ Tail(s) \in Seq(S) /\ Len(Tail(s)) = Len(s) - 1 /\ Len(s) \in Nat \ {0}
                          /\ Head(s) = s[1] /\ s[1] \in S
                          /\ DOMAIN s = 1..Len(s) /\ DOMAIN Tail(s) = 1..(Len(s) - 1)
                          /\ \A i \in 1..(Len(s) - 1) : Tail(s)[i] = s[i + 1]
<1>1. Tail(s) \in Seq(S) /\ Len(Tail(s)) = Len(s) - 1 /\ \A i \in 1..Len(Tail(s)) : Tail(s)[i] = s[i + 1]
  BY HeadTailProperties
<1>2. Len(s) \in Nat \ {0} /\ DOMAIN s = 1..Len(s) /\ DOMAIN Tail(s) = 1..Len(Tail(s))
  BY <1>1, EmptySeq, LenProperties
<1>3. Head(s) = s[1] /\ s[1] \in S
  BY <1>2, ElementOfSeq
<1> QED
  BY <1>1, <1>2, <1>3

(* What one more element adds: the others stay where they are. *)
LEMMA AppendFacts == ASSUME NEW S, NEW s \in Seq(S), NEW r \in S
                     PROVE  /\ Append(s, r) \in Seq(S) /\ Len(s) \in Nat /\ Len(Append(s, r)) = Len(s) + 1
                            /\ DOMAIN s = 1..Len(s) /\ DOMAIN Append(s, r) = 1..(Len(s) + 1)
                            /\ \A i \in 1..Len(s) : Append(s, r)[i] = s[i]
                            /\ Append(s, r)[Len(s) + 1] = r
                            /\ s \o <<r>> = Append(s, r)
<1>1. /\ Append(s, r) \in Seq(S) /\ Len(Append(s, r)) = Len(s) + 1
      /\ \A i \in 1..Len(s) : Append(s, r)[i] = s[i]
      /\ Append(s, r)[Len(s) + 1] = r
  BY AppendProperties
<1>2. Len(s) \in Nat /\ DOMAIN s = 1..Len(s) /\ DOMAIN Append(s, r) = 1..(Len(s) + 1)
  BY <1>1, LenProperties
<1> QED
  BY <1>1, <1>2

(* The head of two sequences in a row is the head of the first. *)
LEMMA ConcatHeadTail == ASSUME NEW S, NEW s \in Seq(S), NEW t \in Seq(S), s # <<>>
                        PROVE  s \o t # <<>> /\ Head(s \o t) = Head(s) /\ Tail(s \o t) = Tail(s) \o t
<1> DEFINE c == s \o t
           u == Tail(s)
           d == u \o t
<1>1. /\ c \in Seq(S) /\ Len(c) = Len(s) + Len(t)
      /\ \A i \in 1..Len(s) + Len(t) : c[i] = IF i <= Len(s) THEN s[i] ELSE t[i - Len(s)]
  BY ConcatProperties
<1>2. /\ u \in Seq(S) /\ Len(u) = Len(s) - 1 /\ Len(s) \in Nat \ {0} /\ Head(s) = s[1]
      /\ \A i \in 1..(Len(s) - 1) : u[i] = s[i + 1]
  BY TailFacts
<1>3. /\ d \in Seq(S) /\ Len(d) = Len(u) + Len(t)
      /\ \A i \in 1..Len(u) + Len(t) : d[i] = IF i <= Len(u) THEN u[i] ELSE t[i - Len(u)]
  BY <1>2, ConcatProperties
<1>4. Len(t) \in Nat
  BY LenProperties
<1>5. c # <<>>
  BY ConcatEqualIffEmpty
<1> HIDE DEF c, u, d
<1>6. /\ Tail(c) \in Seq(S) /\ Len(Tail(c)) = Len(c) - 1 /\ Head(c) = c[1]
      /\ \A i \in 1..(Len(c) - 1) : Tail(c)[i] = c[i + 1]
  BY <1>1, <1>5, TailFacts
<1>7. Len(Tail(c)) = Len(d)
  BY <1>1, <1>2, <1>3, <1>4, <1>6
<1>8. ASSUME NEW i \in 1..Len(Tail(c)) PROVE Tail(c)[i] = d[i]
  <2>1. i \in 1..(Len(c) - 1) /\ i + 1 \in 1..Len(s) + Len(t) /\ i \in 1..Len(u) + Len(t)
    BY <1>1, <1>2, <1>4, <1>6
  <2>2. Tail(c)[i] = IF i + 1 <= Len(s) THEN s[i + 1] ELSE t[i + 1 - Len(s)]
    BY <1>1, <1>6, <2>1
  <2>3. d[i] = IF i <= Len(s) - 1 THEN u[i] ELSE t[i - (Len(s) - 1)]
    BY <1>2, <1>3, <2>1
  <2>4. CASE i <= Len(s) - 1
    BY <1>2, <2>1, <2>2, <2>3, <2>4
  <2>5. CASE ~(i <= Len(s) - 1)
    <3>1. i + 1 - Len(s) = i - (Len(s) - 1) /\ ~(i + 1 <= Len(s))
      BY <1>2, <2>1, <2>5
    <3> QED
      BY <2>2, <2>3, <2>5, <3>1
  <2> QED
    BY <2>4, <2>5
<1>9. Tail(c) = d
  BY <1>3, <1>6, <1>7, <1>8, SeqEqual
<1>10. Head(c) = Head(s)
  BY <1>1, <1>2, <1>4, <1>6
<1> QED
  BY <1>5, <1>9, <1>10 DEF c, d, u

(* A sequence is its head and what comes after it. *)
LEMMA HeadThenTail == ASSUME NEW S, NEW s \in Seq(S), s # <<>>
                      PROVE  s = <<Head(s)>> \o Tail(s)
<1> DEFINE h == Head(s)
           t == Tail(s)
           a == <<h>>
           o == a \o t
<1>1. /\ t \in Seq(S) /\ Len(t) = Len(s) - 1 /\ Len(s) \in Nat \ {0} /\ h = s[1] /\ h \in S
      /\ \A i \in 1..(Len(s) - 1) : t[i] = s[i + 1]
  BY TailFacts
<1>2. a \in Seq(S) /\ Len(a) = 1 /\ a[1] = h
  BY <1>1
<1> HIDE DEF h, t, a
<1>3. /\ o \in Seq(S) /\ Len(o) = Len(a) + Len(t)
      /\ \A i \in 1..Len(a) + Len(t) : o[i] = IF i <= Len(a) THEN a[i] ELSE t[i - Len(a)]
  BY <1>1, <1>2, ConcatProperties
<1> HIDE DEF o
<1>4. Len(o) = Len(s) /\ \A i \in 1..Len(o) : o[i] = s[i]
  BY <1>1, <1>2, <1>3
<1> QED
  BY <1>3, <1>4, SeqEqual DEF o, a, h, t

-----------------------------------------------------------------------------
(* What is sent. *)
Codes == {"ans", "error", "running", "break", "state"}
Said == Answer \cup {Null}

(* The fields of a response, by its code. *)
LEMMA AnswerFacts == ASSUME NEW r \in Said
    PROVE  /\ r.code \in Codes \cup {"null", "data"}
           /\ r.code = "null" <=> r = Null
           /\ IsData(r) => r.id \in Nat /\ r.level \in {0, 1} /\ r.good \in BOOLEAN /\ r \in Answer
BY DEF Said, Answer, Null, Codes, IsData, Levels

(* The fields of a request, by its code. *)
LEMMA RequestFacts == ASSUME NEW r \in Request
    PROVE  /\ r.code \in {"set", "run", "cont", "async", "tree", "quit", "data"}
           /\ IsData(r) => r.id \in Nat /\ r.level \in {0, 1}
BY DEF Request, IsData, Levels

(* What the program and gldb write is an answer and a request. *)
LEMMA Written == /\ \A c \in Codes : Plain(c) \in Answer /\ Plain(c).code = c
                 /\ \A c \in {"run", "cont", "async", "tree", "quit"} : Plain(c) \in Request /\ Plain(c).code = c
                 /\ \A k \in BOOLEAN : [code |-> "set", known |-> k] \in Request
                 /\ \A id \in Nat, l \in Levels : [code |-> "data", id |-> id, level |-> l] \in Request
                 /\ \A id \in Nat, l \in Levels, g \in BOOLEAN :
                       [code |-> "data", id |-> id, level |-> l, good |-> g] \in Answer
                 /\ Null \in Said /\ Answer \subseteq Said /\ Null \notin Answer /\ Null.code = "null"
BY DEF Codes, Plain, Answer, Request, Null, Said

\* What the worker has in its hand
Held == IF worker = "holding" THEN <<hand>> ELSE <<>>

(* The responses under way are in the ring, in the worker's hand and in the pipe. *)
LEMMA ResponsesAre == ASSUME TypeOK
    PROVE  /\ ring \in Seq(Said) /\ Held \in Seq(Said) /\ out \in Seq(Said) /\ hand \in Said
           /\ ring \o Held \in Seq(Said)
           /\ Responses = (ring \o Held) \o out /\ Responses \in Seq(Said)
           /\ Len(Responses) \in Nat /\ DOMAIN Responses = 1..Len(Responses)
           /\ \A i \in 1..Len(Responses) : Responses[i] \in Said
<1>1. ring \in Seq(Said) /\ hand \in Said
  BY DEF TypeOK, Said
<1>2. out \in Seq(Said)
  BY DEF TypeOK, Said
<1>3. Held \in Seq(Said)
  <2>1. <<hand>> \in Seq(Said) /\ <<>> \in Seq(Said)
    BY <1>1
  <2> QED
    BY <2>1 DEF Held
<1>4. Responses = (ring \o Held) \o out
  BY DEF Responses, Held
<1>5. ring \o Held \in Seq(Said)
  BY <1>1, <1>3, ConcatProperties
<1>6. Responses \in Seq(Said)
  BY <1>2, <1>4, <1>5, ConcatProperties
<1> QED
  BY <1>1, <1>2, <1>3, <1>4, <1>5, <1>6, LenProperties, ElementOfSeq

(* What a queue holds is of the kind that it is a queue of. *)
LEMMA ElementsIn == ASSUME NEW S, NEW s \in Seq(S) PROVE ToSet(s) \subseteq S
BY LenProperties, ElementOfSeq DEF ToSet

(* What a queue holds is its head and what comes after it. *)
LEMMA ElementsTail == ASSUME NEW S, NEW s \in Seq(S), s # <<>>
                      PROVE  ToSet(s) = {Head(s)} \cup ToSet(Tail(s)) /\ ToSet(s) \subseteq S
<1> DEFINE t == Tail(s)
<1>1. /\ DOMAIN s = 1..Len(s) /\ DOMAIN t = 1..(Len(s) - 1) /\ Len(s) \in Nat \ {0} /\ Head(s) = s[1]
      /\ \A i \in 1..(Len(s) - 1) : t[i] = s[i + 1]
  BY TailFacts
<1> HIDE DEF t
<1>2. ASSUME NEW i \in 1..Len(s) PROVE s[i] \in {Head(s)} \cup ToSet(t)
  <2>1. CASE i = 1
    BY <1>1, <2>1
  <2>2. CASE i # 1
    <3>1. i - 1 \in 1..(Len(s) - 1) /\ t[i - 1] = s[i]
      BY <1>1, <2>2
    <3> QED
      BY <1>1, <3>1 DEF ToSet
  <2> QED
    BY <2>1, <2>2
<1>3. ASSUME NEW i \in 1..(Len(s) - 1) PROVE t[i] \in ToSet(s)
  <2>1. i + 1 \in 1..Len(s) /\ s[i + 1] = t[i]
    BY <1>1
  <2> QED
    BY <1>1, <2>1 DEF ToSet
<1>4. Head(s) \in ToSet(s)
  BY <1>1 DEF ToSet
<1>5. ToSet(s) \subseteq {Head(s)} \cup ToSet(t)
  BY <1>1, <1>2 DEF ToSet
<1>6. ToSet(t) \subseteq ToSet(s)
  BY <1>1, <1>3 DEF ToSet
<1>7. ToSet(s) \subseteq S
  BY <1>1, ElementOfSeq DEF ToSet
<1> QED
  BY <1>4, <1>5, <1>6, <1>7 DEF t

(* One more element is all that a queue gets. *)
LEMMA ElementsAppend == ASSUME NEW S, NEW s \in Seq(S), NEW r \in S
                        PROVE  ToSet(Append(s, r)) = ToSet(s) \cup {r} /\ ToSet(s) \subseteq S
<1> DEFINE t == Append(s, r)
<1>1. /\ DOMAIN s = 1..Len(s) /\ DOMAIN t = 1..(Len(s) + 1) /\ Len(s) \in Nat /\ t[Len(s) + 1] = r
      /\ \A i \in 1..Len(s) : t[i] = s[i]
  BY AppendFacts
<1> HIDE DEF t
<1>2. ASSUME NEW i \in 1..(Len(s) + 1) PROVE t[i] \in ToSet(s) \cup {r}
  <2>1. i = Len(s) + 1 \/ i \in 1..Len(s)
    BY <1>1
  <2> QED
    BY <1>1, <2>1 DEF ToSet
<1>3. ASSUME NEW i \in 1..Len(s) PROVE s[i] \in ToSet(t)
  <2>1. i \in 1..(Len(s) + 1) /\ t[i] = s[i]
    BY <1>1
  <2> QED
    BY <1>1, <2>1 DEF ToSet
<1>4. r \in ToSet(t)
  <2>1. Len(s) + 1 \in 1..(Len(s) + 1)
    BY <1>1
  <2> QED
    BY <1>1, <2>1 DEF ToSet
<1>5. ToSet(t) \subseteq ToSet(s) \cup {r}
  BY <1>1, <1>2 DEF ToSet
<1>6. ToSet(s) \subseteq ToSet(t)
  BY <1>1, <1>3 DEF ToSet
<1>7. ToSet(s) \subseteq S
  BY <1>1, ElementOfSeq DEF ToSet
<1> QED
  BY <1>4, <1>5, <1>6, <1>7 DEF t

(* An empty queue holds nothing, and its levels are in order. *)
LEMMA EmptyFacts == ToSet(<<>>) = {} /\ Ordered(<<>>)
BY DEF ToSet, Ordered

-----------------------------------------------------------------------------
(* The order in which levels travel. *)
Ranked(S) == \A r \in S : IsData(r) => r.id \in Nat /\ r.level \in {0, 1}

(* What comes after the head is in order. *)
LEMMA OrderedTail == ASSUME NEW S, NEW s \in Seq(S), s # <<>>, Ordered(s)
                     PROVE  /\ Ordered(Tail(s))
                            /\ \A r \in ToSet(Tail(s)) : Before(Head(s), r)
<1> DEFINE t == Tail(s)
<1>1. /\ DOMAIN s = 1..Len(s) /\ DOMAIN t = 1..(Len(s) - 1) /\ Len(s) \in Nat \ {0} /\ Head(s) = s[1]
      /\ \A i \in 1..(Len(s) - 1) : t[i] = s[i + 1]
  BY TailFacts
<1> HIDE DEF t
<1>2. \A i, j \in 1..Len(s) : i < j => Before(s[i], s[j])
  BY <1>1 DEF Ordered
<1>3. ASSUME NEW i \in 1..(Len(s) - 1), NEW j \in 1..(Len(s) - 1), i < j PROVE Before(t[i], t[j])
  <2>1. i + 1 \in 1..Len(s) /\ j + 1 \in 1..Len(s) /\ i + 1 < j + 1
    BY <1>1, <1>3
  <2>2. Before(s[i + 1], s[j + 1])
    BY <1>2, <2>1
  <2> QED
    BY <1>1, <2>2
<1>4. ASSUME NEW i \in 1..(Len(s) - 1) PROVE Before(Head(s), t[i])
  <2>1. i + 1 \in 1..Len(s) /\ 1 \in 1..Len(s) /\ 1 < i + 1
    BY <1>1
  <2>2. Before(s[1], s[i + 1])
    BY <1>2, <2>1
  <2> QED
    BY <1>1, <2>2
<1> QED
  BY <1>1, <1>3, <1>4 DEF Ordered, ToSet, t

(* One more element that comes after all others. *)
LEMMA OrderedAppend == ASSUME NEW S, NEW s \in Seq(S), NEW r \in S, Ordered(s), \A q \in ToSet(s) : Before(q, r)
                       PROVE  Ordered(Append(s, r))
<1> DEFINE t == Append(s, r)
<1>1. /\ DOMAIN s = 1..Len(s) /\ DOMAIN t = 1..(Len(s) + 1) /\ Len(s) \in Nat /\ t[Len(s) + 1] = r
      /\ \A i \in 1..Len(s) : t[i] = s[i]
  BY AppendFacts
<1> HIDE DEF t
<1>2. ASSUME NEW i \in 1..(Len(s) + 1), NEW j \in 1..(Len(s) + 1), i < j PROVE Before(t[i], t[j])
  <2>1. i \in 1..Len(s) /\ t[i] = s[i]
    BY <1>1, <1>2
  <2>2. CASE j = Len(s) + 1
    <3>1. s[i] \in ToSet(s)
      BY <1>1, <2>1 DEF ToSet
    <3> QED
      BY <1>1, <2>1, <2>2, <3>1
  <2>3. CASE j # Len(s) + 1
    <3>1. j \in 1..Len(s) /\ t[j] = s[j]
      BY <1>1, <2>3
    <3> QED
      BY <1>1, <1>2, <2>1, <3>1 DEF Ordered
  <2> QED
    BY <2>2, <2>3
<1> QED
  BY <1>1, <1>2 DEF Ordered, t

(* A response without a level comes or goes, and so does a request without one. *)
LEMMA OrderSkips == ASSUME NEW S, NEW T, NEW rs \in Seq(S), NEW qs \in Seq(T), NEW of, NEW n,
                           InOrder(rs, qs, of, n)
    PROVE  /\ \A r \in S : ~IsData(r) => InOrder(Append(rs, r), qs, of, n)
           /\ \A q \in T : ~IsData(q) => InOrder(rs, Append(qs, q), of, n)
           /\ rs # <<>> /\ ~IsData(Head(rs)) => InOrder(Tail(rs), qs, of, n)
           /\ qs # <<>> /\ ~IsData(Head(qs)) => InOrder(rs, Tail(qs), of, n)
<1>1. ASSUME NEW r \in S, ~IsData(r) PROVE InOrder(Append(rs, r), qs, of, n)
  <2>1. Ordered(Append(rs, r))
    BY <1>1, OrderedAppend DEF InOrder, Before
  <2>2. ToSet(Append(rs, r)) = ToSet(rs) \cup {r}
    BY ElementsAppend
  <2>3. \A id : Opens(rs, id) => Opens(Append(rs, r), id)
    BY <2>2 DEF Opens
  <2> QED
    BY <1>1, <2>1, <2>2, <2>3 DEF InOrder, Before, Fits
<1>2. ASSUME NEW q \in T, ~IsData(q) PROVE InOrder(rs, Append(qs, q), of, n)
  <2>1. Ordered(Append(qs, q))
    BY <1>2, OrderedAppend DEF InOrder, Before
  <2>2. ToSet(Append(qs, q)) = ToSet(qs) \cup {q}
    BY ElementsAppend
  <2>3. \A id : Opens(qs, id) => Opens(Append(qs, q), id)
    BY <2>2 DEF Opens
  <2> QED
    BY <1>2, <2>1, <2>2, <2>3 DEF InOrder, Before, Fits
<1>3. ASSUME rs # <<>>, ~IsData(Head(rs)) PROVE InOrder(Tail(rs), qs, of, n)
  <2>1. Ordered(Tail(rs))
    BY <1>3, OrderedTail DEF InOrder
  <2>2. ToSet(rs) = {Head(rs)} \cup ToSet(Tail(rs))
    BY <1>3, ElementsTail
  <2>3. \A id : Opens(rs, id) => Opens(Tail(rs), id)
    BY <1>3, <2>2 DEF Opens
  <2> QED
    BY <1>3, <2>1, <2>2, <2>3 DEF InOrder, Fits
<1>4. ASSUME qs # <<>>, ~IsData(Head(qs)) PROVE InOrder(rs, Tail(qs), of, n)
  <2>1. Ordered(Tail(qs))
    BY <1>4, OrderedTail DEF InOrder
  <2>2. ToSet(qs) = {Head(qs)} \cup ToSet(Tail(qs))
    BY <1>4, ElementsTail
  <2>3. \A id : Opens(qs, id) => Opens(Tail(qs), id)
    BY <1>4, <2>2 DEF Opens
  <2> QED
    BY <1>4, <2>1, <2>2, <2>3 DEF InOrder, Fits
<1> QED
  BY <1>1, <1>2, <1>3, <1>4

(* The requests that are gone when the program ends leave no level without its first
   one: that is ahead of it, hence no request. *)
LEMMA OrderEnds == ASSUME NEW S, NEW T, NEW rs \in Seq(S), NEW qs \in Seq(T), NEW of, NEW n,
                          Ranked(S), Ranked(T), InOrder(rs, qs, of, n)
                   PROVE  InOrder(rs, <<>>, of, n)
<1>1. ASSUME NEW r \in ToSet(rs), IsData(r), r.level = 1 PROVE ~Opens(qs, r.id)
  <2>1. SUFFICES ASSUME NEW q \in ToSet(qs), IsData(q), q.id = r.id, q.level = 0 PROVE FALSE
    BY DEF Opens
  <2>2. Key(r) < Key(q)
    BY <1>1, <2>1 DEF InOrder, Before
  <2>3. r.id \in Nat
    BY <1>1, ElementsIn DEF Ranked
  <2> QED
    BY <1>1, <2>1, <2>2, <2>3 DEF Key
<1> QED
  BY <1>1, EmptyFacts DEF InOrder, Fits

(* The program answers the request for a level: the answer is where the request was. *)
LEMMA OrderAnswers == ASSUME NEW S, NEW T, NEW rs \in Seq(S), NEW qs \in Seq(T), NEW of, NEW n,
                             NEW d \in S, Ranked(S), Ranked(T), InOrder(rs, qs, of, n),
                             qs # <<>>, IsData(Head(qs)), IsData(d), d.id = Head(qs).id, d.level = Head(qs).level
                      PROVE  InOrder(Append(rs, d), Tail(qs), of, n)
<1> DEFINE h == Head(qs)
           rd == Append(rs, d)
           qt == Tail(qs)
<1>1. ToSet(rd) = ToSet(rs) \cup {d} /\ ToSet(qs) = {h} \cup ToSet(qt)
  BY ElementsAppend, ElementsTail
<1>2. \A r : (Before(r, h) <=> Before(r, d)) /\ (Before(h, r) <=> Before(d, r))
  BY DEF Before, Key, IsData
<1>3. Ordered(qt) /\ \A q \in ToSet(qt) : Before(h, q)
  BY OrderedTail DEF InOrder
<1>4. Ordered(rd)
  BY <1>1, <1>2, OrderedAppend DEF InOrder
<1> HIDE DEF h, rd, qt
<1>5. IsData(h) /\ d.id = h.id /\ d.level = h.level
  BY DEF h
<1>6. \A id : Opens(rs, id) \/ Opens(qs, id) => Opens(rd, id) \/ Opens(qt, id)
  <2>1. SUFFICES ASSUME NEW id, NEW r \in ToSet(rs) \cup ToSet(qs), IsData(r), r.id = id, r.level = 0
                 PROVE  Opens(rd, id) \/ Opens(qt, id)
    BY DEF Opens
  <2>2. CASE r \in ToSet(rs) \/ r \in ToSet(qt)
    BY <1>1, <2>1, <2>2 DEF Opens
  <2>3. CASE r = h
    <3>1. d \in ToSet(rd) /\ IsData(d) /\ d.id = id /\ d.level = 0
      BY <1>1, <1>5, <2>1, <2>3
    <3> QED
      BY <3>1 DEF Opens
  <2> QED
    BY <1>1, <2>1, <2>2, <2>3
<1>7. Fits(d, rs, qs, of, n)
  <2>1. Fits(h, rs, qs, of, n)
    BY <1>1 DEF InOrder
  <2> QED
    BY <1>5, <2>1 DEF Fits
<1>8. \A r \in ToSet(rd), q \in ToSet(qt) : Before(r, q)
  BY <1>1, <1>2, <1>3 DEF InOrder
<1>9. ASSUME NEW r \in ToSet(rd) \cup ToSet(qt) PROVE Fits(r, rd, qt, of, n)
  <2>1. Fits(r, rs, qs, of, n)
    BY <1>1, <1>7 DEF InOrder
  <2> QED
    BY <2>1, <1>6 DEF Fits
<1> QED
  BY <1>3, <1>4, <1>8, <1>9 DEF InOrder, rd, qt

(* gldb asks for a texture: its levels come after all that were asked for, the first
   one first.  Without a program that reads them, only the number is gone. *)
LEMMA OrderAsks == ASSUME NEW S, NEW T, NEW rs \in Seq(S), NEW qs \in Seq(T), NEW of \in Nat, NEW n \in Nat,
                          NEW a \in T, NEW b \in T, Ranked(S), Ranked(T), InOrder(rs, qs, of, n),
                          IsData(a), a.id = n, a.level = 0, IsData(b), b.id = n, b.level = 1
                   PROVE  /\ InOrder(rs, qs, of, n + 1)
                          /\ InOrder(rs, Append(Append(qs, a), b), of, n + 1)
<1> DEFINE qa == Append(qs, a)
           qb == Append(qa, b)
<1>1. qa \in Seq(T) /\ qb \in Seq(T)
  BY AppendFacts
<1>2. /\ ToSet(qa) = ToSet(qs) \cup {a} /\ ToSet(qs) \subseteq T /\ ToSet(rs) \subseteq S
      /\ ToSet(qb) = ToSet(qa) \cup {b}
  <2>1. ToSet(qa) = ToSet(qs) \cup {a}
    BY ElementsAppend
  <2> HIDE DEF qa
  <2>2. ToSet(qb) = ToSet(qa) \cup {b}
    BY <1>1, ElementsAppend
  <2> QED
    BY <2>1, <2>2, ElementsIn
<1>3. \A r \in ToSet(rs) \cup ToSet(qs) : IsData(r) => r.id \in Nat /\ r.level \in {0, 1}
  BY <1>2 DEF Ranked
<1>4. \A r \in ToSet(rs) \cup ToSet(qs) : IsData(r) => r.id < n
  BY DEF InOrder, Fits
<1>5. \A r \in ToSet(rs) \cup ToSet(qs) : Before(r, a) /\ Before(r, b)
  BY <1>3, <1>4 DEF Before, Key
<1>6. Before(a, b)
  BY DEF Before, Key
<1>7. Ordered(qa)
  BY <1>5, OrderedAppend DEF InOrder
<1>8. Ordered(qb)
  BY <1>1, <1>2, <1>5, <1>6, <1>7, OrderedAppend
<1> HIDE DEF qa, qb
<1>9. \A r \in ToSet(rs), q \in ToSet(qb) : Before(r, q)
  BY <1>2, <1>5 DEF InOrder
<1>10. \A id : Opens(qs, id) => Opens(qb, id)
  BY <1>2 DEF Opens
<1>11. Opens(qb, n)
  BY <1>2 DEF Opens
<1>12. of < n /\ of < n + 1
  BY DEF InOrder
<1>13. ASSUME NEW r \in ToSet(rs) \cup ToSet(qs) PROVE Fits(r, rs, qb, of, n + 1) /\ Fits(r, rs, qs, of, n + 1)
  <2>1. Fits(r, rs, qs, of, n)
    BY DEF InOrder
  <2>2. IsData(r) => r.id < n + 1
    BY <1>3, <1>4
  <2> QED
    BY <1>10, <2>1, <2>2 DEF Fits
<1>14. Fits(a, rs, qb, of, n + 1) /\ Fits(b, rs, qb, of, n + 1)
  BY <1>11, <1>12 DEF Fits
<1>15. InOrder(rs, qs, of, n + 1)
  BY <1>12, <1>13 DEF InOrder
<1>16. InOrder(rs, qb, of, n + 1)
  BY <1>2, <1>8, <1>9, <1>12, <1>13, <1>14 DEF InOrder
<1> QED
  BY <1>15, <1>16 DEF qa, qb

(* A level is shown.  A first one opens the next image; one that is not the first is of
   the image being put together, and the last level closes it. *)
LEMMA OrderShows == ASSUME NEW S, NEW T, NEW rs \in Seq(S), NEW qs \in Seq(T), NEW of \in Nat, NEW n \in Nat,
                           Ranked(S), Ranked(T), InOrder(rs, qs, of, n), rs # <<>>, IsData(Head(rs))
                    PROVE  /\ Head(rs).level = 0 => InOrder(Tail(rs), qs, Head(rs).id, n)
                           /\ Head(rs).level = 1 => Head(rs).id = of /\ InOrder(Tail(rs), qs, 0, n)
<1> DEFINE h == Head(rs)
           rt == Tail(rs)
<1>1. ToSet(rs) = {h} \cup ToSet(rt) /\ ToSet(rs) \subseteq S /\ ToSet(qs) \subseteq T
  BY ElementsTail, ElementsIn
<1>2. Ordered(rt) /\ \A r \in ToSet(rt) : Before(h, r)
  BY OrderedTail DEF InOrder
<1> HIDE DEF h, rt
<1>3. IsData(h)
  BY DEF h
<1>4. \A q \in ToSet(qs) : Before(h, q)
  BY <1>1 DEF InOrder
<1>5. /\ h.id \in Nat /\ h.level \in {0, 1}
      /\ \A r \in ToSet(rt) \cup ToSet(qs) : IsData(r) => r.id \in Nat /\ r.level \in {0, 1}
  BY <1>1, <1>3 DEF Ranked
<1>6. \A r \in ToSet(rt) \cup ToSet(qs) : IsData(r) => 2 * h.id + h.level < 2 * r.id + r.level
  BY <1>2, <1>3, <1>4 DEF Before, Key
<1>7. /\ of <= h.id /\ h.id < n /\ (h.level = 0 => h.id # of)
      /\ h.level = 1 => h.id = of \/ Opens(rs, h.id) \/ Opens(qs, h.id)
  BY <1>1, <1>3 DEF InOrder, Fits
<1>8. \A id : Opens(rs, id) <=> (h.id = id /\ h.level = 0) \/ Opens(rt, id)
  BY <1>1, <1>3 DEF Opens
<1>9. ASSUME h.level = 1 PROVE h.id = of
  <2>1. SUFFICES ASSUME NEW r \in ToSet(rt) \cup ToSet(qs), IsData(r), r.id = h.id, r.level = 0 PROVE FALSE
    BY <1>7, <1>8, <1>9 DEF Opens
  <2>2. 2 * h.id + h.level < 2 * r.id + r.level
    BY <1>6, <2>1
  <2> QED
    BY <1>5, <1>9, <2>1, <2>2
<1>10. ASSUME NEW r \in ToSet(rt) \cup ToSet(qs), IsData(r)
       PROVE  /\ r.id < n /\ of <= h.id
              /\ r.level = 1 => r.id = of \/ (h.id = r.id /\ h.level = 0) \/ Opens(rt, r.id) \/ Opens(qs, r.id)
              /\ h.level = 0 => h.id <= r.id /\ (r.level = 0 => r.id # h.id)
              /\ h.level = 1 => h.id < r.id
  <2>1. Fits(r, rs, qs, of, n)
    BY <1>1 DEF InOrder
  <2>2. 2 * h.id + h.level < 2 * r.id + r.level
    BY <1>6, <1>10
  <2>3. r.id \in Nat /\ r.level \in {0, 1}
    BY <1>5, <1>10
  <2>4. h.level = 0 => h.id <= r.id /\ (r.level = 0 => r.id # h.id)
    <3>1. h.level = 0 => 2 * h.id < 2 * r.id + r.level
      BY <1>5, <2>2
    <3> QED
      BY <1>5, <2>3, <3>1
  <2>5. h.level = 1 => h.id < r.id
    <3>1. h.level = 1 => 2 * h.id + 1 < 2 * r.id + r.level
      BY <2>2
    <3> QED
      BY <1>5, <2>3, <3>1
  <2> QED
    BY <1>7, <1>8, <1>10, <2>1, <2>4, <2>5 DEF Fits
<1>11. \A r \in ToSet(rt), q \in ToSet(qs) : Before(r, q)
  BY <1>1 DEF InOrder
<1>12. ASSUME h.level = 0 PROVE InOrder(rt, qs, h.id, n)
  <2>1. ASSUME NEW r \in ToSet(rt) \cup ToSet(qs), IsData(r)
        PROVE  /\ h.id <= r.id /\ r.id < n /\ (r.level = 0 => r.id # h.id)
               /\ r.level = 1 => r.id = h.id \/ Opens(rt, r.id) \/ Opens(qs, r.id)
    <3>1. of < h.id
      BY <1>5, <1>7, <1>12
    <3>2. r.id \in Nat /\ h.id <= r.id
      BY <1>5, <1>10, <1>12, <2>1
    <3>3. r.id # of
      BY <1>5, <3>1, <3>2
    <3> QED
      BY <1>10, <1>12, <2>1, <3>3
  <2>2. \A r \in ToSet(rt) \cup ToSet(qs) : Fits(r, rt, qs, h.id, n)
    BY <2>1 DEF Fits
  <2> QED
    BY <1>2, <1>7, <1>11, <2>2 DEF InOrder
<1>13. ASSUME h.level = 1 PROVE InOrder(rt, qs, 0, n)
  <2>1. ASSUME NEW r \in ToSet(rt) \cup ToSet(qs), IsData(r)
        PROVE  /\ 0 <= r.id /\ r.id < n /\ r.id # 0
               /\ r.level = 1 => Opens(rt, r.id) \/ Opens(qs, r.id)
    <3>1. h.id < r.id /\ r.id \in Nat
      BY <1>5, <1>10, <1>13, <2>1
    <3>2. r.id # 0 /\ 0 <= r.id /\ r.id # of
      BY <1>5, <1>9, <1>13, <3>1
    <3> QED
      BY <1>10, <1>13, <2>1, <3>2
  <2>2. \A r \in ToSet(rt) \cup ToSet(qs) : Fits(r, rt, qs, 0, n)
    BY <2>1 DEF Fits
  <2>3. 0 < n
    BY <1>5, <1>7
  <2> QED
    BY <1>2, <1>11, <2>2, <2>3 DEF InOrder
<1> QED
  BY <1>9, <1>12, <1>13 DEF h, rt

-----------------------------------------------------------------------------
(* The start of a program. *)

(* One more response: a break needs a program that has said that it runs, and so does
   a program that is to run or to be stopped, unless it says so now. *)
LEMMA StartAppends == ASSUME NEW S, NEW rs \in Seq(S), NEW qs, NEW p, NEW r \in S, NEW p2, Starting(rs, qs, p),
                             \/ r.code = "running" \/ p \in {"running", "stopped"}
                             \/ r.code # "break" /\ p2 \notin {"running", "stopped"}
                      PROVE  Starting(Append(rs, r), qs, p2)
<1> DEFINE t == Append(rs, r)
<1>1. /\ DOMAIN rs = 1..Len(rs) /\ DOMAIN t = 1..(Len(rs) + 1) /\ Len(rs) \in Nat /\ t[Len(rs) + 1] = r
      /\ \A i \in 1..Len(rs) : t[i] = rs[i]
  BY AppendFacts
<1>2. ToSet(t) = ToSet(rs) \cup {r}
  BY ElementsAppend
<1> HIDE DEF t
<1>3. p2 \in {"running", "stopped"} => \E q \in ToSet(t) : q.code = "running"
  BY <1>2 DEF Starting
<1>4. ASSUME NEW i \in 1..(Len(rs) + 1), t[i].code = "break"
      PROVE  \E j \in 1..(Len(rs) + 1) : j < i /\ t[j].code = "running"
  <2>1. CASE i \in 1..Len(rs)
    <3>1. PICK j \in 1..Len(rs) : j < i /\ rs[j].code = "running"
      BY <1>1, <1>4, <2>1 DEF Starting
    <3>2. j \in 1..(Len(rs) + 1) /\ t[j] = rs[j]
      BY <1>1
    <3> QED
      BY <3>1, <3>2
  <2>2. CASE i = Len(rs) + 1
    <3>1. r.code = "break" /\ r.code # "running"
      BY <1>1, <1>4, <2>2
    <3>2. \E q \in ToSet(rs) : q.code = "running"
      BY <3>1 DEF Starting
    <3>3. PICK j \in 1..Len(rs) : rs[j].code = "running"
      BY <1>1, <3>2 DEF ToSet
    <3>4. j \in 1..(Len(rs) + 1) /\ t[j] = rs[j] /\ j < i
      BY <1>1, <2>2
    <3> QED
      BY <3>3, <3>4
  <2> QED
    BY <1>1, <2>1, <2>2
<1> QED
  BY <1>1, <1>3, <1>4 DEF Starting, t

(* A request is read, or all are gone with the program. *)
LEMMA StartTakes == ASSUME NEW S, NEW T, NEW rs \in Seq(S), NEW qs \in Seq(T), NEW p, Starting(rs, qs, p)
                    PROVE  /\ qs # <<>> => Starting(rs, Tail(qs), p) /\ Head(qs).code \in {"set", "run"}
                           /\ Starting(rs, <<>>, "exited")
<1>1. ASSUME qs # <<>> PROVE Starting(rs, Tail(qs), p) /\ Head(qs).code \in {"set", "run"}
  <2>1. ToSet(qs) = {Head(qs)} \cup ToSet(Tail(qs))
    BY <1>1, ElementsTail
  <2> QED
    BY <2>1 DEF Starting
<1> QED
  BY <1>1, EmptyFacts DEF Starting

(* The first response is not of a program that stopped; unless it is of one that runs,
   the others are as before. *)
LEMMA StartTail == ASSUME NEW S, NEW rs \in Seq(S), NEW qs, NEW p, Starting(rs, qs, p), rs # <<>>
                   PROVE  /\ Head(rs).code # "break"
                          /\ Head(rs).code # "running" => Starting(Tail(rs), qs, p)
<1> DEFINE t == Tail(rs)
<1>1. /\ DOMAIN rs = 1..Len(rs) /\ DOMAIN t = 1..(Len(rs) - 1) /\ Len(rs) \in Nat \ {0} /\ Head(rs) = rs[1]
      /\ \A i \in 1..(Len(rs) - 1) : t[i] = rs[i + 1]
  BY TailFacts
<1>2. ToSet(rs) = {Head(rs)} \cup ToSet(t)
  BY ElementsTail
<1> HIDE DEF t
<1>3. Head(rs).code # "break"
  <2>1. SUFFICES ASSUME rs[1].code = "break" PROVE FALSE
    BY <1>1
  <2>2. 1 \in 1..Len(rs)
    BY <1>1
  <2>3. PICK j \in 1..Len(rs) : j < 1
    BY <1>1, <2>1, <2>2 DEF Starting
  <2> QED
    BY <1>1, <2>3
<1>4. ASSUME Head(rs).code # "running" PROVE Starting(t, qs, p)
  <2>1. p \in {"running", "stopped"} => \E r \in ToSet(t) : r.code = "running"
    BY <1>2, <1>4 DEF Starting
  <2>2. ASSUME NEW i \in 1..(Len(rs) - 1), t[i].code = "break"
        PROVE  \E j \in 1..(Len(rs) - 1) : j < i /\ t[j].code = "running"
    <3>1. i + 1 \in 1..Len(rs) /\ rs[i + 1].code = "break"
      BY <1>1, <2>2
    <3>2. PICK j \in 1..Len(rs) : j < i + 1 /\ rs[j].code = "running"
      BY <1>1, <3>1 DEF Starting
    <3>3. j # 1
      BY <1>1, <1>4, <3>2
    <3>4. j - 1 \in 1..(Len(rs) - 1) /\ j - 1 < i /\ t[j - 1] = rs[j]
      <4>1. j - 1 \in 1..(Len(rs) - 1) /\ j - 1 < i /\ (j - 1) + 1 = j
        BY <1>1, <3>2, <3>3
      <4> QED
        BY <1>1, <4>1
    <3> QED
      BY <3>2, <3>4
  <2> QED
    BY <1>1, <2>1, <2>2 DEF Starting
<1> QED
  BY <1>3, <1>4 DEF t

-----------------------------------------------------------------------------
(* How the responses travel. *)

(* What the program writes comes last. *)
LEMMA OutAppends == ASSUME TypeOK, NEW r \in Answer, out' = Append(out, r), UNCHANGED <<worker, hand, ring>>
                    PROVE  Responses' = Append(Responses, r)
<1> DEFINE c == ring \o Held
<1>1. c \in Seq(Said) /\ out \in Seq(Said) /\ r \in Said /\ Responses = c \o out /\ Responses \in Seq(Said)
  BY ResponsesAre, Written
<1>2. Responses' = c \o Append(out, r)
  BY DEF Responses, Held
<1> HIDE DEF c
<1>3. Append(out, r) = out \o <<r>> /\ <<r>> \in Seq(Said)
  BY <1>1, AppendFacts
<1>4. c \o (out \o <<r>>) = (c \o out) \o <<r>>
  BY <1>1, <1>3, ConcatAssociative
<1>5. Responses \o <<r>> = Append(Responses, r)
  BY <1>1, AppendFacts
<1> QED
  BY <1>1, <1>2, <1>3, <1>4, <1>5

(* The worker hands on what there is, and NULL after it. *)
LEMMA WorkerMoves == ASSUME TypeOK, WorkerNext
                     PROVE  Responses' = Responses \/ Responses' = Append(Responses, Null)
<1>1. /\ ring \in Seq(Said) /\ out \in Seq(Said) /\ hand \in Said /\ Responses = (ring \o Held) \o out
      /\ Null \in Said
  BY ResponsesAre, Written
<1>2. ring \o <<>> = ring
  BY <1>1, ConcatEmptySeq
<1>3. CASE WorkerReads /\ out # <<>>
  <2>1. out = <<Head(out)>> \o Tail(out) /\ Head(out) \in Said /\ Tail(out) \in Seq(Said)
    BY <1>1, <1>3, HeadThenTail, TailFacts
  <2>2. Responses = ring \o out
    BY <1>1, <1>2, <1>3 DEF WorkerReads, Held
  <2>3. Responses' = (ring \o <<Head(out)>>) \o Tail(out)
    BY <1>3 DEF WorkerReads, Responses
  <2>4. <<Head(out)>> \in Seq(Said)
    BY <2>1
  <2>5. (ring \o <<Head(out)>>) \o Tail(out) = ring \o (<<Head(out)>> \o Tail(out))
    BY <1>1, <2>1, <2>4, ConcatAssociative
  <2> QED
    BY <2>1, <2>2, <2>3, <2>5
<1>4. CASE WorkerReads /\ out = <<>>
  <2>1. Responses = ring
    BY <1>1, <1>2, <1>4 DEF WorkerReads, Held
  <2>2. Responses' = (ring \o <<Null>>) \o <<>>
    BY <1>4 DEF WorkerReads, Responses
  <2>3. ring \o <<Null>> = Append(ring, Null) /\ Append(ring, Null) \in Seq(Said)
    BY <1>1, AppendFacts
  <2>4. Append(ring, Null) \o <<>> = Append(ring, Null)
    BY <2>3, ConcatEmptySeq
  <2> QED
    BY <2>1, <2>2, <2>3, <2>4
<1>5. CASE WorkerStores
  <2>1. Responses = (ring \o <<hand>>) \o out
    BY <1>1, <1>5 DEF WorkerStores, Held
  <2>2. Append(ring, hand) = ring \o <<hand>> /\ Append(ring, hand) \in Seq(Said)
    BY <1>1, AppendFacts
  <2>3. Responses' = (Append(ring, hand) \o <<>>) \o out
    BY <1>5 DEF WorkerStores, Responses
  <2>4. Append(ring, hand) \o <<>> = Append(ring, hand)
    BY <2>2, ConcatEmptySeq
  <2> QED
    BY <2>1, <2>2, <2>3, <2>4
<1> QED
  BY <1>3, <1>4, <1>5 DEF WorkerNext

(* The main loop takes the first response. *)
LEMMA LoopTakes == ASSUME TypeOK, ring # <<>>, ring' = Tail(ring), UNCHANGED <<worker, hand, out>>
                   PROVE  Responses # <<>> /\ Responses' = Tail(Responses) /\ Head(Responses) = Head(ring)
<1> DEFINE h == Held
           c == ring \o h
<1>1. /\ ring \in Seq(Said) /\ h \in Seq(Said) /\ out \in Seq(Said) /\ c \in Seq(Said)
      /\ Responses = c \o out
  BY ResponsesAre
<1>2. Responses' = (Tail(ring) \o h) \o out
  BY DEF Responses, Held
<1> HIDE DEF h
<1>3. c # <<>> /\ Head(c) = Head(ring) /\ Tail(c) = Tail(ring) \o h
  BY <1>1, ConcatHeadTail
<1> HIDE DEF c
<1>4. c \o out # <<>> /\ Head(c \o out) = Head(c) /\ Tail(c \o out) = Tail(c) \o out
  <2>1. c \in Seq(Said) /\ out \in Seq(Said) /\ c # <<>>
    BY <1>1, <1>3
  <2> QED
    BY <2>1, ConcatHeadTail
<1> QED
  BY <1>1, <1>2, <1>3, <1>4

(* Without a queue there are no responses. *)
LEMMA NoResponses == ASSUME TypeOK, QueueInv, ~queue PROVE Responses = <<>>
<1>1. ring = <<>> /\ out = <<>> /\ worker = "none"
  BY DEF QueueInv, TypeOK
<1> QED
  BY <1>1 DEF Responses

(* Requests and responses have the levels they should. *)
LEMMA RankedAll == Ranked(Said) /\ Ranked(Request)
BY AnswerFacts, RequestFacts DEF Ranked

(* What is in the queues is what may be in them. *)
LEMMA QueuesAre == ASSUME TypeOK
    PROVE  /\ Responses \in Seq(Said) /\ reqs \in Seq(Request) /\ out \in Seq(Answer)
           /\ progressive.of \in Nat /\ seq \in Nat
           /\ reqs # <<>> => Head(reqs) \in Request /\ Tail(reqs) \in Seq(Request)
BY ResponsesAre, TailFacts DEF TypeOK, Image

-----------------------------------------------------------------------------
(* The program. *)

(* A request without a level is read. *)
Took == reqs # <<>> /\ ~IsData(Head(reqs)) /\ reqs' = Tail(reqs)

(* What the program says may be said before it has said that it runs. *)
MaySay(r) == \/ r.code = "running" \/ prog \in {"running", "stopped"}
             \/ r.code # "break" /\ prog' = prog
             \/ reqs # <<>> /\ Head(reqs).code \notin {"set", "run"}

(* The kinds of thing a program does to the requests and the responses: it ends, it says
   something, it reads without an answer, it answers with a level. *)
GoesDown == prog' = "exited" /\ reqs' = <<>> /\ out' = out
Speaks == \E r \in Answer : ~IsData(r) /\ out' = Append(out, r) /\ (reqs' = reqs \/ Took) /\ MaySay(r)
Reads == Took /\ out' = out /\ Head(reqs).code \notin {"set", "run"}
SendsLevel == /\ reqs # <<>> /\ IsData(Head(reqs)) /\ reqs' = Tail(reqs)
              /\ \E d \in Answer : /\ IsData(d) /\ d.id = Head(reqs).id /\ d.level = Head(reqs).level
                                   /\ out' = Append(out, d)

(* Each of the program's actions is of one of these kinds. *)
LEMMA ProgramKinds == ASSUME TypeOK, QueueInv, ProgramNext
                      PROVE  Outside' = Outside /\ (GoesDown \/ Speaks \/ Reads \/ SendsLevel)
<1>1. /\ \A c \in Codes : Plain(c) \in Answer /\ Plain(c).code = c
      /\ \A id \in Nat, l \in Levels, g \in BOOLEAN :
            [code |-> "data", id |-> id, level |-> l, good |-> g] \in Answer
  BY Written
<1>2. CASE ProgramSets
  <2>1. PICK c \in {"ans", "error"} : out' = Append(out, Plain(c))
    BY <1>2 DEF ProgramSets, Answers
  <2>2. Plain(c) \in Answer /\ Plain(c).code = c /\ ~IsData(Plain(c))
    BY <1>1, <2>1 DEF Codes, IsData
  <2>3. Took /\ prog' = prog
    BY <1>2 DEF ProgramSets, Takes, Took, IsData, program
  <2>4. MaySay(Plain(c))
    BY <2>1, <2>2, <2>3 DEF MaySay
  <2> QED
    BY <1>2, <2>1, <2>2, <2>3, <2>4 DEF ProgramSets, Speaks
<1>3. CASE ProgramStarts
  <2>1. Plain("running") \in Answer /\ ~IsData(Plain("running")) /\ MaySay(Plain("running"))
    BY <1>1 DEF Codes, IsData, MaySay
  <2> QED
    BY <1>3, <2>1 DEF ProgramStarts, Takes, Answers, Took, IsData, Speaks
<1>4. CASE ProgramContinues
  BY <1>4 DEF ProgramContinues, Takes, Took, IsData, Reads
<1>5. CASE ProgramBreaks
  <2>1. Plain("break") \in Answer /\ ~IsData(Plain("break")) /\ MaySay(Plain("break"))
    BY <1>1, <1>5 DEF Codes, IsData, MaySay, ProgramBreaks
  <2> QED
    BY <1>5, <2>1 DEF ProgramBreaks, Answers, Speaks
<1>6. CASE ProgramAsync
  <2>1. Took /\ Head(reqs).code \notin {"set", "run"}
    BY <1>6 DEF ProgramAsync, Takes, Took, IsData
  <2>2. Plain("break") \in Answer /\ ~IsData(Plain("break")) /\ MaySay(Plain("break"))
    BY <1>1, <2>1 DEF Codes, IsData, MaySay, Took
  <2>3. Speaks \/ Reads
    BY <1>6, <2>1, <2>2 DEF ProgramAsync, Answers, Speaks, Reads
  <2> QED
    BY <1>6, <2>3 DEF ProgramAsync
<1>7. CASE ProgramTree
  <2>1. Took /\ Head(reqs).code \notin {"set", "run"}
    BY <1>7 DEF ProgramTree, Takes, Took, IsData
  <2>2. PICK c \in {"state", "error"} : out' = Append(out, Plain(c))
    BY <1>7 DEF ProgramTree, Answers
  <2>3. Plain(c) \in Answer /\ ~IsData(Plain(c)) /\ MaySay(Plain(c))
    BY <1>1, <2>1, <2>2 DEF Codes, IsData, MaySay, Took
  <2> QED
    BY <1>7, <2>1, <2>2, <2>3 DEF ProgramTree, Speaks
<1>8. CASE ProgramData
  <2>1. reqs # <<>> /\ IsData(Head(reqs)) /\ reqs' = Tail(reqs)
    BY <1>8 DEF ProgramData, Takes, IsData
  <2>2. Head(reqs).id \in Nat /\ Head(reqs).level \in Levels
    BY <2>1, QueuesAre, RequestFacts DEF Levels
  <2>3. PICK g \in BOOLEAN : out' = Append(out, [code |-> "data", id |-> Head(reqs).id,
                                               level |-> Head(reqs).level, good |-> g])
    BY <1>8 DEF ProgramData, Answers
  <2>4. SendsLevel
    BY <1>1, <2>1, <2>2, <2>3 DEF SendsLevel, IsData
  <2> QED
    BY <1>8, <2>4 DEF ProgramData
<1>9. CASE ProgramQuits \/ ProgramDies
  BY <1>9 DEF ProgramQuits, ProgramDies, Ends, GoesDown
<1>10. CASE LastHolderEnds
  BY <1>10 DEF LastHolderEnds, GoesDown, QueueInv
<1> QED
  BY <1>2, <1>3, <1>4, <1>5, <1>6, <1>7, <1>8, <1>9, <1>10, ProgramNext DEF ProgramNext

(* The program leaves everything of its type, and the pipe goes with it. *)
LEMMA ProgramQueue == ASSUME TypeOK, QueueInv, ProgramNext
                      PROVE  TypeOK' /\ QueueInv'
<1>1. Outside' = Outside /\ (GoesDown \/ Speaks \/ Reads \/ SendsLevel)
  BY ProgramKinds
<1>2. UNCHANGED <<work, gldb, nest, joining, session, pane, clicks, seq, run, local>>
  BY <1>1 DEF ProgramNext, ProgramSets, ProgramStarts, ProgramContinues, ProgramBreaks, ProgramAsync, ProgramTree,
              ProgramData, ProgramQuits, ProgramDies, LastHolderEnds, Ends, Outside, program
<1>3. out' \in Seq(Answer)
  <2>1. out' = out \/ \E r \in Answer : out' = Append(out, r)
    BY <1>1 DEF GoesDown, Speaks, Reads, SendsLevel
  <2>2. out \in Seq(Answer) /\ \A r \in Answer : Append(out, r) \in Seq(Answer)
    BY QueuesAre, AppendFacts
  <2> QED
    BY <2>1, <2>2
<1>4. reqs' \in Seq(Request)
  <2>1. reqs' = <<>> \/ reqs' = reqs \/ (reqs # <<>> /\ reqs' = Tail(reqs))
    BY <1>1 DEF GoesDown, Speaks, Reads, SendsLevel, Took
  <2>2. <<>> \in Seq(Request) /\ reqs \in Seq(Request) /\ (reqs # <<>> => Tail(reqs) \in Seq(Request))
    BY QueuesAre
  <2> QED
    BY <2>1, <2>2
<1>5. /\ prog # "none" /\ prog' \in {"loading", "running", "stopped", "exited"} /\ open' \in BOOLEAN /\ zombies' \subseteq Nat
      /\ prog' # "exited" => open' = open /\ prog # "exited"
      /\ prog' = "exited" => reqs' = <<>>
      /\ open' => open
  BY DEF ProgramNext, ProgramSets, ProgramStarts, ProgramContinues, ProgramBreaks, ProgramAsync, ProgramTree,
         ProgramData, ProgramQuits, ProgramDies, LastHolderEnds, Ends, program, Takes, TypeOK, QueueInv
<1>6. TypeOK'
  BY <1>2, <1>3, <1>4, <1>5 DEF TypeOK, work, session, pane
<1>7. QueueInv'
  <2>1. UNCHANGED <<worker, hand, ring, queue, lib, status, joining, run>>
    BY <1>2 DEF work, session
  <2>2. ~queue => prog \in {"none", "exited"} /\ ~Speaks /\ ~SendsLevel /\ out' = out
    <3>1. SUFFICES ASSUME ~queue PROVE prog = "exited" /\ out' = out
      BY <1>1, <1>5, AppendFacts, QueuesAre DEF GoesDown, Speaks, Reads, SendsLevel, QueueInv
    <3>2. prog = "exited" /\ reqs = <<>>
      BY <1>5, <3>1 DEF QueueInv
    <3> QED
      BY <3>2 DEF ProgramNext, ProgramSets, ProgramStarts, ProgramContinues, ProgramBreaks, ProgramAsync, ProgramTree,
         ProgramData, ProgramQuits, ProgramDies, LastHolderEnds, Ends, Takes
  <2> QED
    BY <1>5, <2>1, <2>2 DEF QueueInv
<1> QED
  BY <1>6, <1>7

(* The program leaves levels in order and says that it runs before it says more. *)
LEMMA ProgramKeeps == ASSUME IInv, ProgramNext
                      PROVE  IInv'
<1>1. Outside' = Outside /\ (GoesDown \/ Speaks \/ Reads \/ SendsLevel)
  BY ProgramKinds DEF IInv
<1>2. TypeOK' /\ QueueInv'
  BY ProgramQueue DEF IInv
<1>3. MenuInv' /\ ImageWhole'
  BY <1>1 DEF IInv, MenuInv, ImageWhole, Outside, session, pane
<1>4. /\ Responses \in Seq(Said) /\ reqs \in Seq(Request)
      /\ progressive.of \in Nat /\ seq \in Nat /\ TypeOK
      /\ UNCHANGED <<worker, hand, ring, progressive, seq, status>>
  BY <1>1, QueuesAre DEF IInv, Outside, work, session, pane
<1>5. InOrder(Responses, reqs, progressive.of, seq)
  BY DEF IInv, LevelInv
<1>6. status' = "started" => Starting(Responses, reqs, prog)
  BY <1>4 DEF IInv, StartInv
<1>7. CASE GoesDown
  <2>1. Responses' = Responses
    BY <1>4, <1>7 DEF GoesDown, Responses
  <2>2. InOrder(Responses, <<>>, progressive.of, seq)
    BY <1>4, <1>5, OrderEnds, RankedAll
  <2>3. status' = "started" => Starting(Responses, <<>>, "exited")
    BY <1>4, <1>6, StartTakes
  <2>4. LevelInv'
    BY <1>4, <1>7, <2>1, <2>2 DEF GoesDown, LevelInv
  <2>5. StartInv'
    BY <1>7, <2>1, <2>3 DEF GoesDown, StartInv
  <2> QED
    BY <1>2, <1>3, <2>4, <2>5 DEF IInv
<1>8. CASE Speaks
  <2>1. PICK r \in Answer : ~IsData(r) /\ out' = Append(out, r) /\ (reqs' = reqs \/ Took) /\ MaySay(r)
    BY <1>8 DEF Speaks
  <2>2. Responses' = Append(Responses, r) /\ r \in Said /\ Responses' \in Seq(Said)
    <3>1. Responses' = Append(Responses, r) /\ r \in Said
      BY <1>4, <2>1, OutAppends, Written
    <3>2. Append(Responses, r) \in Seq(Said)
      BY <1>4, <3>1, AppendFacts
    <3> QED
      BY <3>1, <3>2
  <2>3. InOrder(Append(Responses, r), reqs, progressive.of, seq)
    BY <1>4, <1>5, <2>1, <2>2, OrderSkips
  <2>4. InOrder(Responses', reqs', progressive.of, seq)
    <3>1. CASE reqs' = reqs
      BY <2>2, <2>3, <3>1
    <3>2. CASE Took
      BY <1>4, <2>2, <2>3, <3>2, OrderSkips DEF Took
    <3> QED
      BY <2>1, <3>1, <3>2
  <2>5. LevelInv'
    BY <1>4, <2>4 DEF LevelInv
  <2>6. ASSUME status' = "started" PROVE Starting(Responses', reqs', prog')
    <3>1. Starting(Responses, reqs, prog)
      BY <1>6, <2>6
    <3>2. reqs # <<>> => Head(reqs).code \in {"set", "run"}
      BY <1>4, <3>1, StartTakes
    <3>3. \/ r.code = "running" \/ prog \in {"running", "stopped"}
          \/ r.code # "break" /\ prog' \notin {"running", "stopped"}
      BY <2>1, <3>2 DEF MaySay
    <3>4. Starting(Append(Responses, r), reqs, prog')
      BY <1>4, <2>2, <3>1, <3>3, StartAppends
    <3>5. CASE reqs' = reqs
      BY <2>2, <3>4, <3>5
    <3>6. CASE Took
      BY <1>4, <2>2, <3>4, <3>6, StartTakes DEF Took
    <3> QED
      BY <2>1, <3>5, <3>6
  <2> QED
    BY <1>2, <1>3, <2>5, <2>6 DEF IInv, StartInv
<1>9. CASE Reads
  <2>1. Responses' = Responses
    BY <1>4, <1>9 DEF Reads, Responses
  <2>2. InOrder(Responses, Tail(reqs), progressive.of, seq)
    BY <1>4, <1>5, <1>9, OrderSkips DEF Reads, Took
  <2>3. LevelInv'
    BY <1>4, <1>9, <2>1, <2>2 DEF Reads, Took, LevelInv
  <2>4. status' # "started"
    BY <1>4, <1>6, <1>9, StartTakes DEF Reads, Took
  <2> QED
    BY <1>2, <1>3, <2>3, <2>4 DEF IInv, StartInv
<1>10. CASE SendsLevel
  <2>1. PICK d \in Answer : /\ IsData(d) /\ d.id = Head(reqs).id /\ d.level = Head(reqs).level
                            /\ out' = Append(out, d)
    BY <1>10 DEF SendsLevel
  <2>2. Responses' = Append(Responses, d) /\ d \in Said
    BY <1>4, <2>1, OutAppends, Written
  <2>3. InOrder(Append(Responses, d), Tail(reqs), progressive.of, seq)
    BY <1>4, <1>5, <1>10, <2>1, <2>2, OrderAnswers, RankedAll DEF SendsLevel
  <2>4. LevelInv'
    BY <1>4, <1>10, <2>2, <2>3 DEF SendsLevel, LevelInv
  <2>5. status' # "started"
    <3>1. SUFFICES ASSUME status' = "started" PROVE FALSE
      OBVIOUS
    <3>2. Head(reqs).code \in {"set", "run"}
      BY <1>4, <1>6, <1>10, <3>1, StartTakes DEF SendsLevel
    <3> QED
      BY <1>10, <3>2 DEF SendsLevel, IsData
  <2> QED
    BY <1>2, <1>3, <2>4, <2>5 DEF IInv, StartInv
<1> QED
  BY <1>1, <1>7, <1>8, <1>9, <1>10

-----------------------------------------------------------------------------
(* The worker. *)

(* The worker only moves the responses on, and its NULL comes after the pipe is closed. *)
LEMMA WorkerKeeps == ASSUME IInv, WorkerNext
                     PROVE  IInv'
<1>1. TypeOK /\ QueueInv
  BY DEF IInv
<1>2. UNCHANGED <<Apart, queue, lib>>
  BY DEF WorkerNext, WorkerReads, WorkerStores
<1>3. /\ UNCHANGED <<run, local, prog, open, zombies, reqs, gldb, nest, joining, status, sens, overtaken>>
      /\ UNCHANGED <<progressive, active, clicks, seq, queue, lib>>
  BY <1>2 DEF Apart, program, session, pane
<1>4. /\ hand' \in Answer \cup {Null} /\ ring' \in Seq(Answer \cup {Null}) /\ out' \in Seq(Answer)
      /\ worker' \in {"none", "reading", "holding", "done"}
  <2>1. CASE WorkerReads
    <3>1. out \in Seq(Answer) /\ (out # <<>> => Head(out) \in Answer /\ Tail(out) \in Seq(Answer))
      BY <1>1, QueuesAre, TailFacts
    <3>2. UNCHANGED ring /\ ring \in Seq(Answer \cup {Null}) /\ worker' = "holding"
      BY <1>1, <2>1 DEF WorkerReads, TypeOK
    <3>3. \/ out # <<>> /\ hand' = Head(out) /\ out' = Tail(out)
          \/ hand' = Null /\ out' = out
      BY <2>1 DEF WorkerReads
    <3> QED
      BY <3>1, <3>2, <3>3
  <2>2. CASE WorkerStores
    BY <1>1, <2>2, AppendFacts DEF WorkerStores, TypeOK
  <2> QED
    BY <2>1, <2>2 DEF WorkerNext
<1>5. TypeOK'
  BY <1>1, <1>3, <1>4 DEF TypeOK
<1>6. QueueInv'
  <2>1. CASE WorkerReads
    <3>1. out # <<>> => Head(out) \in Answer
      BY QueuesAre, TailFacts, <1>1
    <3>2. out # <<>> => hand' # Null
      BY <2>1, <3>1, Written DEF WorkerReads
    <3> QED
      BY <1>1, <1>3, <2>1, <3>2 DEF WorkerReads, QueueInv
  <2>2. CASE WorkerStores
    BY <1>1, <1>3, <2>2 DEF WorkerStores, QueueInv
  <2> QED
    BY <2>1, <2>2 DEF WorkerNext
<1>7. MenuInv' /\ ImageWhole'
  BY <1>3 DEF IInv, MenuInv, ImageWhole
<1>8. /\ Responses \in Seq(Said) /\ reqs \in Seq(Request) /\ Null \in Said /\ Null.code = "null"
      /\ progressive.of \in Nat /\ seq \in Nat
  BY <1>1, QueuesAre, Written
<1>9. Responses' = Responses \/ Responses' = Append(Responses, Null)
  BY <1>1, WorkerMoves
<1>10. LevelInv'
  <2>1. InOrder(Responses, reqs, progressive.of, seq)
    BY DEF IInv, LevelInv
  <2>2. InOrder(Append(Responses, Null), reqs, progressive.of, seq)
    BY <1>8, <2>1, OrderSkips DEF IsData
  <2> QED
    BY <1>3, <1>9, <2>1, <2>2 DEF LevelInv
<1>11. ASSUME status' = "started" PROVE Starting(Responses', reqs', prog')
  <2>1. Starting(Responses, reqs, prog)
    BY <1>3, <1>11 DEF IInv, StartInv
  <2>2. \/ Null.code = "running" \/ prog \in {"running", "stopped"}
        \/ Null.code # "break" /\ prog \notin {"running", "stopped"}
    BY <1>8
  <2>3. Starting(Append(Responses, Null), reqs, prog)
    BY <1>8, <2>1, <2>2, StartAppends
  <2> QED
    BY <1>3, <1>9, <2>1, <2>3
<1> QED
  BY <1>5, <1>6, <1>7, <1>10, <1>11 DEF IInv, StartInv

-----------------------------------------------------------------------------
(* What gldb sends. *)

(* A request without a level is written, is lost on a program that has ended, or kills
   gldb, which has no pipe for it. *)
LEMMA PlainSends == ASSUME TypeOK, QueueInv, NEW c \in {"cont", "async", "tree", "quit"}, Send(<<Plain(c)>>),
                           NEW rs \in Seq(Said), InOrder(rs, reqs, progressive.of, seq)
    PROVE  /\ gldb' = gldb \/ gldb' = "killed"
           /\ reqs' \in Seq(Request) /\ (prog \in {"none", "exited"} => reqs' = <<>>)
           /\ InOrder(rs, reqs', progressive.of, seq)
<1>1. Plain(c) \in Request /\ ~IsData(Plain(c)) /\ reqs \in Seq(Request)
  BY Written, QueuesAre DEF IsData
<1>2. reqs \o <<Plain(c)>> = Append(reqs, Plain(c)) /\ Append(reqs, Plain(c)) \in Seq(Request)
  BY <1>1, AppendFacts
<1>3. InOrder(rs, Append(reqs, Plain(c)), progressive.of, seq)
  BY <1>1, OrderSkips
<1>4. \/ reqs' = reqs
      \/ reqs' = Append(reqs, Plain(c)) /\ prog \notin {"none", "exited"}
  BY <1>2 DEF Send, QueueInv
<1>5. gldb' = gldb \/ gldb' = "killed"
  BY DEF Send
<1> QED
  BY <1>1, <1>2, <1>3, <1>4, <1>5 DEF QueueInv

(* A texture is asked for level by level, the first one first. *)
LEMMA TextureIs == ASSUME NEW qs \in Seq(Request), NEW n \in Nat
    PROVE  \E a, b \in Request : /\ IsData(a) /\ a.id = n /\ a.level = 0 /\ IsData(b) /\ b.id = n /\ b.level = 1
                                 /\ qs \o TextureRequests(n) = Append(Append(qs, a), b)
                                 /\ Append(Append(qs, a), b) \in Seq(Request)
<1> DEFINE a == [code |-> "data", id |-> n, level |-> 0]
           b == [code |-> "data", id |-> n, level |-> 1]
           t == TextureRequests(n)
           qa == Append(qs, a)
           qb == Append(qa, b)
<1>1. a \in Request /\ b \in Request
  BY Written DEF Levels
<1>2. /\ IsData(a) /\ a.id = n /\ a.level = 0
      /\ IsData(b) /\ b.id = n /\ b.level = 1
  BY DEF IsData
<1>3. t = [i \in 1..2 |-> [code |-> "data", id |-> n, level |-> i - 1]]
  BY DEF TextureRequests, LastLevel
<1>4. t[1] = a /\ t[2] = b
  BY <1>3
<1> HIDE DEF a, b
<1>5. t \in Seq(Request) /\ Len(t) = 2
  <2>1. \A i \in 1..2 : t[i] \in Request
    BY <1>1, <1>4
  <2>2. t \in [1..2 -> Request]
    BY <1>3, <2>1
  <2> HIDE DEF t
  <2>3. t \in Seq(Request)
    <3>1. Seq(Request) = UNION {[1..k -> Request] : k \in Nat}
      BY SeqDef
    <3>2. [1..2 -> Request] \in {[1..k -> Request] : k \in Nat}
      OBVIOUS
    <3> QED
      BY <2>2, <3>1, <3>2, Zenon
  <2> QED
    BY <1>3, <2>3 DEF t
<1> HIDE DEF t
<1>6. qa \in Seq(Request) /\ Len(qa) = Len(qs) + 1 /\ Len(qs) \in Nat /\ qa[Len(qs) + 1] = a
      /\ \A i \in 1..Len(qs) : qa[i] = qs[i]
  BY <1>1, AppendFacts
<1> HIDE DEF qa
<1>7. qb \in Seq(Request) /\ Len(qb) = Len(qa) + 1 /\ qb[Len(qa) + 1] = b
      /\ \A i \in 1..Len(qa) : qb[i] = qa[i]
  BY <1>1, <1>6, AppendFacts
<1> HIDE DEF qb
<1>8. /\ qs \o t \in Seq(Request) /\ Len(qs \o t) = Len(qs) + 2
      /\ \A i \in 1..(Len(qs) + 2) : (qs \o t)[i] = IF i <= Len(qs) THEN qs[i] ELSE t[i - Len(qs)]
  BY <1>5, ConcatProperties
<1>9. ASSUME NEW i \in 1..(Len(qs) + 2) PROVE (qs \o t)[i] = qb[i]
  <2>1. i \in 1..Len(qs) \/ i = Len(qs) + 1 \/ i = Len(qs) + 2
    BY <1>6
  <2>2. CASE i \in 1..Len(qs)
    BY <1>6, <1>7, <1>8, <2>2
  <2>3. CASE i = Len(qs) + 1
    <3>1. i - Len(qs) = 1 /\ ~(i <= Len(qs)) /\ i \in 1..Len(qa)
      BY <1>6, <2>3
    <3> QED
      BY <1>4, <1>6, <1>7, <1>8, <2>3, <3>1
  <2>4. CASE i = Len(qs) + 2
    <3>1. i - Len(qs) = 2 /\ ~(i <= Len(qs)) /\ i = Len(qa) + 1
      BY <1>6, <2>4
    <3> QED
      BY <1>4, <1>7, <1>8, <3>1
  <2> QED
    BY <2>1, <2>2, <2>3, <2>4
<1>10. Len(qs \o t) = Len(qb)
  BY <1>6, <1>7, <1>8
<1>11. qs \o t = qb
  BY <1>7, <1>8, <1>9, <1>10, SeqEqual
<1> QED
  BY <1>1, <1>2, <1>7, <1>11 DEF qa, qb, t

(* The requests for a texture are of a new number, and come after all others. *)
LEMMA QuerySends == ASSUME TypeOK, QueueInv, Query,
                           NEW rs \in Seq(Said), InOrder(rs, reqs, progressive.of, seq)
    PROVE  /\ gldb' = gldb \/ gldb' = "killed"
           /\ reqs' \in Seq(Request) /\ (prog \in {"none", "exited"} => reqs' = <<>>)
           /\ InOrder(rs, reqs', progressive.of, seq') /\ seq' \in Nat \ {0}
<1>1. reqs \in Seq(Request) /\ seq \in Nat /\ progressive.of \in Nat
  BY QueuesAre
<1>2. PICK a \in Request, b \in Request :
             /\ IsData(a) /\ a.id = seq /\ a.level = 0 /\ IsData(b) /\ b.id = seq /\ b.level = 1
             /\ reqs \o TextureRequests(seq) = Append(Append(reqs, a), b)
             /\ Append(Append(reqs, a), b) \in Seq(Request)
  BY <1>1, TextureIs
<1>3. /\ InOrder(rs, reqs, progressive.of, seq + 1)
      /\ InOrder(rs, Append(Append(reqs, a), b), progressive.of, seq + 1)
  BY <1>1, <1>2, OrderAsks, RankedAll
<1>4. seq' = seq + 1 /\ (gldb' = gldb \/ gldb' = "killed")
  BY DEF Query, Send
<1>5. \/ reqs' = reqs
      \/ reqs' = Append(Append(reqs, a), b) /\ prog \notin {"none", "exited"}
  BY <1>2 DEF Query, Send, QueueInv
<1>6. reqs' \in Seq(Request) /\ InOrder(rs, reqs', progressive.of, seq')
  BY <1>1, <1>2, <1>3, <1>4, <1>5
<1>7. prog \in {"none", "exited"} => reqs' = <<>>
  BY <1>5 DEF QueueInv
<1>8. seq' \in Nat \ {0}
  BY <1>1, <1>4
<1> QED
  BY <1>4, <1>6, <1>7, <1>8

-----------------------------------------------------------------------------
(* The main loop. *)

(* What a callback finds in the first response. *)
LEMMA LoopFinds == ASSUME IInv, NEW code, Dispatches(code), UNCHANGED <<worker, hand, out>>
    PROVE  /\ gldb = "up" /\ ~joining /\ nest = "none" /\ queue /\ status # "dead" /\ TypeOK /\ QueueInv
           /\ ring' \in Seq(Answer \cup {Null})
           /\ Responses \in Seq(Said) /\ Responses # <<>> /\ Responses' = Tail(Responses) /\ Responses' \in Seq(Said)
           /\ Head(Responses) = Head(ring) /\ Head(ring).code = code
           /\ code # "data" => InOrder(Responses', reqs, progressive.of, seq)
           /\ status = "started" => code # "break" /\ (code # "running" => Starting(Responses', reqs, prog))
<1>1. /\ gldb = "up" /\ ~joining /\ nest = "none" /\ queue /\ ring # <<>> /\ Head(ring).code = code
      /\ ring' = Tail(ring) /\ TypeOK /\ QueueInv
  BY DEF Dispatches, InLoop, IInv
<1>2. status # "dead"
  BY <1>1 DEF QueueInv
<1>3. ring \in Seq(Answer \cup {Null})
  BY <1>1 DEF TypeOK
<1>4. ring' \in Seq(Answer \cup {Null})
  BY <1>1, <1>3, TailFacts
<1>5. Responses # <<>> /\ Responses' = Tail(Responses) /\ Head(Responses) = Head(ring)
  BY <1>1, LoopTakes
<1>6. Responses \in Seq(Said) /\ reqs \in Seq(Request)
  BY <1>1, QueuesAre
<1>7. Responses' \in Seq(Said)
  BY <1>5, <1>6, TailFacts
<1>8. code # "data" => InOrder(Responses', reqs, progressive.of, seq)
  BY <1>1, <1>5, <1>6, OrderSkips DEF IInv, LevelInv, IsData
<1>9. status = "started" => code # "break" /\ (code # "running" => Starting(Responses', reqs, prog))
  BY <1>1, <1>5, <1>6, StartTail DEF IInv, StartInv
<1> QED
  BY <1>1, <1>2, <1>4, <1>5, <1>6, <1>7, <1>8, <1>9

(* The callbacks that only take note of a response: an answer, an error, which opens a
   dialog, the NULL, which begins the join, and the one that says that a program runs. *)
LEMMA NotesKeep == ASSUME IInv, OnNull \/ OnAnswer \/ OnError \/ OnRunning
                   PROVE  IInv'
<1>1. PICK code \in {"null", "ans", "error", "running"} :
         /\ Dispatches(code) /\ (code = "null" => OnNull) /\ (code = "ans" => OnAnswer)
         /\ (code = "error" => OnError) /\ (code = "running" => OnRunning)
  BY DEF OnNull, OnAnswer, OnError, OnRunning
<1>2. queue
  BY <1>1 DEF Dispatches
<1>3. /\ UNCHANGED <<run, local, prog, open, zombies, reqs, out, worker, hand, queue, lib, gldb>>
      /\ UNCHANGED <<progressive, active, clicks, seq, overtaken>>
      /\ nest' \in {nest, "error"} /\ joining' \in BOOLEAN
      /\ code # "running" => UNCHANGED <<status, sens>>
      /\ code = "running" => /\ status' = "running" /\ nest' = nest
                             /\ sens' = (sens \ {"stopped", "dead"}) \cup {"running", "live"}
  <2>1. CASE code = "null"
    BY <1>1, <1>2, <2>1 DEF OnNull, Notify, program, pane, session, IInv, TypeOK
  <2>2. CASE code # "null"
    BY <1>1, <2>2 DEF OnAnswer, OnError, OnRunning, Quiet, program, pane, IInv, TypeOK
  <2> QED
    BY <2>1, <2>2
<1>4. /\ gldb = "up" /\ ~joining /\ nest = "none" /\ queue /\ status # "dead" /\ TypeOK /\ QueueInv
      /\ ring' \in Seq(Answer \cup {Null})
      /\ InOrder(Responses', reqs, progressive.of, seq)
      /\ status = "started" => (code # "running" => Starting(Responses', reqs, prog))
  BY <1>1, <1>3, LoopFinds
<1>5. TypeOK'
  <2>1. status' \in {"dead", "started", "running", "stopped"} /\ nest' \in {"none", "error", "gdb"}
    BY <1>3, <1>4 DEF TypeOK
  <2>2. sens' \subseteq {"dead", "live", "running", "stopped"}
    BY <1>3, <1>4 DEF TypeOK
  <2> QED
    BY <1>3, <1>4, <2>1, <2>2 DEF TypeOK
<1>6. QueueInv'
  BY <1>3, <1>4 DEF QueueInv
<1>7. MenuInv'
  <2>1. CASE code = "running"
    BY <1>3, <1>4, <2>1 DEF MenuInv
  <2>2. CASE code # "running"
    BY <1>3, <1>4, <2>2 DEF MenuInv, IInv
  <2> QED
    BY <2>1, <2>2
<1>8. StartInv'
  BY <1>3, <1>4 DEF StartInv
<1>9. LevelInv' /\ ImageWhole'
  BY <1>3, <1>4 DEF LevelInv, ImageWhole, IInv
<1> QED
  BY <1>5, <1>6, <1>7, <1>8, <1>9 DEF IInv

(* What stopped() does last: the menu, and the request for the state. *)
LEMMA StoppedSends == ASSUME TypeOK, QueueInv, FinishStopped, status' # "dead",
                             NEW rs \in Seq(Said), InOrder(rs, reqs, progressive.of, seq)
    PROVE  /\ gldb' = gldb \/ gldb' = "killed"
           /\ reqs' \in Seq(Request) /\ (prog \in {"none", "exited"} => reqs' = <<>>)
           /\ InOrder(rs, reqs', progressive.of, seq)
           /\ sens' = (sens \ {"running"}) \cup {"stopped"}
<1>1. Send(<<Plain("tree")>>) /\ sens' = (sens \ {"running"}) \cup {"stopped"}
  BY DEF FinishStopped, SendIf
<1> QED
  BY <1>1, PlainSends

(* A program has stopped.  It has said before that it runs, so that Run is not offered. *)
LEMMA BreakKeeps == ASSUME IInv, OnBreak PROVE IInv'
<1>1. Dispatches("break")
  BY DEF OnBreak
<1>2. /\ UNCHANGED <<run, local, prog, open, zombies, out, worker, hand, queue, lib, joining>>
      /\ UNCHANGED <<progressive, active, clicks, seq, overtaken>>
      /\ status' = "stopped"
  BY DEF OnBreak, Quiet, program, pane
<1>3. /\ gldb = "up" /\ ~joining /\ nest = "none" /\ queue /\ status \notin {"dead", "started"} /\ TypeOK /\ QueueInv
      /\ ring' \in Seq(Answer \cup {Null}) /\ Responses' \in Seq(Said)
      /\ InOrder(Responses', reqs, progressive.of, seq)
  BY <1>1, <1>2, LoopFinds
<1>4. "dead" \notin sens
  BY <1>3 DEF IInv, MenuInv
<1>5. \/ nest' = "gdb" /\ UNCHANGED <<sens, reqs, gldb>>
      \/ FinishStopped /\ nest' = nest
  BY DEF OnBreak
<1>6. /\ gldb' = gldb \/ gldb' = "killed"
      /\ reqs' \in Seq(Request) /\ (prog \in {"none", "exited"} => reqs' = <<>>)
      /\ InOrder(Responses', reqs', progressive.of, seq)
      /\ \/ nest' = "gdb" /\ sens' = sens
         \/ nest' = "none" /\ sens' = (sens \ {"running"}) \cup {"stopped"}
  <2>1. CASE nest' = "gdb" /\ UNCHANGED <<sens, reqs, gldb>>
    BY <1>3, <2>1, QueuesAre DEF QueueInv
  <2>2. CASE FinishStopped /\ nest' = nest
    BY <1>2, <1>3, <2>2, StoppedSends
  <2> QED
    BY <1>5, <2>1, <2>2
<1>7. TypeOK'
  <2>1. sens' \subseteq {"dead", "live", "running", "stopped"} /\ nest' \in {"none", "error", "gdb"}
    BY <1>3, <1>6 DEF TypeOK
  <2>2. gldb' \in {"up", "aborted", "killed"} /\ status' \in {"dead", "started", "running", "stopped"}
    BY <1>2, <1>3, <1>6
  <2> QED
    BY <1>2, <1>3, <1>6, <2>1, <2>2 DEF TypeOK
<1>8. QueueInv'
  BY <1>2, <1>3, <1>6 DEF QueueInv
<1>9. MenuInv'
  BY <1>2, <1>3, <1>4, <1>6 DEF MenuInv
<1>10. StartInv' /\ LevelInv' /\ ImageWhole'
  BY <1>2, <1>6 DEF StartInv, LevelInv, ImageWhole, IInv
<1> QED
  BY <1>7, <1>8, <1>9, <1>10 DEF IInv

(* The state of a program that has stopped, after which the texture is asked for. *)
LEMMA StateKeeps == ASSUME IInv, OnState PROVE IInv'
<1>1. Dispatches("state")
  BY DEF OnState
<1>2. /\ UNCHANGED <<run, local, prog, open, zombies, out, worker, hand, queue, lib, joining>>
      /\ UNCHANGED <<progressive, active, clicks, overtaken, nest, status, sens>>
  BY DEF OnState, Quiet, program, pane
<1>3. /\ gldb = "up" /\ ~joining /\ nest = "none" /\ queue /\ status # "dead" /\ TypeOK /\ QueueInv
      /\ ring' \in Seq(Answer \cup {Null}) /\ Responses' \in Seq(Said)
      /\ InOrder(Responses', reqs, progressive.of, seq)
      /\ status = "started" => Starting(Responses', reqs, prog)
  BY <1>1, <1>2, LoopFinds
<1>4. (status = "stopped" /\ Query) \/ UNCHANGED <<reqs, gldb, seq>>
  BY DEF OnState
<1>5. /\ gldb' = gldb \/ gldb' = "killed"
      /\ reqs' \in Seq(Request) /\ (prog \in {"none", "exited"} => reqs' = <<>>)
      /\ InOrder(Responses', reqs', progressive.of, seq') /\ seq' \in Nat \ {0}
      /\ status = "started" => reqs' = reqs
  <2>1. CASE status = "stopped" /\ Query
    BY <1>3, <2>1, QuerySends
  <2>2. CASE UNCHANGED <<reqs, gldb, seq>>
    BY <1>3, <2>2, QueuesAre DEF QueueInv, TypeOK
  <2> QED
    BY <1>4, <2>1, <2>2
<1>6. TypeOK'
  BY <1>2, <1>3, <1>5 DEF TypeOK
<1>7. QueueInv'
  BY <1>2, <1>3, <1>5 DEF QueueInv
<1>8. MenuInv'
  BY <1>2, <1>3, <1>5 DEF MenuInv, IInv
<1>9. StartInv' /\ LevelInv' /\ ImageWhole'
  BY <1>2, <1>3, <1>5 DEF StartInv, LevelInv, ImageWhole, IInv
<1> QED
  BY <1>6, <1>7, <1>8, <1>9 DEF IInv

(* A level.  It is of the image that it is put into: the one that it opens, or the one
   being put together. *)
LEMMA DataKeeps == ASSUME IInv, OnData PROVE IInv'
<1> DEFINE r == Head(ring)
<1>1. Dispatches("data")
  BY DEF OnData
<1>2. /\ UNCHANGED <<run, local, prog, open, zombies, out, worker, hand, queue, lib, joining>>
      /\ UNCHANGED <<clicks, overtaken, nest, status, sens, reqs, gldb, seq>>
  BY DEF OnData, Quiet, program
<1>3. /\ gldb = "up" /\ ~joining /\ nest = "none" /\ queue /\ status # "dead" /\ TypeOK /\ QueueInv
      /\ ring' \in Seq(Answer \cup {Null}) /\ Responses \in Seq(Said) /\ Responses # <<>>
      /\ Responses' = Tail(Responses) /\ Head(Responses) = r /\ r.code = "data"
      /\ status = "started" => Starting(Responses', reqs, prog)
  BY <1>1, <1>2, LoopFinds
<1>4. /\ progressive.of \in Nat /\ progressive.got \in SUBSET Nat /\ seq \in Nat /\ reqs \in Seq(Request)
      /\ progressive = [of |-> progressive.of, got |-> progressive.got]
      /\ progressive.got \subseteq {progressive.of} /\ active.got \subseteq {active.of} /\ active \in Image
  BY <1>3, QueuesAre DEF IInv, ImageWhole, TypeOK, Image
<1>5. /\ r.level = 0 => InOrder(Responses', reqs, r.id, seq)
      /\ r.level = 1 => r.id = progressive.of /\ InOrder(Responses', reqs, 0, seq)
  BY <1>3, <1>4, OrderShows, RankedAll DEF IInv, LevelInv, IsData
<1>6. r.id \in Nat /\ r.level \in {0, 1} /\ r.good \in BOOLEAN
  <2>1. r \in Said
    BY <1>3, TailFacts
  <2> QED
    BY <1>3, <2>1, AnswerFacts DEF IsData
<1>7. IF r.level = 1 THEN active' = Filled(r) /\ progressive' = Blank
      ELSE progressive' = Filled(r) /\ active' = active
  BY DEF OnData, LastLevel
<1> HIDE DEF r
<1>8. First(r).of = r.id /\ First(r).got \subseteq {r.id} /\ First(r) \in Image
  <2>1. CASE r.level = 0
    BY <1>6, <2>1 DEF First, Image
  <2>2. CASE r.level = 1
    BY <1>4, <1>5, <2>2 DEF First, Image
  <2> QED
    BY <1>6, <2>1, <2>2
<1>9. Filled(r).of = r.id /\ Filled(r).got \subseteq {r.id} /\ Filled(r) \in Image
  <2>1. CASE r.good
    <3>1. Filled(r) = [First(r) EXCEPT !.got = @ \cup {r.id}]
      BY <2>1 DEF Filled
    <3>2. Filled(r) = [of |-> First(r).of, got |-> First(r).got \cup {r.id}]
      BY <1>8, <3>1 DEF Image
    <3> QED
      BY <1>6, <1>8, <3>2 DEF Image
  <2>2. CASE ~r.good
    BY <1>8, <2>2 DEF Filled
  <2> QED
    BY <2>1, <2>2
<1>10. Blank \in Image /\ Blank.of = 0 /\ Blank.got = {}
  BY DEF Blank, Image
<1>11. ImageWhole' /\ progressive' \in Image /\ active' \in Image
  BY <1>4, <1>7, <1>9, <1>10, <1>3 DEF ImageWhole, TypeOK
<1>12. LevelInv'
  <2>1. CASE r.level = 1
    BY <1>2, <1>5, <1>7, <1>10, <2>1 DEF LevelInv
  <2>2. CASE r.level = 0
    BY <1>2, <1>5, <1>7, <1>9, <2>2 DEF LevelInv
  <2> QED
    BY <1>6, <2>1, <2>2
<1>13. TypeOK'
  BY <1>2, <1>3, <1>11 DEF TypeOK
<1>14. QueueInv'
  BY <1>2, <1>3 DEF QueueInv
<1>15. MenuInv' /\ StartInv'
  BY <1>2, <1>3 DEF MenuInv, StartInv, IInv
<1> QED
  BY <1>11, <1>12, <1>13, <1>14, <1>15 DEF IInv

(* The session ends: the queue, the worker, the pipe and what they held are gone, and
   the menu offers Run; stopped(), if it was showing a dialog, is overtaken. *)
LEMMA EndKeeps == ASSUME IInv, EndSession, gldb = "up", ~queue \/ worker = "done",
                         UNCHANGED <<run, local, prog, open, reqs, gldb, nest, pane, clicks, seq>>,
                         zombies' \subseteq Nat
                  PROVE  IInv'
<1>1. TypeOK /\ QueueInv
  BY DEF IInv
<1>2. /\ worker' = "none" /\ hand' = Null /\ ring' = <<>> /\ queue' = FALSE /\ lib' = 0 /\ out' = <<>>
      /\ status' = "dead" /\ sens' = {"dead"} /\ joining' = FALSE
      /\ overtaken' = (overtaken \/ nest = "gdb")
      /\ UNCHANGED <<run, local, prog, open, reqs, gldb, nest, progressive, active, clicks, seq>>
  BY DEF EndSession, pane
<1>3. prog \in {"none", "exited"} /\ reqs = <<>>
  BY <1>1 DEF QueueInv
<1>4. TypeOK'
  <2>1. ring' \in Seq(Answer \cup {Null}) /\ out' \in Seq(Answer) /\ lib' \in Nat
    BY <1>2
  <2>2. overtaken' \in BOOLEAN
    BY <1>1, <1>2 DEF TypeOK
  <2> QED
    BY <1>1, <1>2, <2>1, <2>2 DEF TypeOK
<1>5. QueueInv'
  BY <1>1, <1>2, <1>3 DEF QueueInv
<1>6. MenuInv'
  BY <1>2 DEF MenuInv
<1>7. StartInv' /\ ImageWhole'
  BY <1>2 DEF StartInv, ImageWhole, IInv
<1>8. LevelInv'
  <2>1. Responses' = <<>>
    BY <1>2 DEF Responses
  <2>2. progressive.of < seq
    BY DEF IInv, LevelInv, InOrder
  <2> QED
    BY <1>2, <1>3, <2>1, <2>2, EmptyFacts DEF LevelInv, InOrder
<1> QED
  BY <1>4, <1>5, <1>6, <1>7, <1>8 DEF IInv

(* The child watch begins the join, or, without a queue, ends the session at once. *)
LEMMA WatchKeeps == ASSUME IInv, NEW p, ChildWatch(p) PROVE IInv'
<1>1. /\ gldb = "up" /\ ~joining /\ zombies' = zombies \ {p} /\ Notify /\ (queue => UNCHANGED ring)
      /\ UNCHANGED <<run, local, prog, open, reqs, gldb, nest, pane, clicks, seq>>
      /\ TypeOK
  BY DEF ChildWatch, InLoop, IInv
<1>2. zombies' \subseteq Nat
  BY <1>1 DEF TypeOK
<1>3. CASE queue
  <2>1. /\ joining' = TRUE
        /\ UNCHANGED <<worker, hand, queue, lib, out, status, sens, overtaken, ring, progressive, active>>
    BY <1>1, <1>3 DEF Notify, session, pane
  <2>2. Responses' = Responses
    BY <2>1 DEF Responses
  <2>3. TypeOK'
    BY <1>1, <1>2, <2>1 DEF TypeOK
  <2>4. QueueInv'
    BY <1>1, <1>3, <2>1 DEF QueueInv, IInv
  <2>5. MenuInv' /\ StartInv' /\ LevelInv' /\ ImageWhole'
    BY <1>1, <2>1, <2>2 DEF MenuInv, StartInv, LevelInv, ImageWhole, IInv
  <2> QED
    BY <2>3, <2>4, <2>5 DEF IInv
<1>4. CASE ~queue
  BY <1>1, <1>2, <1>4, EndKeeps DEF Notify
<1> QED
  BY <1>3, <1>4

(* The worker is joined. *)
LEMMA JoinKeeps == ASSUME IInv, JoinReturns PROVE IInv'
<1>1. zombies' \subseteq Nat
  BY DEF JoinReturns, program, IInv, TypeOK
<1> QED
  BY <1>1, EndKeeps DEF JoinReturns, program

(* The dialog is closed, and stopped(), if it had opened it, goes on. *)
LEMMA CloseKeeps == ASSUME IInv, CloseDialog PROVE IInv'
<1>1. /\ UNCHANGED <<run, local, prog, open, zombies, out, worker, hand, queue, lib, joining, status>>
      /\ UNCHANGED <<progressive, active, clicks, seq, overtaken, ring>>
      /\ gldb = "up" /\ nest' = "none" /\ nest # "none" /\ TypeOK /\ QueueInv
  BY DEF CloseDialog, InLoop, Quiet, program, pane, IInv
<1>2. Responses' = Responses /\ Responses \in Seq(Said) /\ reqs \in Seq(Request)
  BY <1>1, QueuesAre DEF Responses
<1>3. InOrder(Responses, reqs, progressive.of, seq)
  BY DEF IInv, LevelInv
<1>4. /\ gldb' \in {"up", "killed"} \/ (gldb' = "aborted" /\ overtaken)
      /\ reqs' \in Seq(Request) /\ (prog \in {"none", "exited"} => reqs' = <<>>)
      /\ InOrder(Responses, reqs', progressive.of, seq)
      /\ status = "started" => reqs' = reqs
      /\ sens' \subseteq {"dead", "live", "running", "stopped"}
      /\ gldb' = "up" => /\ "stopped" \in sens' <=> status = "stopped"
                         /\ "running" \in sens' <=> status = "running"
                         /\ "dead" \in sens' <=> status \in {"dead", "started"}
  <2>1. CASE nest = "gdb"
    <3>1. FinishStopped /\ sens' = (sens \ {"running"}) \cup {"stopped"}
      BY <2>1 DEF CloseDialog, FinishStopped
    <3>2. sens' \subseteq {"dead", "live", "running", "stopped"}
      BY <1>1, <3>1 DEF TypeOK
    <3>3. IF status = "dead" THEN overtaken ELSE status = "stopped" /\ "dead" \notin sens
      BY <1>1, <2>1 DEF IInv, MenuInv
    <3>4. CASE status = "dead"
      <4>1. gldb' = "aborted" /\ reqs' = reqs
        BY <1>1, <3>1, <3>4 DEF FinishStopped, SendIf
      <4> QED
        BY <1>1, <1>2, <1>3, <3>2, <3>3, <3>4, <4>1 DEF QueueInv
    <3>5. CASE status # "dead"
      <4>1. /\ gldb' = gldb \/ gldb' = "killed"
            /\ reqs' \in Seq(Request) /\ (prog \in {"none", "exited"} => reqs' = <<>>)
            /\ InOrder(Responses, reqs', progressive.of, seq)
        BY <1>1, <1>2, <1>3, <3>1, <3>5, StoppedSends
      <4> QED
        BY <1>1, <3>1, <3>2, <3>3, <3>5, <4>1
    <3> QED
      BY <3>4, <3>5
  <2>2. CASE nest # "gdb"
    <3>1. UNCHANGED <<sens, reqs, gldb>>
      BY <2>2 DEF CloseDialog
    <3> QED
      BY <1>1, <1>2, <1>3, <2>2, <3>1 DEF IInv, MenuInv, TypeOK, QueueInv
  <2> QED
    BY <2>1, <2>2
<1>5. TypeOK'
  BY <1>1, <1>4 DEF TypeOK
<1>6. QueueInv'
  BY <1>1, <1>4 DEF QueueInv
<1>7. MenuInv'
  BY <1>1, <1>4 DEF MenuInv
<1>8. StartInv' /\ LevelInv' /\ ImageWhole'
  BY <1>1, <1>2, <1>4 DEF StartInv, LevelInv, ImageWhole, IInv
<1> QED
  BY <1>5, <1>6, <1>7, <1>8 DEF IInv

-----------------------------------------------------------------------------
(* The user. *)

(* The first requests of a session set things and run the program. *)
LEMMA FirstRequests == ASSUME NEW n \in Nat, NEW known \in [1..n -> BOOLEAN]
    PROVE  LET f == [i \in 1..3 |-> [code |-> "set", known |-> TRUE]]
                    \o [i \in 1..n |-> [code |-> "set", known |-> known[i]]]
                    \o <<Plain("run")>>
           IN  f \in Seq(Request) /\ \A q \in ToSet(f) : q.code \in {"set", "run"}
<1> DEFINE Opening == {q \in Request : q.code \in {"set", "run"}}
           a == [i \in 1..3 |-> [code |-> "set", known |-> TRUE]]
           b == [i \in 1..n |-> [code |-> "set", known |-> known[i]]]
           c == <<Plain("run")>>
<1>1. \A k \in BOOLEAN : [code |-> "set", known |-> k] \in Opening
  BY Written
<1>2. Plain("run") \in Opening
  BY Written
<1> HIDE DEF Opening
<1>3. \A k \in Nat : \A f \in [1..k -> Opening] : f \in Seq(Opening)
  <2>1. Seq(Opening) = UNION {[1..k -> Opening] : k \in Nat}
    BY SeqDef
  <2> QED
    BY <2>1, Zenon
<1>4. a \in [1..3 -> Opening] /\ b \in [1..n -> Opening]
  BY <1>1
<1>5. a \in Seq(Opening) /\ b \in Seq(Opening)
  BY <1>3, <1>4
<1>6. c \in Seq(Opening)
  BY <1>2
<1> HIDE DEF a, b, c
<1>7. (a \o b) \o c \in Seq(Opening)
  BY <1>5, <1>6, ConcatProperties
<1>8. ToSet((a \o b) \o c) \subseteq Opening
  BY <1>7, ElementsIn
<1>9. Opening \subseteq Request
  BY DEF Opening
<1>10. (a \o b) \o c \in Seq(Request)
  BY <1>7, <1>9, SeqMonotonic
<1>11. \A q \in Opening : q.code \in {"set", "run"}
  BY DEF Opening
<1> QED
  BY <1>8, <1>10, <1>11 DEF a, b, c

(* Run begins a session where there is none: all of it is new. *)
LEMMA RunKeeps == ASSUME IInv, Run PROVE IInv'
<1>1. TypeOK /\ QueueInv
  BY DEF IInv
<1>2. /\ gldb = "up" /\ ~joining /\ nest = "none" /\ "dead" \in sens /\ status = "dead"
      /\ run' = run + 1 /\ local' \in BOOLEAN /\ prog' = "loading" /\ open' = TRUE
      /\ worker' = "reading" /\ ring' = <<>> /\ queue' = TRUE /\ lib' = run' /\ status' = "started"
      /\ UNCHANGED <<zombies, out, hand, gldb, nest, joining, sens, overtaken, progressive, active, clicks, seq>>
  BY DEF Run, InLoop, pane
<1>3. PICK n \in 0..MaxBreaks : \E known \in [1..n -> BOOLEAN] :
         reqs' = [i \in 1..3 |-> [code |-> "set", known |-> TRUE]]
                  \o [i \in 1..n |-> [code |-> "set", known |-> known[i]]]
                  \o <<Plain("run")>>
  BY DEF Run
<1>4. reqs' \in Seq(Request) /\ \A q \in ToSet(reqs') : q.code \in {"set", "run"}
  <2>1. n \in Nat
    BY BoundAssumption
  <2> QED
    BY <1>3, <2>1, FirstRequests
<1>5. ~queue /\ out = <<>> /\ Responses' = <<>>
  BY <1>1, <1>2 DEF QueueInv, Responses
<1>6. TypeOK'
  <2>1. run' \in Nat /\ ring' \in Seq(Answer \cup {Null})
    BY <1>1, <1>2 DEF TypeOK
  <2> QED
    BY <1>1, <1>2, <1>4, <2>1 DEF TypeOK
<1>7. QueueInv'
  BY <1>1, <1>2, <1>5 DEF QueueInv
<1>8. MenuInv'
  BY <1>2 DEF MenuInv, IInv
<1>9. StartInv'
  <2>1. Starting(<<>>, reqs', "loading")
    BY <1>4 DEF Starting
  <2> QED
    BY <1>2, <1>5, <2>1 DEF StartInv
<1>10. LevelInv'
  <2>1. progressive.of < seq
    BY DEF IInv, LevelInv, InOrder
  <2>2. \A q \in ToSet(reqs') : ~IsData(q)
    BY <1>4 DEF IsData
  <2>3. Ordered(reqs')
    BY <2>2 DEF Ordered, Before, ToSet
  <2> QED
    BY <1>2, <1>5, <2>1, <2>2, <2>3, EmptyFacts DEF LevelInv, InOrder, Fits
<1>11. ImageWhole'
  BY <1>2 DEF ImageWhole, IInv
<1> QED
  BY <1>6, <1>7, <1>8, <1>9, <1>10, <1>11 DEF IInv

(* The other actions send what the menu offers, and the status is what they assert. *)
LEMMA MenuKeeps == ASSUME IInv, StopAction \/ ContinueAction \/ KillAction \/ ChooseTexture PROVE IInv'
<1>1. TypeOK /\ QueueInv /\ gldb = "up" /\ ~joining /\ nest = "none" /\ clicks' = clicks + 1
  BY DEF StopAction, ContinueAction, KillAction, ChooseTexture, UserActs, InLoop, IInv
<1>2. /\ UNCHANGED <<run, local, prog, open, zombies, out, worker, hand, ring, queue, lib>>
      /\ UNCHANGED <<nest, joining, overtaken, progressive, active>>
  BY DEF StopAction, ContinueAction, KillAction, ChooseTexture, Asks, program, work, pane
<1>3. Responses' = Responses /\ Responses \in Seq(Said) /\ reqs \in Seq(Request)
  BY <1>1, <1>2, QueuesAre DEF Responses
<1>4. /\ InOrder(Responses, reqs, progressive.of, seq)
      /\ "stopped" \in sens <=> status = "stopped"
      /\ "running" \in sens <=> status = "running"
      /\ "dead" \in sens <=> status \in {"dead", "started"}
  BY <1>1 DEF IInv, LevelInv, MenuInv
<1>5. /\ gldb' = gldb \/ gldb' = "killed"
      /\ reqs' \in Seq(Request) /\ (prog \in {"none", "exited"} => reqs' = <<>>)
      /\ InOrder(Responses, reqs', progressive.of, seq') /\ seq' \in Nat \ {0}
      /\ status \in {"running", "stopped"} /\ status' \in {"running", "stopped"}
      /\ sens' \subseteq {"dead", "live", "running", "stopped"}
      /\ "stopped" \in sens' <=> status' = "stopped"
      /\ "running" \in sens' <=> status' = "running"
      /\ "dead" \notin sens'
  <2>1. seq \in Nat \ {0} /\ sens \subseteq {"dead", "live", "running", "stopped"}
    BY <1>1 DEF TypeOK
  <2>2. CASE StopAction
    <3>1. Send(<<Plain("async")>>) /\ status = "running" /\ UNCHANGED <<status, sens, seq>>
      BY <2>2 DEF StopAction, SendIf
    <3>2. /\ gldb' = gldb \/ gldb' = "killed"
          /\ reqs' \in Seq(Request) /\ (prog \in {"none", "exited"} => reqs' = <<>>)
          /\ InOrder(Responses, reqs', progressive.of, seq)
      BY <1>1, <1>3, <1>4, <3>1, PlainSends
    <3> QED
      BY <1>4, <2>1, <3>1, <3>2
  <2>3. CASE ContinueAction
    <3>1. /\ Send(<<Plain("cont")>>) /\ status = "stopped" /\ status' = "running" /\ UNCHANGED seq
          /\ sens' = (sens \ {"stopped"}) \cup {"running"}
      BY <1>4, <2>3 DEF ContinueAction, SendIf
    <3>2. /\ gldb' = gldb \/ gldb' = "killed"
          /\ reqs' \in Seq(Request) /\ (prog \in {"none", "exited"} => reqs' = <<>>)
          /\ InOrder(Responses, reqs', progressive.of, seq)
      BY <1>1, <1>3, <1>4, <3>1, PlainSends
    <3> QED
      BY <1>4, <2>1, <3>1, <3>2
  <2>4. CASE KillAction
    <3>1. Send(<<Plain("quit")>>) /\ status = "stopped" /\ UNCHANGED <<status, sens, seq>>
      BY <1>4, <2>4 DEF KillAction, SendIf
    <3>2. /\ gldb' = gldb \/ gldb' = "killed"
          /\ reqs' \in Seq(Request) /\ (prog \in {"none", "exited"} => reqs' = <<>>)
          /\ InOrder(Responses, reqs', progressive.of, seq)
      BY <1>1, <1>3, <1>4, <3>1, PlainSends
    <3> QED
      BY <1>4, <2>1, <3>1, <3>2
  <2>5. CASE ChooseTexture
    <3>1. Query /\ status = "stopped" /\ UNCHANGED <<status, sens>>
      BY <2>5 DEF ChooseTexture
    <3>2. /\ gldb' = gldb \/ gldb' = "killed"
          /\ reqs' \in Seq(Request) /\ (prog \in {"none", "exited"} => reqs' = <<>>)
          /\ InOrder(Responses, reqs', progressive.of, seq') /\ seq' \in Nat \ {0}
      BY <1>1, <1>3, <1>4, <3>1, QuerySends
    <3> QED
      BY <1>4, <2>1, <3>1, <3>2
  <2> QED
    BY <2>2, <2>3, <2>4, <2>5
<1>6. TypeOK'
  BY <1>1, <1>2, <1>5 DEF TypeOK
<1>7. QueueInv'
  BY <1>1, <1>2, <1>5 DEF QueueInv
<1>8. MenuInv'
  BY <1>1, <1>2, <1>5 DEF MenuInv
<1>9. StartInv' /\ LevelInv' /\ ImageWhole'
  BY <1>2, <1>3, <1>5 DEF StartInv, LevelInv, ImageWhole, IInv
<1> QED
  BY <1>6, <1>7, <1>8, <1>9 DEF IInv

-----------------------------------------------------------------------------
(* The whole. *)

(* Before the first Run there is nothing. *)
LEMMA InitInv == Init => IInv
<1> SUFFICES ASSUME Init PROVE IInv
  OBVIOUS
<1>1. Blank \in Image /\ Blank.of = 0 /\ Blank.got = {} /\ Null \in Answer \cup {Null}
  BY DEF Blank, Image
<1>2. TypeOK
  <2>1. /\ run \in Nat /\ zombies \subseteq Nat /\ lib \in Nat /\ clicks \in Nat /\ seq \in Nat \ {0}
        /\ reqs \in Seq(Request) /\ out \in Seq(Answer) /\ ring \in Seq(Answer \cup {Null})
    BY DEF Init
  <2>2. local \in BOOLEAN /\ open \in BOOLEAN /\ queue \in BOOLEAN /\ joining \in BOOLEAN /\ overtaken \in BOOLEAN
    BY DEF Init
  <2>3. /\ hand \in Answer \cup {Null} /\ progressive \in Image /\ active \in Image
        /\ sens \subseteq {"dead", "live", "running", "stopped"}
    BY <1>1 DEF Init
  <2>4. /\ prog \in {"none", "loading", "running", "stopped", "exited"}
        /\ worker \in {"none", "reading", "holding", "done"}
        /\ gldb \in {"up", "aborted", "killed"} /\ nest \in {"none", "error", "gdb"}
        /\ status \in {"dead", "started", "running", "stopped"}
    BY DEF Init
  <2> QED
    BY <2>1, <2>2, <2>3, <2>4 DEF TypeOK
<1>3. QueueInv /\ MenuInv /\ StartInv
  BY DEF Init, QueueInv, MenuInv, StartInv
<1>4. ImageWhole
  BY <1>1 DEF Init, ImageWhole
<1>5. LevelInv
  <2>1. Responses = <<>> /\ reqs = <<>> /\ progressive.of = 0 /\ seq = 1
    BY <1>1 DEF Init, Responses
  <2> QED
    BY <2>1, EmptyFacts DEF LevelInv, InOrder
<1> QED
  BY <1>2, <1>3, <1>4, <1>5 DEF IInv

(* Every step keeps the invariant. *)
LEMMA NextInv == IInv /\ [Next]_vars => IInv'
<1> SUFFICES ASSUME IInv, [Next]_vars PROVE IInv'
  OBVIOUS
<1>1. CASE ProgramNext
  BY <1>1, ProgramKeeps
<1>2. CASE WorkerNext
  BY <1>2, WorkerKeeps
<1>3. CASE Dispatch
  BY <1>3, NotesKeep, BreakKeeps, StateKeeps, DataKeeps DEF Dispatch
<1>4. CASE \E p \in Programs : ChildWatch(p)
  BY <1>4, WatchKeeps
<1>5. CASE JoinReturns
  BY <1>5, JoinKeeps
<1>6. CASE CloseDialog
  BY <1>6, CloseKeeps
<1>7. CASE UserNext
  BY <1>7, RunKeeps, MenuKeeps DEF UserNext
<1>8. CASE UNCHANGED vars
  <2>1. UNCHANGED <<run, local, prog, open, zombies, reqs, out, worker, hand, ring, queue, lib, gldb, nest, joining,
                    status, sens, overtaken, progressive, active, clicks, seq>>
    BY <1>8 DEF vars, program, work, session, pane
  <2>2. Responses' = Responses
    BY <2>1 DEF Responses
  <2>3. TypeOK' /\ QueueInv'
    BY <2>1 DEF IInv, TypeOK, QueueInv
  <2>4. MenuInv' /\ StartInv' /\ LevelInv' /\ ImageWhole'
    BY <2>1, <2>2 DEF IInv, MenuInv, StartInv, LevelInv, ImageWhole
  <2> QED
    BY <2>3, <2>4 DEF IInv
<1> QED
  BY <1>1, <1>2, <1>3, <1>4, <1>5, <1>6, <1>7, <1>8 DEF Next

(* The invariant holds however many programs are run, whatever they do and whatever the
   user does (gldb-gui.c, with the worker of workqueue.c and gldb-common.c). *)
THEOREM GuiInvariant == Spec => []IInv
BY InitInv, NextInv, PTL DEF Spec

(* The session, the queue, the worker and the pipe come and go together, and the menu
   offers what the status allows, but where a session ended under an open dialog
   (child_exit_notify and response_callback of gldb-gui.c). *)
THEOREM GuiSessionIntact == Spec => []SessionIntact
<1>1. IInv => SessionIntact
  BY DEF IInv, QueueInv, MenuInv, SessionIntact, InLoop
<1> QED
  BY <1>1, GuiInvariant, PTL

(* No image mixes levels of two queries, however queries follow each other and whatever
   was outstanding when a program ended (gldb_texture_pane_response_callback). *)
THEOREM GuiImageWhole == Spec => []ImageWhole
<1>1. IInv => ImageWhole
  BY DEF IInv
<1> QED
  BY <1>1, GuiInvariant, PTL
=============================================================================
