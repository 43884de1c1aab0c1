------------------------ MODULE DebugSession_proofs -------------------------
(* The debugging session, for any program, any breakpoints and events, any bound on
   what the user does, and any deaths and restarts of either process.

   The inductive invariant IInv says in turn where the application is (LoopInv), what
   the announcements under way say (SignalInv), that one side has control or hands it
   over (ControlInv), that queries and answers stay in the stop they are of (QueryInv,
   AnswerInv), that numbers travel in order (NumberInv), that each handler's answer is
   still to come (HandlerInv), and that the break tables converge.  Each part is kept by
   every step given the parts before it.

   The application's steps are first reduced to the few kinds of thing they do to the
   requests, the responses and the program's control (AppKinds); each part of the
   invariant is then kept by each kind, and by each of gldb's steps. *)
EXTENDS DebugSession, SequenceTheorems, FiniteSetTheorems, WellFoundedInduction, TLAPS

(* What the first element leaves: the other ones, one place earlier. *)
LEMMA TailFacts == ASSUME NEW S, NEW s \in Seq(S), s # <<>>
                   PROVE  /\ Tail(s) \in Seq(S) /\ Len(Tail(s)) = Len(s) - 1 /\ Len(s) \in Nat \ {0}
                          /\ Head(s) = s[1] /\ s[1] \in S
                          /\ DOMAIN s = 1..Len(s) /\ DOMAIN Tail(s) = 1..(Len(s) - 1)
                          /\ \A i \in 1..(Len(s) - 1) : Tail(s)[i] = s[i + 1]
<1>1. Tail(s) \in Seq(S) /\ Len(Tail(s)) = Len(s) - 1 /\ \A i \in 1..Len(Tail(s)) : Tail(s)[i] = s[i + 1]
  BY HeadTailProperties
<1>2. Len(s) \in Nat \ {0} /\ DOMAIN s = 1..Len(s) /\ DOMAIN Tail(s) = 1..Len(Tail(s))
  BY <1>1, EmptySeq, LenProperties
<1>3. Head(s) = s[1] /\ s[1] \in S
  BY <1>2, ElementOfSeq
<1> QED
  BY <1>1, <1>2, <1>3

(* What one more element adds: the others stay where they are. *)
LEMMA AppendFacts == ASSUME NEW S, NEW s \in Seq(S), NEW r \in S
                     PROVE  /\ Append(s, r) \in Seq(S) /\ Len(s) \in Nat /\ Len(Append(s, r)) = Len(s) + 1
                            /\ DOMAIN s = 1..Len(s) /\ DOMAIN Append(s, r) = 1..(Len(s) + 1)
                            /\ \A i \in 1..Len(s) : Append(s, r)[i] = s[i]
                            /\ Append(s, r)[Len(s) + 1] = r
                            /\ s \o <<r>> = Append(s, r)
<1>1. /\ Append(s, r) \in Seq(S) /\ Len(Append(s, r)) = Len(s) + 1
      /\ \A i \in 1..Len(s) : Append(s, r)[i] = s[i]
      /\ Append(s, r)[Len(s) + 1] = r
  BY AppendProperties
<1>2. Len(s) \in Nat /\ DOMAIN s = 1..Len(s) /\ DOMAIN Append(s, r) = 1..(Len(s) + 1)
  BY <1>1, LenProperties
<1> QED
  BY <1>1, <1>2

(* A queue has a request or response of some code at one of its places. *)
LEMMA HasIndex == ASSUME NEW S, NEW s \in Seq(S), NEW C
                  PROVE  Has(s, C) <=> \E i \in 1..Len(s) : s[i].code \in C
BY DEF Has, ToSet

(* A queue has a code at its head or after it. *)
LEMMA HasTail == ASSUME NEW S, NEW s \in Seq(S), s # <<>>, NEW C
                 PROVE  Has(s, C) <=> Head(s).code \in C \/ Has(Tail(s), C)
<1> DEFINE t == Tail(s)
<1>1. /\ t \in Seq(S) /\ Len(t) = Len(s) - 1 /\ Len(s) \in Nat \ {0} /\ Head(s) = s[1]
      /\ \A i \in 1..(Len(s) - 1) : t[i] = s[i + 1]
  BY TailFacts
<1>2. Has(s, C) <=> \E i \in 1..Len(s) : s[i].code \in C
  BY HasIndex
<1>3. Has(t, C) <=> \E i \in 1..Len(t) : t[i].code \in C
  BY <1>1, HasIndex
<1> HIDE DEF t
<1>4. ASSUME NEW i \in 1..Len(s), s[i].code \in C PROVE Head(s).code \in C \/ \E j \in 1..Len(t) : t[j].code \in C
  <2>1. CASE i = 1
    BY <1>1, <1>4, <2>1
  <2>2. CASE i # 1
    <3>1. i - 1 \in 1..Len(t) /\ t[i - 1] = s[i]
      BY <1>1, <2>2
    <3> QED
      BY <1>4, <3>1
  <2> QED
    BY <2>1, <2>2
<1>5. ASSUME NEW i \in 1..Len(t), t[i].code \in C PROVE \E j \in 1..Len(s) : s[j].code \in C
  <2>1. i + 1 \in 1..Len(s) /\ s[i + 1] = t[i]
    BY <1>1
  <2> QED
    BY <1>5, <2>1
<1>6. Head(s).code \in C => \E j \in 1..Len(s) : s[j].code \in C
  BY <1>1
<1> QED
  BY <1>2, <1>3, <1>4, <1>5, <1>6 DEF t

(* Adding to a queue adds the code of what is added, and no other. *)
LEMMA HasAppend == ASSUME NEW S, NEW s \in Seq(S), NEW r \in S, NEW C
                   PROVE  Has(Append(s, r), C) <=> Has(s, C) \/ r.code \in C
<1> DEFINE t == Append(s, r)
<1>1. /\ t \in Seq(S) /\ Len(t) = Len(s) + 1 /\ Len(s) \in Nat /\ t[Len(s) + 1] = r
      /\ \A i \in 1..Len(s) : t[i] = s[i]
  BY AppendFacts
<1>2. Has(s, C) <=> \E i \in 1..Len(s) : s[i].code \in C
  BY HasIndex
<1>3. Has(t, C) <=> \E i \in 1..Len(t) : t[i].code \in C
  BY <1>1, HasIndex
<1> HIDE DEF t
<1>4. \A i \in 1..Len(t) : i \in 1..Len(s) \/ i = Len(s) + 1
  BY <1>1
<1>5. \A i \in 1..Len(s) : i \in 1..Len(t)
  BY <1>1
<1>6. Len(s) + 1 \in 1..Len(t)
  BY <1>1
<1>7. (\E i \in 1..Len(t) : t[i].code \in C) <=> (\E i \in 1..Len(s) : s[i].code \in C) \/ r.code \in C
  BY <1>1, <1>4, <1>5, <1>6
<1> QED
  BY <1>2, <1>3, <1>7 DEF t

(* An empty queue has no code. *)
LEMMA HasEmpty == \A C : ~Has(<<>>, C)
BY DEF Has, ToSet

(* The head of two queues in a row is the head of the first. *)
LEMMA ConcatHeadTail == ASSUME NEW S, NEW s \in Seq(S), NEW t \in Seq(S), s # <<>>
                        PROVE  s \o t # <<>> /\ Head(s \o t) = Head(s) /\ Tail(s \o t) = Tail(s) \o t
<1> DEFINE c == s \o t
           u == Tail(s)
           d == u \o t
<1>1. /\ c \in Seq(S) /\ Len(c) = Len(s) + Len(t)
      /\ \A i \in 1..Len(s) + Len(t) : c[i] = IF i <= Len(s) THEN s[i] ELSE t[i - Len(s)]
  BY ConcatProperties
<1>2. /\ u \in Seq(S) /\ Len(u) = Len(s) - 1 /\ Len(s) \in Nat \ {0} /\ Head(s) = s[1]
      /\ \A i \in 1..(Len(s) - 1) : u[i] = s[i + 1]
  BY TailFacts
<1>3. /\ d \in Seq(S) /\ Len(d) = Len(u) + Len(t)
      /\ \A i \in 1..Len(u) + Len(t) : d[i] = IF i <= Len(u) THEN u[i] ELSE t[i - Len(u)]
  BY <1>2, ConcatProperties
<1>4. Len(t) \in Nat
  BY LenProperties
<1>5. c # <<>>
  BY ConcatEqualIffEmpty
<1> HIDE DEF c, u, d
<1>6. /\ Tail(c) \in Seq(S) /\ Len(Tail(c)) = Len(c) - 1 /\ Head(c) = c[1]
      /\ \A i \in 1..(Len(c) - 1) : Tail(c)[i] = c[i + 1]
  BY <1>1, <1>5, TailFacts
<1>7. Len(Tail(c)) = Len(d)
  BY <1>1, <1>2, <1>3, <1>4, <1>6
<1>8. ASSUME NEW i \in 1..Len(Tail(c)) PROVE Tail(c)[i] = d[i]
  <2>1. i \in 1..(Len(c) - 1) /\ i + 1 \in 1..Len(s) + Len(t) /\ i \in 1..Len(u) + Len(t)
    BY <1>1, <1>2, <1>4, <1>6
  <2>2. Tail(c)[i] = IF i + 1 <= Len(s) THEN s[i + 1] ELSE t[i + 1 - Len(s)]
    BY <1>1, <1>6, <2>1
  <2>3. d[i] = IF i <= Len(s) - 1 THEN u[i] ELSE t[i - (Len(s) - 1)]
    BY <1>2, <1>3, <2>1
  <2>4. CASE i <= Len(s) - 1
    BY <1>2, <2>1, <2>2, <2>3, <2>4
  <2>5. CASE ~(i <= Len(s) - 1)
    <3>1. i + 1 - Len(s) = i - (Len(s) - 1) /\ ~(i + 1 <= Len(s))
      BY <1>2, <2>1, <2>5
    <3> QED
      BY <2>2, <2>3, <2>5, <3>1
  <2> QED
    BY <2>4, <2>5
<1>9. Tail(c) = d
  BY <1>3, <1>6, <1>7, <1>8, SeqEqual
<1>10. Head(c) = Head(s)
  BY <1>1, <1>2, <1>4, <1>6
<1> QED
  BY <1>5, <1>9, <1>10 DEF c, d, u

-----------------------------------------------------------------------------
Codes == {"RUN", "CONT", "STEP", "ASYNC", "QUIT", "NULL", "SETBREAK", "SETEVENT", "STATE_TREE_RAW", "DATA"}

(* The fields of a request, by its code. *)
LEMMA RequestFacts == ASSUME NEW r \in Request
    PROVE  /\ r.code \in Codes /\ r.id \in Nat
           /\ r.code = "SETBREAK" => r.name \in BreakName /\ r.on \in BOOLEAN /\ r.id = 0
           /\ r.code = "SETEVENT" => r.name \in Event /\ r.on \in BOOLEAN /\ r.id = 0
           /\ r.code \in Queries => r.asked \in Nat
           /\ r.code = "STATE_TREE_RAW" => r.id = 0
BY DEF Request, Codes, Queries

(* The fields of a response, by its code: only answers to queries carry "asked". *)
LEMMA ResponseFacts == ASSUME NEW r \in Response
    PROVE  /\ r.code \in {"BREAK", "BREAK_EVENT", "RUNNING", "ANS", "ERROR", "STATE", "DATA"}
           /\ r.code \in Signals => ~Asks(r)
           /\ r.code \in {"STATE", "DATA"} => Asks(r)
           /\ Asks(r) => r.from \in Nat \cup {NoTree} /\ r.asked \in Nat
           /\ ~Asks(r) /\ r.code \in {"ANS", "ERROR"} => r.id = 0
           /\ r.code = "STATE" => r.id = 0
           /\ r.id \in Nat
BY DEF Response, Asks, Signals, Breaks

(* What the gldb_send_* functions write is a request. *)
LEMMA SimpleRequests == ASSUME NEW i \in Nat, NEW j \in Nat
    PROVE  /\ \A c \in {"RUN", "CONT", "STEP", "ASYNC", "QUIT", "NULL"} : [code |-> c, id |-> i] \in Request
           /\ [code |-> "DATA", id |-> i, asked |-> j] \in Request
           /\ [code |-> "STATE_TREE_RAW", id |-> 0, asked |-> j] \in Request
           /\ Null \in Request
           /\ \A f \in BreakName, on \in BOOLEAN : SetBreakRequest(f, on) \in Request
           /\ \A e \in Event, on \in BOOLEAN : SetEventRequest(e, on) \in Request
BY DEF Request, Null, SetBreakRequest, SetEventRequest

(* What the filter-set writes is a response. *)
LEMMA SimpleResponses == ASSUME NEW i \in Nat, NEW j \in Nat, NEW k \in Nat \cup {NoTree}
    PROVE  /\ \A c \in {"BREAK", "BREAK_EVENT", "RUNNING"} : [code |-> c, id |-> i] \in Response
           /\ \A c \in {"ANS", "ERROR"} : [code |-> c, id |-> 0] \in Response
           /\ \A c \in {"DATA", "ERROR"} : [code |-> c, id |-> i, asked |-> j, from |-> k] \in Response
           /\ [code |-> "STATE", id |-> 0, asked |-> j, from |-> k] \in Response
           /\ \A c : ~Asks([code |-> c, id |-> i])
           /\ \A c : Asks([code |-> c, id |-> i, asked |-> j, from |-> k])
BY DEF Response, Asks

(* The requests under way are those in the queue, then those in the pipe. *)
LEMMA PendingFacts == ASSUME TypeOK
    PROVE  /\ Pending \in Seq(Request) /\ Len(Pending) \in Nat /\ DOMAIN Pending = 1..Len(Pending)
           /\ \A i \in 1..Len(Pending) : Pending[i] \in Request
           /\ rq # <<>> => Pending # <<>> /\ Head(Pending) = Head(rq) /\ Tail(Pending) = Tail(rq) \o reqs
<1>1. rq \in Seq(Request) /\ reqs \in Seq(Request)
  BY DEF TypeOK
<1>2. Pending \in Seq(Request)
  BY <1>1, ConcatProperties DEF Pending
<1>3. Len(Pending) \in Nat /\ DOMAIN Pending = 1..Len(Pending)
  BY <1>2, LenProperties
<1>4. \A i \in 1..Len(Pending) : Pending[i] \in Request
  BY <1>2, ElementOfSeq
<1>5. rq # <<>> => Pending # <<>> /\ Head(Pending) = Head(rq) /\ Tail(Pending) = Tail(rq) \o reqs
  BY <1>1, ConcatHeadTail, ConcatEqualIffEmpty, ConcatProperties DEF Pending
<1> QED
  BY <1>2, <1>3, <1>4, <1>5

(* process_single_command takes the first of the requests under way. *)
LEMMA TakesStep == ASSUME TypeOK, rq # <<>>, rq' = Tail(rq), reqs' = reqs
    PROVE  /\ Head(rq) = Pending[1] /\ Head(rq) \in Request /\ rq' \in Seq(Request)
           /\ Len(Pending) \in Nat \ {0}
           /\ DOMAIN Pending = 1..Len(Pending) /\ DOMAIN Pending' = 1..(Len(Pending) - 1)
           /\ Len(Pending') = Len(Pending) - 1
           /\ \A i \in 1..(Len(Pending) - 1) : Pending'[i] = Pending[i + 1]
           /\ \A C : Has(Pending, C) <=> Head(rq).code \in C \/ Has(Pending', C)
<1>1. Pending \in Seq(Request) /\ Pending # <<>> /\ Head(Pending) = Head(rq) /\ Pending' = Tail(Pending)
  BY PendingFacts DEF Pending
<1>2. rq \in Seq(Request)
  BY DEF TypeOK
<1>3. rq' \in Seq(Request)
  BY <1>2, TailFacts
<1> DEFINE P == Pending
           Q == Pending'
<1>4. P \in Seq(Request) /\ P # <<>> /\ Head(P) = Head(rq) /\ Q = Tail(P)
  BY <1>1
<1> HIDE DEF P, Q
<1>5. /\ Head(rq) = P[1] /\ Head(rq) \in Request
      /\ Len(P) \in Nat \ {0}
      /\ DOMAIN P = 1..Len(P) /\ DOMAIN Q = 1..(Len(P) - 1)
      /\ Len(Q) = Len(P) - 1
      /\ \A i \in 1..(Len(P) - 1) : Q[i] = P[i + 1]
  BY <1>4, TailFacts
<1>6. \A C : Has(P, C) <=> Head(rq).code \in C \/ Has(Q, C)
  BY <1>4, HasTail
<1> QED
  BY <1>3, <1>5, <1>6 DEF P, Q

(* What gldb sends comes after all that is under way. *)
LEMMA SendsStep == ASSUME TypeOK, NEW m \in Request, Send(<<m>>), galive', rq' = rq
    PROVE  /\ galive => apc # "exited"
           /\ apc # "exited" =>
                 /\ galive /\ reqs' \in Seq(Request) /\ Len(Pending) \in Nat
                 /\ DOMAIN Pending = 1..Len(Pending) /\ DOMAIN Pending' = 1..(Len(Pending) + 1)
                 /\ Len(Pending') = Len(Pending) + 1
                 /\ \A i \in 1..Len(Pending) : Pending'[i] = Pending[i]
                 /\ Pending'[Len(Pending) + 1] = m
                 /\ \A C : Has(Pending', C) <=> Has(Pending, C) \/ m.code \in C
<1>1. apc # "exited"
  BY DEF Send
<1>2. galive /\ reqs' = reqs \o <<m>>
  BY <1>1 DEF Send
<1>3. reqs \in Seq(Request) /\ rq \in Seq(Request) /\ <<m>> \in Seq(Request)
  BY DEF TypeOK
<1>4. reqs' \in Seq(Request)
  BY <1>2, <1>3, ConcatProperties
<1>5. Pending' = Pending \o <<m>>
  BY <1>2, <1>3, ConcatAssociative DEF Pending
<1> DEFINE P == Pending
           Q == Pending'
<1>6. P \in Seq(Request) /\ Q = Append(P, m)
  <2>1. P \in Seq(Request)
    BY PendingFacts
  <2> QED
    BY <1>5, <2>1, AppendFacts
<1> HIDE DEF P, Q
<1>7. /\ Len(P) \in Nat
      /\ DOMAIN P = 1..Len(P) /\ DOMAIN Q = 1..(Len(P) + 1)
      /\ Len(Q) = Len(P) + 1
      /\ \A i \in 1..Len(P) : Q[i] = P[i]
      /\ Q[Len(P) + 1] = m
  BY <1>6, AppendFacts
<1>8. \A C : Has(Q, C) <=> Has(P, C) \/ m.code \in C
  BY <1>6, HasAppend
<1> QED
  BY <1>1, <1>2, <1>4, <1>7, <1>8 DEF P, Q

(* The worker moves a request from the pipe to the queue: none is lost or overtaken. *)
LEMMA DeliverStep == ASSUME TypeOK, Deliver
    PROVE  /\ rq' \in Seq(Request) /\ reqs' \in Seq(Request)
           /\ galive => Pending' = Pending
<1>1. rq \in Seq(Request) /\ reqs \in Seq(Request) /\ Null \in Request
  BY SimpleRequests DEF TypeOK
<1>2. CASE reqs # <<>>
  <2> DEFINE h == Head(reqs)
             t == Tail(reqs)
  <2>1. h \in Request /\ t \in Seq(Request)
    BY <1>1, <1>2, TailFacts
  <2>2. rq' = Append(rq, h) /\ reqs' = t
    BY <1>2 DEF Deliver
  <2>3. Append(rq, h) \in Seq(Request) /\ rq \o <<h>> = Append(rq, h)
    BY <1>1, <2>1, AppendFacts
  <2>4. <<h>> \in Seq(Request) /\ reqs = <<h>> \o t
    <3>1. <<h>> \o t \in Seq(Request) /\ Len(<<h>> \o t) = 1 + Len(t)
          /\ \A i \in 1..1 + Len(t) : (<<h>> \o t)[i] = IF i <= 1 THEN h ELSE t[i - 1]
      <4> <<h>> \in Seq(Request) /\ Len(<<h>>) = 1 /\ \A i \in 1..1 : <<h>>[i] = h
        BY <2>1
      <4> DEFINE o == <<h>>
      <4> HIDE DEF o, t
      <4> QED
        BY <2>1, ConcatProperties DEF o
    <3>2. Len(t) = Len(reqs) - 1 /\ Len(reqs) \in Nat \ {0} /\ h = reqs[1]
          /\ \A i \in 1..(Len(reqs) - 1) : t[i] = reqs[i + 1]
      BY <1>1, <1>2, TailFacts
    <3> DEFINE o == <<h>> \o t
    <3> HIDE DEF o, h, t
    <3>3. Len(o) = Len(reqs) /\ \A i \in 1..Len(o) : o[i] = reqs[i]
      BY <3>1, <3>2 DEF o
    <3> QED
      BY <1>1, <2>1, <3>1, <3>3, SeqEqual DEF o
  <2> HIDE DEF h, t
  <2>5. (rq \o <<h>>) \o t = rq \o (<<h>> \o t)
    BY <1>1, <2>1, <2>4, ConcatAssociative
  <2> QED
    BY <2>1, <2>2, <2>3, <2>4, <2>5 DEF Pending
<1>3. CASE reqs = <<>>
  <2>1. ~galive /\ rq' = Append(rq, Null) /\ reqs' = reqs
    BY <1>3 DEF Deliver
  <2> QED
    BY <1>1, <2>1, AppendFacts
<1> QED
  BY <1>2, <1>3

(* A response goes behind those under way. *)
LEMMA RepliesStep == ASSUME TypeOK, NEW r \in Response, galive, resps' = Append(resps, r)
    PROVE  /\ resps' \in Seq(Response) /\ Len(resps) \in Nat /\ Len(resps') = Len(resps) + 1
           /\ DOMAIN resps = 1..Len(resps) /\ DOMAIN resps' = 1..(Len(resps) + 1)
           /\ \A i \in 1..Len(resps) : resps'[i] = resps[i]
           /\ resps'[Len(resps) + 1] = r
           /\ \A C : Has(resps', C) <=> Has(resps, C) \/ r.code \in C
<1>1. resps \in Seq(Response)
  BY DEF TypeOK
<1> QED
  BY <1>1, AppendFacts, HasAppend

(* gldb takes the first of the responses under way. *)
LEMMA ReceivesStep == ASSUME TypeOK, NEW codes, Receives(codes)
    PROVE  /\ resps' \in Seq(Response) /\ Len(resps) \in Nat \ {0} /\ Len(resps') = Len(resps) - 1
           /\ Head(resps) = resps[1] /\ resps[1] \in Response /\ resps[1].code \in codes
           /\ DOMAIN resps = 1..Len(resps) /\ DOMAIN resps' = 1..(Len(resps) - 1)
           /\ \A i \in 1..(Len(resps) - 1) : resps'[i] = resps[i + 1]
           /\ \A C : Has(resps, C) <=> resps[1].code \in C \/ Has(resps', C)
<1>1. resps \in Seq(Response) /\ resps # <<>> /\ resps' = Tail(resps) /\ Head(resps).code \in codes
  BY DEF TypeOK, Receives
<1>2. Head(resps) = resps[1]
  BY <1>1, TailFacts
<1> QED
  BY <1>1, <1>2, TailFacts, HasTail

-----------------------------------------------------------------------------
(* Induction over the natural numbers: a set of them has a least one. *)
LEMMA LeastIndex == ASSUME NEW S \in SUBSET Nat, S # {} PROVE \E n \in S : \A m \in S : n <= m
<1>1. \A m, n \in Nat : m < n => <<m, n>> \in OpToRel(<, Nat)
  BY Zenon DEF OpToRel
<1> DEFINE R == OpToRel(<, Nat)
<1>2. S \subseteq Nat /\ IsWellFoundedOn(R, Nat)
  BY NatLessThanWellFounded, Zenon
<1>3. \E n \in S : \A m \in S : ~(<<m, n>> \in R)
  BY <1>2, WFMin, Zenon
<1>6. \A m, k \in Nat : m < k => <<m, k>> \in R
  BY <1>1
<1> HIDE DEF R
<1>4. PICK n \in S : \A m \in S : ~(<<m, n>> \in R)
  BY <1>3
<1>5. \A m \in S : m \in Nat /\ n \in Nat /\ ~(m < n)
  BY <1>4, <1>6
<1> QED
  BY <1>5

(* A piece of a sequence of numbers. *)
LEMMA SubSeqNat == ASSUME NEW s, NEW m \in Int, NEW n \in Int, m <= n, \A i \in m..n : s[i] \in Nat
                   PROVE  /\ SubSeq(s, m, n) \in Seq(Nat)
                          /\ Len(SubSeq(s, m, n)) = n - m + 1
                          /\ \A i \in 1..n - m + 1 : SubSeq(s, m, n)[i] = s[m + i - 1]
BY SubSeqProperties

(* The handlers response_callback erases are those in front of the first with a
   number that is not less than the response's. *)
LEMMA Erased == ASSUME NEW id \in Nat, handlers \in Seq(Nat)
    PROVE  \E k \in 0..Len(handlers) :
              /\ AfterErase(id) \in Seq(Nat) /\ Len(AfterErase(id)) = Len(handlers) - k
              /\ \A i \in 1..(Len(handlers) - k) : AfterErase(id)[i] = handlers[k + i]
              /\ \A i \in 1..k : handlers[i] < id
              /\ k < Len(handlers) => handlers[k + 1] >= id
<1> DEFINE n == Len(handlers)
           I == {i \in 1..n : handlers[i] >= id}
<1>1. n \in Nat /\ \A i \in 1..n : handlers[i] \in Nat
  BY LenProperties, ElementOfSeq
<1>2. Remaining(id) = IF I # {} THEN Min(I) ELSE 0
  BY DEF Remaining, SelectInSeq
<1>3. CASE I = {}
  <2>1. \A i \in 1..n : handlers[i] < id
    BY <1>1, <1>3
  <2>2. AfterErase(id) = <<>>
    BY <1>2, <1>3 DEF AfterErase
  <2> QED
    BY <1>1, <2>1, <2>2
<1>4. CASE I # {}
  <2>1. \E m \in I : \A j \in I : m <= j
    <3>1. I \in SUBSET Nat
      BY <1>1
    <3> HIDE DEF I
    <3> QED
      BY <1>4, <3>1, LeastIndex
  <2>2. Min(I) = CHOOSE m \in I : \A j \in I : m <= j
    BY DEF Min
  <2> DEFINE m == Min(I)
  <2>3. m \in I /\ \A j \in I : m <= j
    BY <2>1, <2>2
  <2> HIDE DEF m
  <2>4. m \in 1..n /\ handlers[m] >= id
    BY <2>3
  <2>5. \A i \in 1..(m - 1) : handlers[i] < id
    BY <1>1, <2>3, <2>4
  <2>6. AfterErase(id) = SubSeq(handlers, m, n)
    <3>1. Remaining(id) = m /\ m # 0
      BY <1>1, <1>2, <1>4, <2>4 DEF m
    <3> QED
      BY <3>1 DEF AfterErase
  <2>7. \A i \in m..n : handlers[i] \in Nat
    BY <1>1, <2>4
  <2>8. /\ SubSeq(handlers, m, n) \in Seq(Nat)
        /\ Len(SubSeq(handlers, m, n)) = n - m + 1
        /\ \A i \in 1..n - m + 1 : SubSeq(handlers, m, n)[i] = handlers[m + i - 1]
    <3>1. m \in Int /\ n \in Int /\ m <= n
      BY <1>1, <2>4
    <3> HIDE DEF n, I
    <3> QED
      BY <2>7, <3>1, SubSeqNat
  <2>9. /\ m - 1 \in 0..n /\ n - (m - 1) = n - m + 1
        /\ \A i \in 1..n - m + 1 : (m - 1) + i = m + i - 1
    BY <1>1, <2>4
  <2>10. handlers[(m - 1) + 1] >= id
    BY <2>4
  <2>11. \A i \in 1..Len(handlers) - (m - 1) : AfterErase(id)[i] = handlers[(m - 1) + i]
    BY <2>6, <2>8, <2>9
  <2>12. AfterErase(id) \in Seq(Nat) /\ Len(AfterErase(id)) = Len(handlers) - (m - 1)
    BY <2>6, <2>8, <2>9
  <2>13. m - 1 \in 0..Len(handlers)
    BY <2>9
  <2> HIDE DEF n, I
  <2> QED
    BY <2>5, <2>10, <2>11, <2>12, <2>13
<1> QED
  BY <1>3, <1>4

(* A response at the head of the queue leaves a suffix of the handlers: those with
   its number or a greater one if it signals, and greater ones if it is an answer. *)
Suffix(id, k) ==
    /\ k \in 0..Len(handlers)
    /\ handlers' \in Seq(Nat) /\ Len(handlers') = Len(handlers) - k
    /\ DOMAIN handlers = 1..Len(handlers) /\ DOMAIN handlers' = 1..(Len(handlers) - k)
    /\ Len(handlers) \in Nat
    /\ \A i \in 1..(Len(handlers) - k) : handlers'[i] = handlers[k + i]

(* A response that is for no handler leaves a suffix of the handlers. *)
LEMMA ErasesSuffix == ASSUME NEW id \in Nat, handlers \in Seq(Nat), handlers' = AfterErase(id)
    PROVE  \E k \in 0..Len(handlers) : Suffix(id, k) /\ \A i \in 1..k : handlers[i] < id
<1>1. PICK k \in 0..Len(handlers) :
              /\ handlers' \in Seq(Nat) /\ Len(handlers') = Len(handlers) - k
              /\ \A i \in 1..(Len(handlers) - k) : handlers'[i] = handlers[k + i]
              /\ \A i \in 1..k : handlers[i] < id
  BY Erased
<1>2. Len(handlers) \in Nat /\ DOMAIN handlers = 1..Len(handlers) /\ DOMAIN handlers' = 1..Len(handlers')
  BY <1>1, LenProperties
<1> QED
  BY <1>1, <1>2 DEF Suffix

(* A response leaves the handlers with greater numbers, when it calls its own. *)
LEMMA AnswersSuffix == ASSUME NEW id \in Nat, handlers \in Seq(Nat),
                              \A i, j \in DOMAIN handlers : i < j => handlers[i] < handlers[j],
                              handlers' = IF Answers(id) THEN Tail(AfterErase(id)) ELSE AfterErase(id)
    PROVE  \E k \in 0..Len(handlers) : Suffix(id, k) /\ \A i \in 1..(Len(handlers) - k) : handlers'[i] > id
<1> DEFINE a == AfterErase(id)
           n == Len(handlers)
<1>1. PICK k \in 0..n :
              /\ a \in Seq(Nat) /\ Len(a) = n - k
              /\ \A i \in 1..(n - k) : a[i] = handlers[k + i]
              /\ \A i \in 1..k : handlers[i] < id
              /\ k < n => handlers[k + 1] >= id
  BY Erased
<1>2. n \in Nat /\ DOMAIN handlers = 1..n /\ \A i \in 1..n : handlers[i] \in Nat
  BY LenProperties, ElementOfSeq
<1>3. \A i \in (k + 2)..n : handlers[i] > id
  <2> SUFFICES ASSUME NEW i \in (k + 2)..n PROVE handlers[i] > id
    OBVIOUS
  <2>1. k + 1 \in 1..n /\ i \in 1..n /\ k + 1 < i /\ k < n
    BY <1>2
  <2>2. handlers[k + 1] < handlers[i] /\ handlers[k + 1] >= id
    BY <1>1, <1>2, <2>1
  <2> QED
    BY <1>2, <2>1, <2>2
<1>4. Answers(id) <=> a # <<>> /\ Head(a) = id
  BY DEF Answers
<1>5. handlers' = IF Answers(id) THEN Tail(a) ELSE a
  OBVIOUS
<1> HIDE DEF a
<1>6. CASE Answers(id)
  <2>1. /\ Tail(a) \in Seq(Nat) /\ Len(Tail(a)) = Len(a) - 1 /\ Len(a) \in Nat \ {0}
        /\ DOMAIN Tail(a) = 1..(Len(a) - 1)
        /\ \A i \in 1..(Len(a) - 1) : Tail(a)[i] = a[i + 1]
    BY <1>1, <1>4, <1>6, TailFacts
  <2>2. handlers' = Tail(a)
    BY <1>5, <1>6
  <2>3. k + 1 \in 0..n /\ n - (k + 1) = Len(a) - 1
    BY <1>1, <1>2, <2>1
  <2>4. \A i \in 1..(n - (k + 1)) : handlers'[i] = handlers[(k + 1) + i] /\ handlers[(k + 1) + i] > id
    <3> SUFFICES ASSUME NEW i \in 1..(n - (k + 1))
                 PROVE  handlers'[i] = handlers[(k + 1) + i] /\ handlers[(k + 1) + i] > id
      OBVIOUS
    <3>1. i \in 1..(Len(a) - 1) /\ i + 1 \in 1..(n - k) /\ k + (i + 1) = (k + 1) + i /\ (k + 1) + i \in (k + 2)..n
      BY <1>1, <1>2, <2>3
    <3> QED
      BY <1>1, <1>3, <2>1, <2>2, <3>1
  <2> QED
    BY <1>2, <2>1, <2>2, <2>3, <2>4 DEF Suffix
<1>7. CASE ~Answers(id)
  <2>1. handlers' = a /\ DOMAIN a = 1..Len(a)
    BY <1>1, <1>5, <1>7, LenProperties
  <2>2. k < n => handlers[k + 1] > id
    <3>1. ASSUME k < n PROVE handlers[k + 1] > id
      <4>1. a # <<>> /\ Head(a) = a[1] /\ 1 \in 1..(n - k) /\ k + 1 \in 1..n
        <5>1. 1 \in 1..(n - k) /\ k + 1 \in 1..n
          BY <1>2, <3>1
        <5>2. Len(a) # 0
          BY <1>1, <1>2, <3>1
        <5>3. a # <<>>
          BY <5>2
        <5> QED
          BY <1>1, <5>1, <5>3, TailFacts
      <4>2. a[1] # id /\ a[1] = handlers[k + 1]
        BY <1>1, <1>4, <1>7, <4>1
      <4> QED
        BY <1>1, <1>2, <3>1, <4>1, <4>2
    <3> QED
      BY <3>1
  <2>3. \A i \in 1..(n - k) : handlers[k + i] > id
    BY <1>2, <1>3, <2>2
  <2> QED
    BY <1>1, <1>2, <2>1, <2>3 DEF Suffix
<1> QED
  BY <1>6, <1>7

(* SetToSeq of a finite set is a sequence of its members, each of them once. *)
LEMMA Enumerates == ASSUME NEW S, IsFiniteSet(S)
    PROVE  /\ SetToSeq(S) \in Seq(S)
           /\ \A x \in S : \E i \in 1..Len(SetToSeq(S)) : SetToSeq(S)[i] = x
           /\ \A i, j \in 1..Len(SetToSeq(S)) : SetToSeq(S)[i] = SetToSeq(S)[j] => i = j
<1> DEFINE n == Cardinality(S)
           f == SetToSeq(S)
<1>1. n \in Nat /\ ExistsBijection(1..n, S)
  BY FS_CardinalityType
<1>2. \E g : g \in Bijection(1..n, S)
  BY <1>1 DEF ExistsBijection
<1>3. \E g \in [1..n -> S] : IsInjective(g)
  BY <1>2 DEF Bijection, Injection
<1>4. f \in [1..n -> S] /\ IsInjective(f)
  BY <1>3, Zenon DEF SetToSeq
<1>5. IsFiniteSet(1..n) /\ Cardinality(1..n) = n
  BY <1>1, FS_Interval
<1> HIDE DEF f
<1>6. f \in Injection(1..n, S)
  BY <1>4 DEF Injection
<1>7. f \in Surjection(1..n, S)
  BY <1>5, <1>6, FS_Injection
<1> HIDE DEF n
<1>8. f \in Seq(S) /\ Len(f) = n
  BY <1>1, <1>4
<1>9. \A x \in S : \E i \in 1..n : f[i] = x
  BY <1>7 DEF Surjection
<1>10. \A i, j \in 1..n : f[i] = f[j] => i = j
  BY <1>4 DEF IsInjective
<1> QED
  BY <1>8, <1>9, <1>10 DEF f

(* What gldb tells a new process: every event, every breakpoint, then RUN. *)
LEMMA RunRequests == ASSUME TypeOK
    PROVE  LET rs == EventRequests \o BreakRequests \o <<[code |-> "RUN", id |-> seq]>>
               n == Len(rs)
           IN /\ rs \in Seq(Request) /\ n \in Nat \ {0} /\ DOMAIN rs = 1..n
              /\ rs[n] = [code |-> "RUN", id |-> seq]
              /\ \A i \in 1..(n - 1) :
                    \/ \E e \in Event : rs[i] = SetEventRequest(e, e \in gevent)
                    \/ \E f \in DOMAIN gbreak : rs[i] = SetBreakRequest(f, gbreak[f])
              /\ \A e \in Event : \E i \in 1..(n - 1) : rs[i] = SetEventRequest(e, e \in gevent)
              /\ \A f \in DOMAIN gbreak : \E i \in 1..(n - 1) : rs[i] = SetBreakRequest(f, gbreak[f])
<1> DEFINE es == SetToSeq(Event)
           fs == SetToSeq(DOMAIN gbreak)
           er == EventRequests
           br == BreakRequests
           r == [code |-> "RUN", id |-> seq]
<1>1. IsFiniteSet(Event) /\ IsFiniteSet(DOMAIN gbreak)
  <2>1. IsFiniteSet({} \cup {"GL_ERROR"})
    BY FS_EmptySet, FS_AddElement
  <2>2. IsFiniteSet(({} \cup {"GL_ERROR"}) \cup {"COMPILE_ERROR"})
    BY <2>1, FS_AddElement
  <2>3. IsFiniteSet((({} \cup {"GL_ERROR"}) \cup {"COMPILE_ERROR"}) \cup {"LINK_ERROR"})
    BY <2>2, FS_AddElement
  <2>4. (({} \cup {"GL_ERROR"}) \cup {"COMPILE_ERROR"}) \cup {"LINK_ERROR"} = Event
    BY DEF Event
  <2> QED
    BY <2>3, <2>4 DEF TypeOK
<1>2. /\ es \in Seq(Event)
      /\ \A x \in Event : \E i \in 1..Len(es) : es[i] = x
  BY <1>1, Enumerates
<1>3. /\ fs \in Seq(DOMAIN gbreak)
      /\ \A x \in DOMAIN gbreak : \E i \in 1..Len(fs) : fs[i] = x
  BY <1>1, Enumerates
<1>4. er = [i \in DOMAIN es |-> SetEventRequest(es[i], es[i] \in gevent)]
  BY DEF EventRequests
<1>5. br = [i \in DOMAIN fs |-> SetBreakRequest(fs[i], gbreak[fs[i]])]
  BY DEF BreakRequests
<1> HIDE DEF es, fs, er, br
<1>6. er \in Seq(Request) /\ Len(er) = Len(es) /\ Len(es) \in Nat
      /\ \A i \in 1..Len(es) : er[i] = SetEventRequest(es[i], es[i] \in gevent) /\ es[i] \in Event
  <2>1. Len(es) \in Nat /\ DOMAIN es = 1..Len(es) /\ \A i \in 1..Len(es) : es[i] \in Event
    BY <1>2, LenProperties, ElementOfSeq
  <2>2. \A i \in 1..Len(es) : SetEventRequest(es[i], es[i] \in gevent) \in Request
    <3>1. \A e \in Event, on \in BOOLEAN : SetEventRequest(e, on) \in Request
      BY SimpleRequests, 0 \in Nat
    <3>2. \A x : (x \in gevent) \in BOOLEAN
      OBVIOUS
    <3> QED
      BY <2>1, <3>1, <3>2, Zenon
  <2>3. er \in [1..Len(es) -> Request]
    BY <1>4, <2>1, <2>2
  <2> QED
    BY <1>4, <2>1, <2>3
<1>7. br \in Seq(Request) /\ Len(br) = Len(fs) /\ Len(fs) \in Nat
      /\ \A i \in 1..Len(fs) : br[i] = SetBreakRequest(fs[i], gbreak[fs[i]]) /\ fs[i] \in DOMAIN gbreak
  <2>1. Len(fs) \in Nat /\ DOMAIN fs = 1..Len(fs) /\ \A i \in 1..Len(fs) : fs[i] \in DOMAIN gbreak
    BY <1>3, LenProperties, ElementOfSeq
  <2>2. \A i \in 1..Len(fs) : SetBreakRequest(fs[i], gbreak[fs[i]]) \in Request
    <3>1. \A i \in 1..Len(fs) : fs[i] \in BreakName /\ gbreak[fs[i]] \in BOOLEAN
      BY <2>1 DEF TypeOK
    <3> QED
      BY <3>1, SimpleRequests, 0 \in Nat
  <2>3. br \in [1..Len(fs) -> Request]
    BY <1>5, <2>1, <2>2
  <2> QED
    BY <1>5, <2>1, <2>3
<1>8. r \in Request
  <2>1. seq \in Nat
    BY DEF TypeOK
  <2> QED
    BY <2>1, SimpleRequests
<1> HIDE DEF r
<1> DEFINE c == er \o br
           m == Len(es) + Len(fs)
<1>9. /\ c \in Seq(Request) /\ Len(c) = m
      /\ \A i \in 1..m : c[i] = IF i <= Len(es) THEN er[i] ELSE br[i - Len(es)]
  <2>1. /\ c \in Seq(Request) /\ Len(c) = Len(er) + Len(br)
        /\ \A i \in 1..Len(er) + Len(br) : c[i] = IF i <= Len(er) THEN er[i] ELSE br[i - Len(er)]
    <3>1. er \in Seq(Request) /\ br \in Seq(Request)
      BY <1>6, <1>7
    <3> QED
      BY <3>1, ConcatProperties
  <2> HIDE DEF c
  <2> QED
    BY <1>6, <1>7, <2>1
<1> HIDE DEF c
<1>10. /\ c \o <<r>> \in Seq(Request) /\ Len(c \o <<r>>) = m + 1 /\ m \in Nat
       /\ DOMAIN (c \o <<r>>) = 1..(m + 1)
       /\ \A i \in 1..m : (c \o <<r>>)[i] = c[i]
       /\ (c \o <<r>>)[m + 1] = r
  <2>1. /\ Append(c, r) \in Seq(Request) /\ Len(Append(c, r)) = Len(c) + 1
        /\ DOMAIN Append(c, r) = 1..(Len(c) + 1)
        /\ \A i \in 1..Len(c) : Append(c, r)[i] = c[i]
        /\ Append(c, r)[Len(c) + 1] = r
        /\ c \o <<r>> = Append(c, r)
    BY <1>8, <1>9, AppendFacts
  <2>2. Len(c) = m /\ m \in Nat
    BY <1>6, <1>7, <1>9
  <2> HIDE DEF m
  <2> QED
    BY <2>1, <2>2, Zenon
<1>11. \A i \in 1..m : \/ \E e \in Event : c[i] = SetEventRequest(e, e \in gevent)
                       \/ \E f \in DOMAIN gbreak : c[i] = SetBreakRequest(f, gbreak[f])
  <2> SUFFICES ASSUME NEW i \in 1..m
               PROVE  \/ \E e \in Event : c[i] = SetEventRequest(e, e \in gevent)
                      \/ \E f \in DOMAIN gbreak : c[i] = SetBreakRequest(f, gbreak[f])
    OBVIOUS
  <2>1. CASE i <= Len(es)
    <3>1. i \in 1..Len(es) /\ c[i] = er[i]
      BY <1>6, <1>7, <1>9, <2>1
    <3> QED
      BY <1>6, <3>1
  <2>2. CASE ~(i <= Len(es))
    <3>1. i - Len(es) \in 1..Len(fs) /\ c[i] = br[i - Len(es)]
      BY <1>6, <1>7, <1>9, <2>2
    <3> QED
      BY <1>7, <3>1
  <2> QED
    BY <2>1, <2>2
<1>12. ASSUME NEW e \in Event PROVE \E i \in 1..m : c[i] = SetEventRequest(e, e \in gevent)
  <2>1. PICK i \in 1..Len(es) : es[i] = e
    BY <1>2
  <2>2. i \in 1..m /\ c[i] = er[i]
    BY <1>6, <1>7, <1>9
  <2> QED
    BY <1>6, <2>1, <2>2
<1>13. ASSUME NEW f \in DOMAIN gbreak PROVE \E i \in 1..m : c[i] = SetBreakRequest(f, gbreak[f])
  <2>1. PICK i \in 1..Len(fs) : fs[i] = f
    BY <1>3
  <2>2. i + Len(es) \in 1..m /\ ~(i + Len(es) <= Len(es)) /\ (i + Len(es)) - Len(es) = i
    BY <1>6, <1>7
  <2>3. c[i + Len(es)] = br[i]
    BY <1>9, <2>2
  <2> QED
    BY <1>7, <2>1, <2>2, <2>3
<1> DEFINE w == c \o <<r>>
           n == m + 1
<1>14. n - 1 = m /\ n \in Nat \ {0}
  BY <1>10
<1>15. /\ w \in Seq(Request) /\ Len(w) = n /\ n \in Nat \ {0} /\ DOMAIN w = 1..n
       /\ w[n] = r
       /\ \A i \in 1..(n - 1) :
             \/ \E e \in Event : w[i] = SetEventRequest(e, e \in gevent)
             \/ \E f \in DOMAIN gbreak : w[i] = SetBreakRequest(f, gbreak[f])
       /\ \A e \in Event : \E i \in 1..(n - 1) : w[i] = SetEventRequest(e, e \in gevent)
       /\ \A f \in DOMAIN gbreak : \E i \in 1..(n - 1) : w[i] = SetBreakRequest(f, gbreak[f])
  <2> HIDE DEF w, n, m
  <2>1. \A i \in 1..(n - 1) : w[i] = c[i]
    BY <1>10, <1>14 DEF w
  <2>2. w \in Seq(Request) /\ Len(w) = n /\ DOMAIN w = 1..n /\ w[n] = r
    BY <1>10 DEF w, n
  <2> QED
    BY <1>11, <1>12, <1>13, <1>14, <2>1, <2>2
<1> HIDE DEF n, m
<1> QED
  BY <1>15, Zenon DEF w, c, er, br, r

-----------------------------------------------------------------------------
(* A reply adds a response, or ends the program with SIGPIPE. *)
LEMMA ReplyType == ASSUME TypeOK, NEW r \in Response, NEW next, Reply(r, next)
    PROVE  resps' \in Seq(Response) /\ apc' \in {next, "exited"}
BY RepliesStep DEF Reply, TypeOK

(* Sending keeps the pipe a sequence of requests; it may find gldb killed by SIGPIPE. *)
LEMMA SendType == ASSUME TypeOK, NEW m \in Request, Send(<<m>>)
    PROVE  reqs' \in Seq(Request) /\ galive' \in BOOLEAN /\ (galive' => galive)
<1>1. reqs \in Seq(Request) /\ galive \in BOOLEAN
  BY DEF TypeOK
<1>2. reqs \o <<m>> \in Seq(Request)
  BY <1>1, AppendFacts
<1> QED
  BY <1>1, <1>2 DEF Send

(* A query takes the next number and puts its handler last. *)
LEMMA Queried1 == ASSUME TypeOK, Query(<<>>)
    PROVE  /\ [code |-> "DATA", id |-> seq, asked |-> started] \in Request
           /\ Send(<<[code |-> "DATA", id |-> seq, asked |-> started]>>)
           /\ handlers' = Append(handlers, seq) /\ seq' = seq + 1
           /\ handlers' \in Seq(Nat) /\ Len(handlers) \in Nat /\ Len(handlers') = Len(handlers) + 1
           /\ DOMAIN handlers = 1..Len(handlers) /\ DOMAIN handlers' = 1..(Len(handlers) + 1)
           /\ \A i \in 1..Len(handlers) : handlers'[i] = handlers[i]
           /\ handlers'[Len(handlers) + 1] = seq
<1> DEFINE m == [code |-> "DATA", id |-> seq, asked |-> started]
<1>1. seq \in Nat /\ started \in Nat /\ handlers \in Seq(Nat)
  BY DEF TypeOK
<1>2. m \in Request
  BY <1>1, SimpleRequests
<1> HIDE DEF m
<1>3. <<m>> \in Seq(Request)
  BY <1>2
<1>4. <<>> \o <<m>> = <<m>>
  BY <1>3, ConcatEmptySeq
<1>5. handlers' = Append(handlers, seq) /\ seq' = seq + 1 /\ Send(<<>> \o <<m>>)
  BY DEF Query, m
<1>6. Send(<<m>>)
  BY <1>4, <1>5
<1> QED
  BY <1>1, <1>2, <1>5, <1>6, AppendFacts DEF m

(* The application's steps keep the type invariant. *)
LEMMA TypeApp == ASSUME TypeOK,
                        Deliver \/ (\E c \in Calls : PreCallback(c)) \/ Invoke \/ LoopStep \/ AppDies
                 PROVE  TypeOK'
<1> USE DEF app, debugger, requests, tables, gui
<1>0. NameAssumption
  BY NameAssumption
<1>1. CASE Deliver
  <2>1. rq' \in Seq(Request) /\ reqs' \in Seq(Request)
    BY <1>1, DeliverStep
  <2>2. reading' \in BOOLEAN
    BY <1>1 DEF Deliver, TypeOK
  <2> QED
    BY <1>1, <2>1, <2>2 DEF Deliver, TypeOK
<1>2. ASSUME NEW c \in Calls, PreCallback(c) PROVE TypeOK'
  <2>1. [code |-> "BREAK", id |-> start_id] \in Response
    BY SimpleResponses, 0 \in Nat DEF TypeOK
  <2>2. resps' \in Seq(Response) /\ apc' \in {"pre", "exited"}
    BY <1>2, <2>1, ReplyType DEF PreCallback, TypeOK
  <2>3. stopped' \in BOOLEAN
    BY <1>2 DEF PreCallback, TypeOK
  <2> QED
    BY <1>2, <2>2, <2>3 DEF PreCallback, TypeOK, Loop
<1>3. CASE Invoke
  <2>1. [code |-> "BREAK_EVENT", id |-> start_id] \in Response
    BY SimpleResponses, 0 \in Nat DEF TypeOK
  <2>2. PICK error, failed \in BOOLEAN :
           IF RaisedEvent(call, gl', error, failed) # "none"
           THEN Reply([code |-> "BREAK_EVENT", id |-> start_id], "post") /\ stopped' = TRUE
           ELSE apc' = "idle" /\ UNCHANGED <<stopped, resps>>
    BY <1>3 DEF Invoke
  <2>3. resps' \in Seq(Response) /\ apc' \in {"post", "idle", "exited"} /\ stopped' \in BOOLEAN
    BY <2>1, <2>2, ReplyType DEF TypeOK
  <2>4. gl' \in {"none", "inside", "outside"}
    BY <1>3 DEF Invoke, AfterCall, TypeOK
  <2> QED
    BY <1>3, <2>3, <2>4 DEF Invoke, TypeOK, Loop
<1>4. CASE LoopNoData
  BY <1>4 DEF LoopNoData, Left, TypeOK, Loop
<1>5. CASE LoopEOF
  <2>1. rq' \in Seq(Request)
    BY <1>5, TakesStep DEF LoopEOF
  <2> QED
    BY <1>5, <2>1 DEF LoopEOF, Left, TypeOK, Loop
<1>6. CASE Process
  <2>1. /\ apc \in Loop /\ rq # <<>> /\ rq' = Tail(rq)
        /\ UNCHANGED <<call, gl, reqs, reading, galive, tables, gui, started, base>>
    BY <1>6 DEF Process, DoRun, DoContinue, DoBreak, DoBreakEvent, DoStateTree, DoData, DoAsync, DoQuit, Takes
  <2>2. rq' \in Seq(Request) /\ Head(rq) \in Request
    BY <2>1, TakesStep
  <2>3. ASSUME resps' \in Seq(Response), apc' \in Loop \cup {"exited", "idle", "invoke"}, stopped' \in BOOLEAN,
               break_on' \subseteq Known, break_on_event' \subseteq Event, start_id' \in Nat
        PROVE  TypeOK'
    BY <2>1, <2>2, <2>3 DEF TypeOK
  <2>4. Left \in {"idle", "invoke"} /\ Stays(stopped) \in Loop \cup {"idle", "invoke"} /\ apc \in Loop
    BY <2>1 DEF Left, Stays
  <2>5. Head(rq).id \in Nat
    BY <2>2, RequestFacts
  <2>t. /\ resps \in Seq(Response) /\ stopped \in BOOLEAN /\ break_on \subseteq Known
        /\ break_on_event \subseteq Event /\ start_id \in Nat /\ AnsweredFrom \in Nat \cup {NoTree}
    BY DEF TypeOK, AnsweredFrom
  <2>6. CASE DoRun
    <3>1. [code |-> "RUNNING", id |-> Head(rq).id] \in Response
      BY <2>5, SimpleResponses
    <3>2. resps' \in Seq(Response) /\ apc' \in {Left, "exited"}
      BY <2>6, <3>1, ReplyType DEF DoRun
    <3> QED
      BY <2>3, <2>4, <2>5, <2>6, <2>t, <3>2 DEF DoRun
  <2>7. ASSUME NEW code, DoContinue(code) PROVE TypeOK'
    BY <2>3, <2>4, <2>5, <2>7, <2>t DEF DoContinue
  <2>8. CASE DoBreak
    <3>1. Head(rq).id = 0
      BY <2>2, <2>8, RequestFacts DEF DoBreak, Takes
    <3>2. [code |-> "ANS", id |-> Head(rq).id] \in Response /\ [code |-> "ERROR", id |-> Head(rq).id] \in Response
      BY <3>1, SimpleResponses, 0 \in Nat
    <3>3. resps' \in Seq(Response) /\ apc' \in {Stays(stopped), "exited"}
      BY <2>8, <3>2, ReplyType DEF DoBreak
    <3>4. break_on' \subseteq Known
      BY <2>8, <2>t DEF DoBreak
    <3> QED
      BY <2>3, <2>4, <2>8, <2>t, <3>3, <3>4 DEF DoBreak
  <2>9. CASE DoBreakEvent
    <3>1. Head(rq).id = 0 /\ Head(rq).name \in Event
      BY <2>2, <2>9, RequestFacts DEF DoBreakEvent, Takes
    <3>2. [code |-> "ANS", id |-> Head(rq).id] \in Response
      BY <3>1, SimpleResponses, 0 \in Nat
    <3>3. resps' \in Seq(Response) /\ apc' \in {Stays(stopped), "exited"}
      BY <2>9, <3>2, ReplyType DEF DoBreakEvent
    <3>4. break_on_event' \subseteq Event
      BY <2>9, <2>t, <3>1 DEF DoBreakEvent
    <3> QED
      BY <2>3, <2>4, <2>9, <2>t, <3>3, <3>4 DEF DoBreakEvent
  <2>10. CASE DoStateTree
    <3>1. Head(rq).asked \in Nat /\ Head(rq).id = 0
      BY <2>2, <2>10, RequestFacts DEF DoStateTree, Takes, Queries
    <3>2. \A c \in {"STATE", "ERROR"} :
             [code |-> c, id |-> Head(rq).id, asked |-> Head(rq).asked, from |-> AnsweredFrom] \in Response
      BY <2>5, <2>t, <3>1, SimpleResponses
    <3>3. resps' \in Seq(Response) /\ apc' \in {Stays(stopped), "exited"}
      BY <2>10, <3>2, ReplyType DEF DoStateTree
    <3> QED
      BY <2>3, <2>4, <2>10, <2>t, <3>3 DEF DoStateTree
  <2>11. CASE DoData
    <3>1. Head(rq).asked \in Nat
      BY <2>2, <2>11, RequestFacts DEF DoData, Takes, Queries
    <3>2. \A c \in {"DATA", "ERROR"} :
             [code |-> c, id |-> Head(rq).id, asked |-> Head(rq).asked, from |-> AnsweredFrom] \in Response
      BY <2>5, <2>t, <3>1, SimpleResponses
    <3>3. resps' \in Seq(Response) /\ apc' \in {Stays(stopped), "exited"}
      BY <2>11, <3>2, ReplyType DEF DoData
    <3> QED
      BY <2>3, <2>4, <2>11, <2>t, <3>3 DEF DoData
  <2>12. CASE DoAsync
    <3>1. [code |-> "BREAK", id |-> start_id] \in Response
      BY <2>t, SimpleResponses
    <3>2. resps' \in Seq(Response) /\ apc' \in {Left, apc, "exited"}
      BY <2>12, <2>t, <3>1, ReplyType DEF DoAsync
    <3>3. stopped' \in BOOLEAN
      BY <2>12, <2>t DEF DoAsync
    <3> QED
      BY <2>3, <2>4, <2>12, <2>t, <3>2, <3>3 DEF DoAsync
  <2>13. CASE DoQuit
    BY <2>3, <2>4, <2>13, <2>t DEF DoQuit
  <2> QED
    BY <1>6, <2>6, <2>7, <2>8, <2>9, <2>10, <2>11, <2>12, <2>13 DEF Process
<1>7. CASE AppDies
  <2>1. <<>> \in Seq(Request)
    OBVIOUS
  <2> QED
    BY <1>7, <2>1 DEF AppDies, TypeOK
<1> QED
  BY <1>1, <1>2, <1>3, <1>4, <1>5, <1>6, <1>7 DEF LoopStep

(* The user's steps, and gldb's death, keep the type invariant. *)
LEMMA TypeUser == ASSUME TypeOK, UserNext \/ GldbDies
                  PROVE  TypeOK'
<1> USE DEF app, debugger, requests, tables, gui
<1>0. seq \in Nat /\ started \in Nat /\ seq + 1 \in Nat /\ started < seq + 1 /\ seq < seq + 1 /\ seq <= seq + 1
  BY DEF TypeOK
<1>1. CASE Run
  <2> DEFINE rs == EventRequests \o BreakRequests \o <<[code |-> "RUN", id |-> seq]>>
  <2>1. rs \in Seq(Request)
    BY RunRequests
  <2> HIDE DEF rs
  <2>2. reqs' = rs
    BY <1>1 DEF Run, rs
  <2>3. /\ apc' = "init" /\ gl' = "none" /\ stopped' = TRUE /\ break_on' = {} /\ break_on_event' = Event
        /\ start_id' = 0 /\ rq' = <<>> /\ reading' = TRUE /\ resps' = <<>> /\ galive' = galive
        /\ status' = "STARTED" /\ root' \in {root, NoTree} /\ handlers' = handlers
        /\ gbreak' = gbreak /\ gevent' = gevent /\ seq' = seq + 1 /\ started' = seq /\ base' = seq
    BY <1>1 DEF Run, SetStatus
  <2>4. 0 \in Nat /\ <<>> \in Seq(Request) /\ <<>> \in Seq(Response) /\ {} \subseteq Known
    OBVIOUS
  <2> QED
    BY <1>0, <2>1, <2>2, <2>3, <2>4 DEF TypeOK, Loop
<1>2. CASE StopAction
  <2>1. reqs' \in Seq(Request) /\ galive' \in BOOLEAN
    BY <1>0, <1>2, SimpleRequests, SendType DEF StopAction
  <2> QED
    BY <1>0, <1>2, <2>1 DEF StopAction, TypeOK
<1>3. ASSUME NEW code \in {"CONT", "STEP"}, ContinueAction(code) PROVE TypeOK'
  <2>1. reqs' \in Seq(Request) /\ galive' \in BOOLEAN
    BY <1>0, <1>3, SimpleRequests, SendType DEF ContinueAction
  <2>2. base' <= seq'
    BY <1>0, <1>3 DEF ContinueAction, TypeOK
  <2>3. status' \in {"DEAD", "STARTED", "RUNNING", "STOPPED"} /\ root' \in Nat \cup {NoTree}
    BY <1>3 DEF ContinueAction, SetStatus, TypeOK
  <2> QED
    BY <1>0, <1>3, <2>1, <2>2, <2>3 DEF ContinueAction, TypeOK
<1>4. CASE KillAction
  <2>1. reqs' \in Seq(Request) /\ galive' \in BOOLEAN
    BY <1>0, <1>4, SimpleRequests, SendType DEF KillAction
  <2> QED
    BY <1>0, <1>4, <2>1 DEF KillAction, TypeOK
<1>5. CASE PaneQuery
  <2>1. reqs' \in Seq(Request) /\ galive' \in BOOLEAN /\ handlers' \in Seq(Nat) /\ seq' = seq + 1
    BY <1>5, Queried1, SendType DEF PaneQuery
  <2> QED
    BY <1>0, <1>5, <2>1 DEF PaneQuery, TypeOK
<1>6. CASE Shutdown
  <2>1. /\ <<[code |-> "ASYNC", id |-> 0], [code |-> "QUIT", id |-> 0]>> \in Seq(Request)
        /\ <<[code |-> "QUIT", id |-> 0]>> \in Seq(Request)
    <3>1. [code |-> "ASYNC", id |-> 0] \in Request /\ [code |-> "QUIT", id |-> 0] \in Request
      BY SimpleRequests, 0 \in Nat
    <3> QED
      BY <3>1
  <2>2. reqs' \in Seq(Request)
    <3>1. reqs \in Seq(Request)
      BY DEF TypeOK
    <3> QED
      BY <1>6, <2>1, <3>1, ConcatProperties DEF Shutdown
  <2>3. <<>> \in Seq(Response)
    OBVIOUS
  <2> QED
    BY <1>6, <2>2, <2>3 DEF Shutdown, TypeOK
<1>7. ASSUME NEW f \in BreakName, NEW on \in BOOLEAN, SetBreak(f, on) PROVE TypeOK'
  <2>1. reqs' \in Seq(Request) /\ galive' \in BOOLEAN
    <3>1. SetBreakRequest(f, on) \in Request
      BY SimpleRequests, 0 \in Nat
    <3>2. reqs \in Seq(Request) /\ galive \in BOOLEAN
      BY DEF TypeOK
    <3> QED
      BY <1>7, <3>1, <3>2, SendType DEF SetBreak, SendIfAlive
  <2>2. gbreak' = [g \in DOMAIN gbreak \cup {f} |-> IF g = f THEN on ELSE gbreak[g]]
    BY <1>7 DEF SetBreak
  <2>3. IsFiniteSet(DOMAIN gbreak \cup {f})
    BY FS_AddElement DEF TypeOK
  <2>4. DOMAIN gbreak' = DOMAIN gbreak \cup {f} /\ DOMAIN gbreak \subseteq BreakName
    BY <2>2 DEF TypeOK
  <2>5. \A g \in DOMAIN gbreak' : gbreak'[g] \in BOOLEAN
    BY <2>2 DEF TypeOK
  <2>6. DOMAIN gbreak' \subseteq BreakName /\ IsFiniteSet(DOMAIN gbreak')
    BY <2>3, <2>4
  <2> QED
    BY <1>7, <2>1, <2>5, <2>6 DEF SetBreak, TypeOK
<1>8. ASSUME NEW e \in ToggledEvent, NEW on \in BOOLEAN, SetBreakEvent(e, on) PROVE TypeOK'
  <2>0. e \in Event
    BY EventAssumption
  <2>1. reqs' \in Seq(Request) /\ galive' \in BOOLEAN
    <3>1. SetEventRequest(e, on) \in Request
      BY <2>0, SimpleRequests, 0 \in Nat
    <3>2. reqs \in Seq(Request) /\ galive \in BOOLEAN
      BY DEF TypeOK
    <3> QED
      BY <1>8, <3>1, <3>2, SendType DEF SetBreakEvent, SendIfAlive
  <2>2. gevent' \subseteq Event
    BY <1>8, <2>0 DEF SetBreakEvent, TypeOK
  <2> QED
    BY <1>8, <2>1, <2>2 DEF SetBreakEvent, TypeOK
<1>9. CASE GldbDies
  <2>1. <<>> \in Seq(Response)
    OBVIOUS
  <2> QED
    BY <1>9, <2>1 DEF GldbDies, TypeOK
<1> QED
  BY <1>1, <1>2, <1>3, <1>4, <1>5, <1>6, <1>7, <1>8, <1>9 DEF UserNext

(* What gldb does with a response keeps the type invariant. *)
LEMMA TypeRespond == ASSUME TypeOK, Respond PROVE TypeOK'
<1> USE DEF app, debugger, requests, tables, gui
<1>1. CASE OnBreak
  <2>1. resps' \in Seq(Response) /\ Head(resps) \in Response
    BY <1>1, ReceivesStep DEF OnBreak
  <2>2. handlers' \in Seq(Nat)
    BY <1>1, <2>1, ResponseFacts, Erased DEF OnBreak, TypeOK
  <2>3. reqs' \in Seq(Request) /\ galive' \in BOOLEAN
    <3>1. [code |-> "STATE_TREE_RAW", id |-> 0, asked |-> started] \in Request
      BY SimpleRequests, 0 \in Nat DEF TypeOK
    <3> QED
      BY <1>1, <3>1, SendType DEF OnBreak
  <2>4. status' \in {"DEAD", "STARTED", "RUNNING", "STOPPED"} /\ root' \in Nat \cup {NoTree}
    BY <1>1 DEF OnBreak, SetStatus, TypeOK
  <2> QED
    BY <1>1, <2>1, <2>2, <2>3, <2>4 DEF OnBreak, Receives, TypeOK
<1>2. CASE OnRunning
  <2>1. resps' \in Seq(Response) /\ Head(resps) \in Response
    BY <1>2, ReceivesStep DEF OnRunning
  <2>2. handlers' \in Seq(Nat)
    BY <1>2, <2>1, ResponseFacts, Erased DEF OnRunning, TypeOK
  <2>4. status' \in {"DEAD", "STARTED", "RUNNING", "STOPPED"} /\ root' \in Nat \cup {NoTree}
    BY <1>2 DEF OnRunning, SetStatus, TypeOK
  <2> QED
    BY <1>2, <2>1, <2>2, <2>4 DEF OnRunning, Receives, TypeOK
<1>3. CASE OnState
  <2>1. resps' \in Seq(Response) /\ Head(resps) \in Response /\ Head(resps).code \in {"STATE"}
    BY <1>3, ReceivesStep DEF OnState
  <2>2. root' \in Nat \cup {NoTree}
    BY <1>3, <2>1, ResponseFacts DEF OnState
  <2>3. CASE status = "STOPPED" /\ Numbered /\ Query(<<>>)
    <3>1. reqs' \in Seq(Request) /\ galive' \in BOOLEAN /\ handlers' \in Seq(Nat) /\ seq' = seq + 1
      BY <2>3, Queried1, SendType
    <3>2. seq' \in Nat /\ started < seq' /\ base <= seq'
      BY <3>1 DEF TypeOK
    <3> QED
      BY <1>3, <2>1, <2>2, <3>1, <3>2 DEF OnState, Receives, TypeOK
  <2>4. CASE UNCHANGED <<reqs, galive, handlers, seq>>
    BY <1>3, <2>1, <2>2, <2>4 DEF OnState, Receives, TypeOK
  <2> QED
    BY <1>3, <2>3, <2>4 DEF OnState
<1>4. CASE OnAnswer
  <2>1. resps' \in Seq(Response) /\ Head(resps) \in Response
    BY <1>4, ReceivesStep DEF OnAnswer
  <2>2. handlers' \in Seq(Nat)
    <3>1. AfterErase(Head(resps).id) \in Seq(Nat)
      BY <2>1, ResponseFacts, Erased DEF TypeOK
    <3>2. Answers(Head(resps).id) => Tail(AfterErase(Head(resps).id)) \in Seq(Nat)
      BY <3>1, TailFacts DEF Answers
    <3> QED
      BY <1>4, <3>1, <3>2 DEF OnAnswer
  <2> QED
    BY <1>4, <2>1, <2>2 DEF OnAnswer, Receives, TypeOK
<1>5. CASE OnEOF
  <2>4. status' \in {"DEAD", "STARTED", "RUNNING", "STOPPED"} /\ root' \in Nat \cup {NoTree}
    BY <1>5 DEF OnEOF, SetStatus, TypeOK
  <2> QED
    BY <1>5, <2>4 DEF OnEOF, TypeOK
<1> QED
  BY <1>1, <1>2, <1>3, <1>4, <1>5 DEF Respond

(* The type invariant holds at the start. *)
LEMMA TypeInit == Init => TypeOK
<1> SUFFICES ASSUME Init PROVE TypeOK
  OBVIOUS
<1>1. IsFiniteSet({})
  BY FS_EmptySet
<1>2. <<>> \in Seq(Request) /\ <<>> \in Seq(Response) /\ <<>> \in Seq(Nat)
  OBVIOUS
<1>3. DOMAIN gbreak = {}
  BY DEF Init
<1>4. DOMAIN gbreak \subseteq BreakName /\ IsFiniteSet(DOMAIN gbreak) /\ \A f \in DOMAIN gbreak : gbreak[f] \in BOOLEAN
  BY <1>1, <1>3
<1>5. /\ apc = "exited" /\ gl = "none" /\ stopped = TRUE /\ break_on = {} /\ break_on_event = Event
      /\ start_id = 0 /\ reqs = <<>> /\ rq = <<>> /\ reading = FALSE /\ resps = <<>>
      /\ galive = TRUE /\ status = "DEAD" /\ gevent = Event /\ seq = 1 /\ handlers = <<>>
      /\ root = NoTree /\ started = 0 /\ base = 1
  BY DEF Init
<1>6. /\ reqs \in Seq(Request) /\ rq \in Seq(Request) /\ resps \in Seq(Response) /\ handlers \in Seq(Nat)
  BY <1>2, <1>5
<1>7. /\ apc \in Loop \cup {"exited", "idle", "invoke"} /\ gl \in {"none", "inside", "outside"}
      /\ stopped \in BOOLEAN /\ break_on \subseteq Known /\ break_on_event \subseteq Event
      /\ start_id \in Nat /\ reading \in BOOLEAN /\ galive \in BOOLEAN
      /\ status \in {"DEAD", "STARTED", "RUNNING", "STOPPED"}
  BY <1>5
<1>8. /\ gevent \subseteq Event /\ root \in Nat \cup {NoTree}
      /\ seq \in Nat /\ started \in Nat /\ base \in Nat /\ started < seq /\ base <= seq
  BY <1>5
<1> QED
  BY <1>4, <1>6, <1>7, <1>8, Zenon DEF TypeOK

(* Every step keeps the type invariant. *)
LEMMA TypeNext == ASSUME TypeOK, [Next]_vars PROVE TypeOK'
<1>1. CASE UNCHANGED vars
  BY <1>1 DEF TypeOK, vars, app, debugger, requests, tables, gui
<1> QED
  BY <1>1, TypeApp, TypeUser, TypeRespond DEF Next

-----------------------------------------------------------------------------
(* The application's steps keep where it is in line with whether it is stopped. *)
LEMMA LoopApp == ASSUME TypeOK, LoopInv,
                        Deliver \/ (\E c \in Calls : PreCallback(c)) \/ Invoke \/ LoopStep \/ AppDies
                 PROVE  LoopInv'
<1> USE DEF app, debugger, requests, tables, gui
<1>t. stopped \in BOOLEAN /\ galive \in BOOLEAN
  BY DEF TypeOK
<1>1. CASE Deliver
  BY <1>1 DEF Deliver, LoopInv
<1>2. ASSUME NEW c \in Calls, PreCallback(c) PROVE LoopInv'
  BY <1>2, <1>t DEF PreCallback, Reply, LoopInv
<1>3. CASE Invoke
  <2>1. PICK error, failed \in BOOLEAN :
           IF RaisedEvent(call, gl', error, failed) # "none"
           THEN Reply([code |-> "BREAK_EVENT", id |-> start_id], "post") /\ stopped' = TRUE
           ELSE apc' = "idle" /\ UNCHANGED <<stopped, resps>>
    BY <1>3 DEF Invoke
  <2> QED
    BY <1>3, <1>t, <2>1 DEF Invoke, Reply, LoopInv
<1>4. CASE LoopNoData
  BY <1>4, <1>t DEF LoopNoData, Left, LoopInv, Loop
<1>5. CASE LoopEOF
  BY <1>5, <1>t DEF LoopEOF, Left, LoopInv, Loop
<1>6. CASE Process
  <2>1. apc \in Loop /\ UNCHANGED <<galive, status, can_stop, can_continue>>
    BY <1>6 DEF Process, DoRun, DoContinue, DoBreak, DoBreakEvent, DoStateTree, DoData, DoAsync, DoQuit, Takes
  <2>2. \/ stopped' = FALSE /\ apc' \in {Left, "exited"}
        \/ stopped' = stopped /\ apc' \in {Stays(stopped), "exited"}
        \/ stopped' = stopped /\ apc' = apc
        \/ ~stopped /\ stopped' = stopped /\ apc' = Left
        \/ stopped' = TRUE /\ apc' \in {apc, "exited"}
    BY <1>6, <1>t DEF Process, DoRun, DoContinue, DoBreak, DoBreakEvent, DoStateTree, DoData, DoAsync, DoQuit, Reply
  <2>3. ~galive => resps' = resps
    BY <1>6 DEF Process, DoRun, DoContinue, DoBreak, DoBreakEvent, DoStateTree, DoData, DoAsync, DoQuit, Reply
  <2> QED
    BY <1>t, <2>1, <2>2, <2>3 DEF LoopInv, Loop, Left, Stays
<1>7. CASE AppDies
  BY <1>7 DEF AppDies, LoopInv
<1> QED
  BY <1>1, <1>2, <1>3, <1>4, <1>5, <1>6, <1>7 DEF LoopStep

(* gldb's steps leave the application where it is. *)
LEMMA LoopGui == ASSUME TypeOK, LoopInv, UserNext \/ GldbDies \/ Respond
                 PROVE  LoopInv'
<1> USE DEF app, debugger, requests, tables, gui
<1>t. galive \in BOOLEAN
  BY DEF TypeOK
<1>1. CASE Run
  BY <1>1 DEF Run, LoopInv, SetStatus
<1>2. CASE StopAction \/ KillAction
  BY <1>2, <1>t DEF StopAction, KillAction, Send, LoopInv, UserActs
<1>3. ASSUME NEW code, ContinueAction(code) PROVE LoopInv'
  BY <1>3, <1>t DEF ContinueAction, Send, LoopInv, UserActs, SetStatus
<1>4. CASE PaneQuery
  BY <1>4, <1>t DEF PaneQuery, Query, Send, LoopInv, UserActs
<1>5. CASE Shutdown \/ GldbDies
  BY <1>5, <1>t DEF Shutdown, GldbDies, LoopInv
<1>6. ASSUME NEW f, NEW on, SetBreak(f, on) PROVE LoopInv'
  BY <1>6, <1>t DEF SetBreak, SendIfAlive, Send, LoopInv, UserActs
<1>7. ASSUME NEW e, NEW on, SetBreakEvent(e, on) PROVE LoopInv'
  BY <1>7, <1>t DEF SetBreakEvent, SendIfAlive, Send, LoopInv, UserActs
<1>8. CASE OnBreak
  BY <1>8, <1>t DEF OnBreak, Receives, Send, SetStatus, LoopInv
<1>9. CASE OnRunning
  BY <1>9, <1>t DEF OnRunning, Receives, SetStatus, LoopInv
<1>10. CASE OnState
  BY <1>10, <1>t DEF OnState, Receives, Query, Send, LoopInv
<1>11. CASE OnAnswer
  BY <1>11, <1>t DEF OnAnswer, Receives, LoopInv
<1>12. CASE OnEOF
  BY <1>12, <1>t DEF OnEOF, SetStatus, LoopInv
<1> QED
  BY <1>1, <1>2, <1>3, <1>4, <1>5, <1>6, <1>7, <1>8, <1>9, <1>10, <1>11, <1>12 DEF UserNext, Respond

-----------------------------------------------------------------------------
(* What the steps of the application come to while gldb is there. *)
Quiet == UNCHANGED <<galive, tables, gui, started, base>>
Tells(r) == r \in Response /\ resps' = Append(resps, r)
Unset == UNCHANGED <<break_on, break_on_event>>

\* It goes on, or waits.
Moves ==
    /\ Quiet /\ Unset /\ Pending' = Pending /\ UNCHANGED <<resps, stopped, start_id>>
    /\ apc # "exited" /\ apc' # "exited" /\ (apc' = "init" <=> apc = "init")

\* It stops of itself, and says so.
Stops ==
    /\ Quiet /\ Unset /\ Pending' = Pending /\ UNCHANGED start_id
    /\ ~stopped /\ stopped' = TRUE /\ apc \in {"idle", "invoke"} /\ apc' \in {"pre", "post"}
    /\ \E c \in Breaks : Tells([code |-> c, id |-> start_id])

Dies == Quiet /\ apc' = "exited" /\ UNCHANGED resps

\* It takes one request, and acts on it.
Acts(codes) ==
    /\ Quiet /\ apc \in Loop /\ rq # <<>> /\ Head(rq).code \in codes
    /\ rq' = Tail(rq) /\ UNCHANGED reqs

Starting ==
    /\ Acts(Starts) /\ Unset
    /\ stopped' = FALSE /\ apc' \in {"invoke", "idle"}
    /\ start_id' = Head(rq).id
    /\ IF Head(rq).code = "RUN" THEN Tells([code |-> "RUNNING", id |-> Head(rq).id])
       ELSE UNCHANGED resps

Setting ==
    /\ Acts({"SETBREAK", "SETEVENT"})
    /\ UNCHANGED <<stopped, start_id>> /\ apc' \in {apc, "invoke", "idle"} /\ apc' = Stays(stopped)
    /\ \E c \in {"ANS", "ERROR"} : Tells([code |-> c, id |-> 0])
    /\ LET r == Head(rq) IN
          /\ break_on' = IF r.code = "SETBREAK" /\ r.name \in Known
                         THEN IF r.on THEN break_on \cup {r.name} ELSE break_on \ {r.name}
                         ELSE break_on
          /\ break_on_event' = IF r.code = "SETEVENT"
                               THEN IF r.on THEN break_on_event \cup {r.name}
                                    ELSE break_on_event \ {r.name}
                               ELSE break_on_event

Answering ==
    /\ Acts(Queries) /\ Unset
    /\ UNCHANGED <<stopped, start_id>> /\ apc' \in {apc, "invoke", "idle"} /\ apc' = Stays(stopped)
    /\ \E c \in {"STATE", "DATA", "ERROR"} :
          Tells([code |-> c, id |-> Head(rq).id, asked |-> Head(rq).asked, from |-> AnsweredFrom])

Interrupted ==
    /\ Acts({"ASYNC"}) /\ Unset /\ UNCHANGED start_id
    /\ \/ UNCHANGED <<resps, stopped>> /\ apc' \in {apc, "invoke", "idle"} /\ (apc' = "init" => apc = "init")
       \/ /\ ~stopped /\ stopped' = TRUE /\ apc' = apc
          /\ Tells([code |-> "BREAK", id |-> start_id])

AppKinds == Moves \/ Stops \/ Dies \/ Starting \/ Setting \/ Answering \/ Interrupted

(* While gldb is there, each step of the application is of one of these kinds: what
   debugger_loop does with a request or with none, and nothing else. *)
LEMMA AppSteps == ASSUME TypeOK, LoopInv, ControlInv, galive,
                         Deliver \/ (\E c \in Calls : PreCallback(c)) \/ Invoke \/ LoopStep \/ AppDies
                  PROVE  AppKinds
<1> USE DEF app, debugger, requests
<1>t. start_id \in Nat /\ stopped \in BOOLEAN
  BY DEF TypeOK
<1>1. CASE Deliver
  <2>1. Pending' = Pending
    BY <1>1, DeliverStep
  <2> QED
    BY <1>1, <2>1 DEF Deliver, AppKinds, Moves, Quiet, Unset
<1>2. ASSUME NEW c \in Calls, PreCallback(c) PROVE AppKinds
  <2>1. Pending' = Pending
    BY <1>2 DEF PreCallback, Pending
  <2>2. [code |-> "BREAK", id |-> start_id] \in Response
    BY <1>t, SimpleResponses
  <2>3. apc = "idle" /\ ~stopped
    BY <1>2 DEF PreCallback, LoopInv
  <2>4. Quiet /\ Unset /\ UNCHANGED start_id
    BY <1>2 DEF PreCallback, Quiet, Unset
  <2>5. CASE Stoppable /\ (c \in break_on \/ break_on_next)
    BY <1>2, <2>1, <2>2, <2>3, <2>4, <2>5 DEF PreCallback, AppKinds, Stops, Tells, Reply, Breaks
  <2>6. CASE ~(Stoppable /\ (c \in break_on \/ break_on_next))
    BY <1>2, <2>1, <2>3, <2>4, <2>6 DEF PreCallback, AppKinds, Moves
  <2> QED
    BY <2>5, <2>6
<1>3. CASE Invoke
  <2>0. PICK error, failed \in BOOLEAN :
           IF RaisedEvent(call, gl', error, failed) # "none"
           THEN Reply([code |-> "BREAK_EVENT", id |-> start_id], "post") /\ stopped' = TRUE
           ELSE apc' = "idle" /\ UNCHANGED <<stopped, resps>>
    BY <1>3 DEF Invoke
  <2>1. Pending' = Pending
    BY <1>3 DEF Invoke, Pending
  <2>2. [code |-> "BREAK_EVENT", id |-> start_id] \in Response
    BY <1>t, SimpleResponses
  <2>3. apc = "invoke" /\ ~stopped
    BY <1>3 DEF Invoke, LoopInv
  <2>4. Quiet /\ Unset /\ UNCHANGED start_id
    BY <1>3 DEF Invoke, Quiet, Unset
  <2>5. CASE RaisedEvent(call, gl', error, failed) # "none"
    BY <2>0, <2>1, <2>2, <2>3, <2>4, <2>5 DEF AppKinds, Stops, Tells, Reply, Breaks
  <2>6. CASE ~(RaisedEvent(call, gl', error, failed) # "none")
    BY <2>0, <2>1, <2>3, <2>4, <2>6 DEF AppKinds, Moves
  <2> QED
    BY <2>5, <2>6
<1>4. CASE LoopNoData
  <2>1. Pending' = Pending
    BY <1>4 DEF LoopNoData, Pending
  <2> QED
    BY <1>4, <2>1 DEF LoopNoData, LoopInv, AppKinds, Moves, Quiet, Unset, Loop, Left
<1>5. ~LoopEOF
  <2> SUFFICES ASSUME LoopEOF PROVE FALSE
    OBVIOUS
  <2>1. Joined /\ Head(rq).code \in {"NULL"} /\ rq # <<>>
    BY DEF LoopEOF, Joined, Loop, Null
  <2>2. rq' = Tail(rq) /\ reqs' = reqs
    BY DEF LoopEOF
  <2>3. Has(Pending, {"NULL"})
    BY <2>1, <2>2, TakesStep
  <2> QED
    BY <2>1, <2>3 DEF ControlInv
<1>6. CASE Process
  <2>2. ASSUME NEW code, Takes(code)
        PROVE  Quiet /\ Acts({code}) /\ Head(rq) \in Request /\ Head(rq).code = code /\ Head(rq).id \in Nat
    <3>1. Head(rq) \in Request
      BY <2>2, TakesStep DEF Takes
    <3> QED
      BY <2>2, <3>1, RequestFacts DEF Takes, Acts, Quiet
  <2>3. Left \in {"invoke", "idle"} /\ Stays(stopped) \in {apc, "invoke", "idle"}
    BY DEF Left, Stays
  <2>4. CASE DoRun
    <3>1. Quiet /\ Acts({"RUN"}) /\ Head(rq).code = "RUN" /\ Head(rq).id \in Nat
      BY <2>2, <2>4 DEF DoRun
    <3>2. [code |-> "RUNNING", id |-> Head(rq).id] \in Response
      BY <3>1, SimpleResponses
    <3> QED
      BY <2>3, <2>4, <3>1, <3>2 DEF DoRun, AppKinds, Starting, Acts, Tells, Reply, Unset, Starts
  <2>5. ASSUME NEW code \in {"CONT", "STEP"}, DoContinue(code) PROVE AppKinds
    <3>1. Quiet /\ Acts({code}) /\ Head(rq).code = code /\ Head(rq).id \in Nat
      BY <2>2, <2>5 DEF DoContinue
    <3> QED
      BY <2>3, <2>5, <3>1 DEF DoContinue, AppKinds, Starting, Acts, Unset, Starts
  <2>6. CASE DoBreak
    <3>1. Quiet /\ Acts({"SETBREAK"}) /\ Head(rq).code = "SETBREAK" /\ Head(rq).id = 0
      BY <2>2, <2>6, RequestFacts DEF DoBreak
    <3>2. \A c \in {"ANS", "ERROR"} : [code |-> c, id |-> 0] \in Response
      BY SimpleResponses, 0 \in Nat
    <3>3. /\ UNCHANGED <<stopped, start_id>> /\ apc' = Stays(stopped)
          /\ \E c \in {"ANS", "ERROR"} : Tells([code |-> c, id |-> 0])
      BY <2>6, <3>1, <3>2 DEF DoBreak, Tells, Reply
    <3>4. /\ break_on' = IF Head(rq).name \in Known
                         THEN IF Head(rq).on THEN break_on \cup {Head(rq).name} ELSE break_on \ {Head(rq).name}
                         ELSE break_on
          /\ break_on_event' = break_on_event
      BY <2>6 DEF DoBreak
    <3> QED
      BY <2>3, <3>1, <3>3, <3>4 DEF AppKinds, Setting, Acts
  <2>7. CASE DoBreakEvent
    <3>1. Quiet /\ Acts({"SETEVENT"}) /\ Head(rq).code = "SETEVENT" /\ Head(rq).id = 0
      BY <2>2, <2>7, RequestFacts DEF DoBreakEvent
    <3>2. [code |-> "ANS", id |-> 0] \in Response
      BY SimpleResponses, 0 \in Nat
    <3>3. /\ UNCHANGED <<stopped, start_id>> /\ apc' = Stays(stopped)
          /\ Tells([code |-> "ANS", id |-> 0])
      BY <2>7, <3>1, <3>2 DEF DoBreakEvent, Tells, Reply
    <3>4. /\ break_on_event' = IF Head(rq).on THEN break_on_event \cup {Head(rq).name} ELSE break_on_event \ {Head(rq).name}
          /\ break_on' = break_on
      BY <2>7 DEF DoBreakEvent
    <3> QED
      BY <2>3, <3>1, <3>3, <3>4 DEF AppKinds, Setting, Acts
  <2>a. AnsweredFrom \in Nat \cup {NoTree}
    BY <1>t DEF AnsweredFrom
  <2>8. CASE DoStateTree
    <3>1. Quiet /\ Acts({"STATE_TREE_RAW"}) /\ Head(rq).asked \in Nat /\ Head(rq).id = 0
      BY <2>2, <2>8, RequestFacts DEF DoStateTree, Queries
    <3>2. \A c \in {"STATE", "ERROR"} :
             [code |-> c, id |-> Head(rq).id, asked |-> Head(rq).asked, from |-> AnsweredFrom] \in Response
      <4>1. /\ \A c \in {"DATA", "ERROR"} : [code |-> c, id |-> 0, asked |-> Head(rq).asked, from |-> AnsweredFrom] \in Response
            /\ [code |-> "STATE", id |-> 0, asked |-> Head(rq).asked, from |-> AnsweredFrom] \in Response
        BY <2>a, <3>1, SimpleResponses, 0 \in Nat
      <4> QED
        BY <3>1, <4>1
    <3>3. /\ UNCHANGED <<stopped, start_id>> /\ Unset /\ apc' = Stays(stopped)
          /\ \E c \in {"STATE", "DATA", "ERROR"} :
                Tells([code |-> c, id |-> Head(rq).id, asked |-> Head(rq).asked, from |-> AnsweredFrom])
      BY <2>8, <3>2 DEF DoStateTree, Tells, Reply, Unset
    <3> QED
      BY <2>3, <3>1, <3>3 DEF AppKinds, Answering, Acts, Queries
  <2>9. CASE DoData
    <3>1. Quiet /\ Acts({"DATA"}) /\ Head(rq).asked \in Nat /\ Head(rq).id \in Nat
      BY <2>2, <2>9, RequestFacts DEF DoData, Queries
    <3>2. \A c \in {"DATA", "ERROR"} :
             [code |-> c, id |-> Head(rq).id, asked |-> Head(rq).asked, from |-> AnsweredFrom] \in Response
      BY <2>a, <3>1, SimpleResponses
    <3>3. /\ UNCHANGED <<stopped, start_id>> /\ Unset /\ apc' = Stays(stopped)
          /\ \E c \in {"STATE", "DATA", "ERROR"} :
                Tells([code |-> c, id |-> Head(rq).id, asked |-> Head(rq).asked, from |-> AnsweredFrom])
      BY <2>9, <3>2 DEF DoData, Tells, Reply, Unset
    <3> QED
      BY <2>3, <3>1, <3>3 DEF AppKinds, Answering, Acts, Queries
  <2>10. CASE DoAsync
    <3>1. Quiet /\ Acts({"ASYNC"})
      BY <2>2, <2>10 DEF DoAsync
    <3>2. [code |-> "BREAK", id |-> start_id] \in Response
      BY <1>t, SimpleResponses
    <3>3. Unset /\ UNCHANGED start_id
      BY <2>10 DEF DoAsync, Unset
    <3> QED
      BY <2>3, <2>10, <3>1, <3>2, <3>3 DEF DoAsync, AppKinds, Interrupted, Tells, Reply
  <2>11. CASE DoQuit
    <3>1. Quiet
      BY <2>2, <2>11 DEF DoQuit
    <3> QED
      BY <2>11, <3>1 DEF DoQuit, AppKinds, Dies
  <2> QED
    BY <1>6, <2>4, <2>5, <2>6, <2>7, <2>8, <2>9, <2>10, <2>11 DEF Process
<1>7. CASE AppDies
  BY <1>7 DEF AppDies, AppKinds, Dies, Quiet
<1> QED
  BY <1>1, <1>2, <1>3, <1>4, <1>5, <1>6, <1>7 DEF LoopStep

-----------------------------------------------------------------------------
(* Signals: what the responses under way say of the start. *)
LEMMA ActsStep == ASSUME TypeOK, galive, NEW codes, Acts(codes)
    PROVE  /\ Joined /\ Pending[1] = Head(rq) /\ Pending[1] \in Request /\ Pending[1].code \in codes
           /\ Len(Pending) \in Nat \ {0}
           /\ DOMAIN Pending = 1..Len(Pending) /\ DOMAIN Pending' = 1..(Len(Pending) - 1)
           /\ Len(Pending') = Len(Pending) - 1
           /\ \A i \in 1..(Len(Pending) - 1) : Pending'[i] = Pending[i + 1]
           /\ \A C : Has(Pending, C) <=> Pending[1].code \in C \/ Has(Pending', C)
<1>1. rq # <<>> /\ rq' = Tail(rq) /\ reqs' = reqs /\ Head(rq).code \in codes /\ apc # "exited"
  BY DEF Acts, Loop
<1> QED
  BY <1>1, TakesStep DEF Joined

(* What a step that tells gldb something adds to the responses. *)
LEMMA TellsStep == ASSUME TypeOK, NEW r, Tells(r)
    PROVE  /\ r \in Response /\ resps' \in Seq(Response) /\ Len(resps) \in Nat /\ Len(resps') = Len(resps) + 1
           /\ DOMAIN resps = 1..Len(resps) /\ DOMAIN resps' = 1..(Len(resps) + 1)
           /\ \A i \in 1..Len(resps) : resps'[i] = resps[i]
           /\ resps'[Len(resps) + 1] = r
           /\ \A C : Has(resps', C) <=> Has(resps, C) \/ r.code \in C
<1>1. r \in Response /\ resps' = Append(resps, r) /\ resps \in Seq(Response)
  BY DEF Tells, TypeOK
<1> QED
  BY <1>1, AppendFacts, HasAppend

(* Responses under way, by their places. *)
LEMMA HasResponse == ASSUME TypeOK, NEW C
    PROVE  /\ DOMAIN resps = 1..Len(resps) /\ Len(resps) \in Nat
           /\ Has(resps, C) <=> \E i \in DOMAIN resps : resps[i].code \in C
<1>1. resps \in Seq(Response)
  BY DEF TypeOK
<1> QED
  BY <1>1, HasIndex, LenProperties

(* Requests under way, by their places. *)
LEMMA HasPending == ASSUME TypeOK, NEW C
    PROVE  /\ DOMAIN Pending = 1..Len(Pending) /\ Len(Pending) \in Nat
           /\ Has(Pending, C) <=> \E i \in DOMAIN Pending : Pending[i].code \in C
BY PendingFacts, HasIndex

\* A running program has been told everything gldb sent to start it.
LEMMA RunningFacts == ASSUME TypeOK, ControlInv, Joined, ~stopped
    PROVE  /\ start_id = started /\ status \in {"STARTED", "RUNNING"}
           /\ ~Has(Pending, Starts) /\ \A i \in DOMAIN resps : resps[i].code \notin Breaks
<1>1. status \notin {"DEAD", "STOPPED"} /\ ~Has(Pending, Starts) /\ start_id = started /\ ~Has(resps, Breaks)
  BY DEF ControlInv
<1> QED
  BY <1>1, HasResponse DEF TypeOK

\* The request that starts the program is the last one gldb sent for it.
LEMMA StartingFacts == ASSUME TypeOK, ControlInv, galive, Starting
    PROVE  /\ Joined /\ Head(rq).id = started /\ ~Has(resps, Signals)
           /\ Head(rq).code = "RUN" => status = "STARTED"
           /\ status \in {"STARTED", "RUNNING"} /\ stopped
           /\ ~Has(Pending', Starts)
<1>1. /\ Joined /\ Pending[1] = Head(rq) /\ Pending[1].code \in Starts
      /\ Len(Pending) \in Nat \ {0}
      /\ DOMAIN Pending = 1..Len(Pending) /\ DOMAIN Pending' = 1..(Len(Pending) - 1)
      /\ Len(Pending') = Len(Pending) - 1
      /\ \A i \in 1..(Len(Pending) - 1) : Pending'[i] = Pending[i + 1]
      /\ \A C : Has(Pending, C) <=> Pending[1].code \in C \/ Has(Pending', C)
  BY ActsStep DEF Starting
<1>2. Has(Pending, Starts) /\ 1 \in DOMAIN Pending
  BY <1>1
<1>3. /\ status \notin {"DEAD", "STOPPED"} /\ stopped /\ ~Has(resps, Signals)
      /\ \A i, j \in DOMAIN Pending : Pending[i].code \in Starts =>
             /\ Pending[i].id = started /\ (Pending[i].code = "RUN" => status = "STARTED")
             /\ Pending[j].code \in Starts => i = j
  BY <1>1, <1>2 DEF ControlInv
<1>4. ASSUME Has(Pending', Starts) PROVE FALSE
  <2>1. reqs' \in Seq(Request) /\ rq' \in Seq(Request)
    <3>1. rq # <<>> /\ rq' = Tail(rq) /\ reqs' = reqs
      BY DEF Starting, Acts
    <3> QED
      BY <3>1, TakesStep DEF TypeOK
  <2>2. Pending' \in Seq(Request)
    BY <2>1, ConcatProperties DEF Pending
  <2>3. PICK i \in 1..Len(Pending') : Pending'[i].code \in Starts
    BY <1>4, <2>2, HasIndex
  <2>5. i + 1 \in DOMAIN Pending /\ Pending[i + 1].code \in Starts /\ i + 1 # 1
    BY <1>1, <2>3
  <2> QED
    BY <1>1, <1>2, <1>3, <2>5
<1> QED
  BY <1>1, <1>2, <1>3, <1>4 DEF TypeOK

(* The application's steps keep the signals right: a stop names the last start. *)
LEMMA SignalKinds == ASSUME TypeOK, SignalInv, ControlInv, galive, AppKinds
                     PROVE  SignalInv'
<1>0. Quiet /\ UNCHANGED <<galive, started, status>>
  BY DEF AppKinds, Moves, Stops, Dies, Starting, Setting, Answering, Interrupted, Acts, Quiet, gui
<1>1. ASSUME resps' = resps PROVE SignalInv'
  BY <1>0, <1>1 DEF SignalInv
<1>2. ASSUME NEW c \in Breaks, Joined, ~stopped, Tells([code |-> c, id |-> start_id]) PROVE SignalInv'
  <2>1. /\ start_id = started /\ status \in {"STARTED", "RUNNING"}
        /\ \A i \in DOMAIN resps : resps[i].code \notin Breaks
    BY <1>2, RunningFacts
  <2> DEFINE r == [code |-> c, id |-> start_id]
  <2>2. r.code \in Breaks /\ r.id = started
    BY <2>1, <1>2
  <2>3. Tells(r)
    BY <1>2
  <2> HIDE DEF r
  <2>4. /\ Len(resps) \in Nat /\ DOMAIN resps = 1..Len(resps) /\ DOMAIN resps' = 1..(Len(resps) + 1)
        /\ \A i \in 1..Len(resps) : resps'[i] = resps[i]
        /\ resps'[Len(resps) + 1] = r
    BY <2>3, TellsStep
  <2>5. \A i \in DOMAIN resps' : resps'[i].code \in Signals =>
           \/ i \in DOMAIN resps /\ resps'[i] = resps[i] /\ resps[i].code = "RUNNING"
           \/ i = Len(resps) + 1 /\ resps'[i] = r
    BY <2>1, <2>4 DEF Signals
  <2>6. \A i \in DOMAIN resps' : resps'[i].code \in Signals =>
           /\ resps'[i].id = started /\ status \in {"STARTED", "RUNNING"}
           /\ resps'[i].code = "RUNNING" => status = "STARTED"
    BY <2>1, <2>2, <2>5 DEF SignalInv, Signals, Breaks
  <2>7. \A i, j \in DOMAIN resps' : i < j /\ resps'[i].code \in Signals /\ resps'[j].code \in Signals =>
           i \in DOMAIN resps
    BY <2>4
  <2>8. \A i, j \in DOMAIN resps : i < j /\ resps[i].code \in Signals /\ resps[j].code \in Signals =>
           resps[j].code \in Breaks
    BY DEF SignalInv
  <2>9. \A i, j \in DOMAIN resps' : i < j /\ resps'[i].code \in Signals /\ resps'[j].code \in Signals =>
           resps'[i].code = "RUNNING" /\ resps'[j].code \in Breaks
    BY <2>1, <2>2, <2>4, <2>5, <2>7, <2>8
  <2> QED
    BY <1>0, <2>6, <2>9 DEF SignalInv
<1>3. ASSUME NEW r, Tells(r), r.code \notin Signals PROVE SignalInv'
  <2>1. \A i \in DOMAIN resps' : resps'[i].code \in Signals => i \in DOMAIN resps /\ resps'[i] = resps[i]
    BY <1>3, TellsStep
  <2> QED
    BY <1>0, <2>1 DEF SignalInv
<1>4. CASE Stops
  BY <1>2, <1>4 DEF Stops, Joined
<1>5. CASE Starting
  <2>1. Head(rq).id = started /\ ~Has(resps, Signals) /\ (Head(rq).code = "RUN" => status = "STARTED")
    BY <1>5, StartingFacts
  <2>2. \A i \in DOMAIN resps : resps[i].code \notin Signals
    BY <2>1, HasResponse
  <2>3. CASE Head(rq).code = "RUN"
    <3> DEFINE r == [code |-> "RUNNING", id |-> Head(rq).id]
    <3>1. Tells(r) /\ r.code = "RUNNING" /\ r.id = started
      BY <1>5, <2>1, <2>3 DEF Starting
    <3> HIDE DEF r
    <3> QED
      BY <1>0, <2>1, <2>2, <2>3, <3>1, TellsStep DEF SignalInv
  <2>4. CASE Head(rq).code # "RUN"
    BY <1>1, <1>5, <2>4 DEF Starting
  <2> QED
    BY <2>3, <2>4
<1>6. CASE Setting
  BY <1>3, <1>6 DEF Setting, Signals, Breaks
<1>7. CASE Answering
  BY <1>3, <1>7 DEF Answering, Signals, Breaks
<1>8. CASE Interrupted
  <2>1. Joined /\ "BREAK" \in Breaks
    BY <1>8 DEF Interrupted, Acts, Joined, Loop, Breaks
  <2> QED
    BY <1>1, <1>2, <1>8, <2>1 DEF Interrupted
<1> QED
  BY <1>1, <1>4, <1>5, <1>6, <1>7, <1>8 DEF AppKinds, Moves, Dies

(* gldb's steps keep the signals right: it starts the program only when it has
   received them all. *)
LEMMA SignalGui == ASSUME TypeOK, LoopInv, SignalInv, galive', UserNext \/ GldbDies \/ Respond
                   PROVE  SignalInv'
<1> USE DEF app, debugger, requests, tables, gui
<1>1. CASE Run
  <2>1. resps' = <<>>
    BY <1>1 DEF Run
  <2> QED
    BY <2>1 DEF SignalInv
<1>2. CASE StopAction \/ KillAction \/ PaneQuery
  BY <1>2 DEF StopAction, KillAction, PaneQuery, SignalInv, UserActs
<1>3. ASSUME NEW code, ContinueAction(code) PROVE SignalInv'
  <2>1. galive /\ status = "STOPPED" /\ resps' = resps
    BY <1>3 DEF ContinueAction, UserActs, LoopInv
  <2>2. \A i \in DOMAIN resps : resps[i].code \notin Signals
    BY <2>1 DEF SignalInv
  <2> QED
    BY <2>1, <2>2 DEF SignalInv
<1>4. ASSUME NEW f, NEW on, SetBreak(f, on) PROVE SignalInv'
  BY <1>4 DEF SetBreak, SignalInv, UserActs
<1>5. ASSUME NEW e, NEW on, SetBreakEvent(e, on) PROVE SignalInv'
  BY <1>5 DEF SetBreakEvent, SignalInv, UserActs
<1>6. CASE OnBreak
  <2>1. /\ Len(resps) \in Nat \ {0} /\ resps[1].code \in Breaks
        /\ DOMAIN resps = 1..Len(resps) /\ DOMAIN resps' = 1..(Len(resps) - 1)
        /\ \A i \in 1..(Len(resps) - 1) : resps'[i] = resps[i + 1]
    BY <1>6, ReceivesStep DEF OnBreak
  <2>2. galive /\ started' = started
    BY <1>6 DEF OnBreak, Receives
  <2>3. \A i \in DOMAIN resps' : resps'[i].code \notin Signals
    BY <2>1, <2>2 DEF SignalInv, Signals, Breaks
  <2> QED
    BY <2>3 DEF SignalInv
<1>7. CASE OnRunning
  <2>1. /\ Len(resps) \in Nat \ {0} /\ resps[1].code = "RUNNING"
        /\ DOMAIN resps = 1..Len(resps) /\ DOMAIN resps' = 1..(Len(resps) - 1)
        /\ \A i \in 1..(Len(resps) - 1) : resps'[i] = resps[i + 1]
    BY <1>7, ReceivesStep DEF OnRunning
  <2>2. galive /\ started' = started /\ status' = "RUNNING"
    BY <1>7 DEF OnRunning, Receives, SetStatus
  <2>3. \A j \in DOMAIN resps : 1 < j /\ resps[j].code \in Signals => resps[j].code \in Breaks /\ resps[j].id = started
    <3>1. 1 \in DOMAIN resps /\ resps[1].code \in Signals
      BY <2>1 DEF Signals
    <3> QED
      BY <2>2, <3>1 DEF SignalInv
  <2>4. \A i \in DOMAIN resps' : /\ i + 1 \in DOMAIN resps /\ 1 < i + 1 /\ resps'[i] = resps[i + 1]
    BY <2>1
  <2>5. \A i \in DOMAIN resps' : resps'[i].code \in Signals => resps'[i].code \in Breaks /\ resps'[i].id = started
    BY <2>3, <2>4
  <2>6. \A i, j \in DOMAIN resps' : i < j /\ resps'[i].code \in Signals /\ resps'[j].code \in Signals => FALSE
    <3> SUFFICES ASSUME NEW i \in DOMAIN resps', NEW j \in DOMAIN resps', i < j,
                        resps'[i].code \in Signals, resps'[j].code \in Signals
                 PROVE  FALSE
      OBVIOUS
    <3>1. /\ i + 1 \in DOMAIN resps /\ j + 1 \in DOMAIN resps /\ i + 1 < j + 1
          /\ resps[i + 1].code \in Signals /\ resps[j + 1].code \in Signals
      BY <2>1, <2>4
    <3>2. resps[i + 1].code = "RUNNING"
      BY <2>2, <3>1 DEF SignalInv
    <3>3. resps'[i].code \in Breaks /\ resps'[i] = resps[i + 1]
      BY <2>4, <2>5
    <3> QED
      BY <3>2, <3>3 DEF Breaks
  <2> QED
    BY <2>2, <2>5, <2>6 DEF SignalInv, Breaks
<1>8. CASE OnState \/ OnAnswer
  <2>1. /\ Len(resps) \in Nat \ {0}
        /\ DOMAIN resps = 1..Len(resps) /\ DOMAIN resps' = 1..(Len(resps) - 1)
        /\ \A i \in 1..(Len(resps) - 1) : resps'[i] = resps[i + 1]
    BY <1>8, ReceivesStep DEF OnState, OnAnswer
  <2>2. galive /\ UNCHANGED <<started, status>>
    BY <1>8 DEF OnState, OnAnswer, Receives
  <2>3. \A i \in DOMAIN resps' : i + 1 \in DOMAIN resps /\ resps'[i] = resps[i + 1]
    BY <2>1
  <2>4. \A i, j \in DOMAIN resps' : i < j => i + 1 < j + 1
    BY <2>1
  <2> QED
    BY <2>2, <2>3, <2>4 DEF SignalInv
<1>9. CASE OnEOF
  <2>1. resps' = <<>>
    BY <1>9 DEF OnEOF
  <2> QED
    BY <2>1 DEF SignalInv
<1>10. CASE Shutdown \/ GldbDies
  BY <1>10 DEF Shutdown, GldbDies
<1> QED
  BY <1>1, <1>2, <1>3, <1>4, <1>5, <1>6, <1>7, <1>8, <1>9, <1>10 DEF UserNext, Respond

-----------------------------------------------------------------------------
(* Control: who has it. *)
OneStart == \A i, j \in DOMAIN Pending : Pending[i].code \in Starts =>
                /\ Pending[i].id = started /\ (Pending[i].code = "RUN" => status = "STARTED")
                /\ Pending[j].code \in Starts => i = j

(* A step that touches neither who is stopped nor the starts and stops under way
   leaves control where it is. *)
LEMMA ControlSame ==
    ASSUME TypeOK, ControlInv, Joined, UNCHANGED <<stopped, start_id, started, status>>,
           apc' = "init" => apc = "init",
           Has(Pending', Starts) <=> Has(Pending, Starts),
           Has(Pending', {"NULL"}) => Has(Pending, {"NULL"}),
           Has(resps', Breaks) <=> Has(resps, Breaks),
           Has(resps', Signals) => Has(resps, Signals),
           OneStart'
    PROVE  ControlInv'
BY DEF ControlInv, OneStart

(* Taking a request leaves at most one start under way. *)
LEMMA OneStartTail == ASSUME TypeOK, ControlInv, galive, NEW codes, Acts(codes)
                      PROVE  OneStart'
<1>1. /\ Joined /\ Len(Pending) \in Nat \ {0}
      /\ DOMAIN Pending = 1..Len(Pending) /\ DOMAIN Pending' = 1..(Len(Pending) - 1)
      /\ \A i \in 1..(Len(Pending) - 1) : Pending'[i] = Pending[i + 1]
  BY ActsStep
<1>2. OneStart /\ UNCHANGED <<started, status>>
  BY <1>1 DEF ControlInv, OneStart, Acts, Quiet, gui
<1> DEFINE P == Pending
           Q == Pending'
<1>3. /\ Len(P) \in Nat \ {0} /\ DOMAIN P = 1..Len(P) /\ DOMAIN Q = 1..(Len(P) - 1)
      /\ \A i \in 1..(Len(P) - 1) : Q[i] = P[i + 1]
  BY <1>1
<1>4. \A i, j \in DOMAIN P : P[i].code \in Starts =>
                /\ P[i].id = started /\ (P[i].code = "RUN" => status = "STARTED")
                /\ P[j].code \in Starts => i = j
  BY <1>2 DEF OneStart
<1>5. OneStart' <=> \A i, j \in DOMAIN Q : Q[i].code \in Starts =>
                /\ Q[i].id = started' /\ (Q[i].code = "RUN" => status' = "STARTED")
                /\ Q[j].code \in Starts => i = j
  BY DEF OneStart
<1> HIDE DEF P, Q
<1>6. \A i, j \in DOMAIN Q : i + 1 \in DOMAIN P /\ j + 1 \in DOMAIN P /\ Q[i] = P[i + 1] /\ Q[j] = P[j + 1]
                             /\ (i + 1 = j + 1 => i = j)
  BY <1>3
<1> QED
  BY <1>2, <1>4, <1>5, <1>6

(* Sending what is not a start leaves at most one start under way. *)
LEMMA OneStartAppend ==
    ASSUME TypeOK, ControlInv, Joined, UNCHANGED <<rq, started, status>>, galive',
           NEW m \in Request, Send(<<m>>), m.code \notin Starts
    PROVE  OneStart'
<1>1. /\ Len(Pending) \in Nat
      /\ DOMAIN Pending = 1..Len(Pending) /\ DOMAIN Pending' = 1..(Len(Pending) + 1)
      /\ \A i \in 1..Len(Pending) : Pending'[i] = Pending[i]
      /\ Pending'[Len(Pending) + 1] = m
  BY SendsStep DEF Joined
<1>2. OneStart
  BY DEF ControlInv, OneStart
<1> DEFINE P == Pending
           Q == Pending'
<1>3. /\ Len(P) \in Nat /\ DOMAIN P = 1..Len(P) /\ DOMAIN Q = 1..(Len(P) + 1)
      /\ \A i \in 1..Len(P) : Q[i] = P[i]
      /\ Q[Len(P) + 1] = m
  BY <1>1
<1>4. \A i, j \in DOMAIN P : P[i].code \in Starts =>
                /\ P[i].id = started /\ (P[i].code = "RUN" => status = "STARTED")
                /\ P[j].code \in Starts => i = j
  BY <1>2 DEF OneStart
<1>5. OneStart' <=> \A i, j \in DOMAIN Q : Q[i].code \in Starts =>
                /\ Q[i].id = started' /\ (Q[i].code = "RUN" => status' = "STARTED")
                /\ Q[j].code \in Starts => i = j
  BY DEF OneStart
<1> HIDE DEF P, Q
<1>6. \A i \in DOMAIN Q : Q[i].code \in Starts => i \in DOMAIN P /\ Q[i] = P[i]
  BY <1>3
<1> QED
  BY <1>4, <1>5, <1>6

\* A step of gldb that sends something other than a start, or nothing.
LEMMA ControlSends ==
    ASSUME TypeOK, ControlInv, Joined, UNCHANGED <<rq, started, status, apc, stopped, start_id>>, galive',
           \/ reqs' = reqs
           \/ \E m \in Request : Send(<<m>>) /\ m.code \notin Starts \cup {"NULL"},
           Has(resps', Breaks) <=> Has(resps, Breaks),
           Has(resps', Signals) => Has(resps, Signals)
    PROVE  ControlInv'
<1>1. CASE reqs' = reqs
  <2>1. Pending' = Pending
    BY <1>1 DEF Pending
  <2>2. OneStart'
    BY <2>1 DEF ControlInv, OneStart
  <2> QED
    BY <2>1, <2>2, ControlSame
<1>2. ASSUME NEW m \in Request, Send(<<m>>), m.code \notin Starts \cup {"NULL"} PROVE ControlInv'
  <2>1. OneStart'
    BY <1>2, OneStartAppend
  <2>2. \A C : Has(Pending', C) <=> Has(Pending, C) \/ m.code \in C
    BY <1>2, SendsStep DEF Joined
  <2>3. /\ Has(Pending', Starts) <=> Has(Pending, Starts)
        /\ Has(Pending', {"NULL"}) => Has(Pending, {"NULL"})
    BY <1>2, <2>2
  <2> QED
    BY <2>1, <2>3, ControlSame
<1> QED
  BY <1>1, <1>2

(* The application's steps keep control in one place. *)
LEMMA ControlKinds == ASSUME TypeOK, ControlInv, galive, AppKinds
                      PROVE  ControlInv'
<1>0. UNCHANGED <<galive, started, status>>
  BY DEF AppKinds, Moves, Stops, Dies, Starting, Setting, Answering, Interrupted, Acts, Quiet, gui
<1>1. CASE Moves
  <2>1. Joined /\ Pending' = Pending /\ resps' = resps
    BY <1>1 DEF Moves, Joined
  <2>2. OneStart'
    BY <1>0, <2>1 DEF ControlInv, OneStart
  <2> QED
    BY <1>0, <1>1, <2>1, <2>2, ControlSame DEF Moves
\* the program stops, and says so, without any request that would start it
<1>2. ASSUME NEW c \in Breaks, Joined, ~stopped, stopped' = TRUE, start_id' = start_id,
             apc' = "init" => apc = "init", Tells([code |-> c, id |-> start_id]),
             ~Has(Pending', Starts), ~Has(Pending', {"NULL"})
      PROVE  ControlInv'
  <2>1. start_id = started /\ status \in {"STARTED", "RUNNING"} /\ ~Has(Pending, Starts)
    BY <1>2, RunningFacts
  <2>2. apc' # "init"
    BY <1>2, <2>1 DEF ControlInv
  <2>3. Has(resps', Breaks)
    BY <1>2, TellsStep
  <2>4. \A i \in DOMAIN Pending' : Pending'[i].code \notin Starts
    BY <1>2 DEF Has, ToSet
  <2> QED
    BY <1>0, <1>2, <2>1, <2>2, <2>3, <2>4 DEF ControlInv
<1>3. CASE Stops
  <2>1. Joined /\ Pending' = Pending /\ ~stopped
    BY <1>3 DEF Stops, Joined
  <2>2. ~Has(Pending, Starts) /\ ~Has(Pending, {"NULL"})
    BY <2>1, RunningFacts DEF ControlInv
  <2> QED
    BY <1>2, <1>3, <2>1, <2>2 DEF Stops
<1>4. CASE Dies
  BY <1>4 DEF Dies, ControlInv, Joined
<1>5. CASE Starting
  <2>1. /\ Joined /\ Head(rq).id = started /\ ~Has(resps, Signals)
        /\ status \in {"STARTED", "RUNNING"} /\ ~Has(Pending', Starts)
    BY <1>5, StartingFacts
  <2>2. \A C : Has(Pending, C) <=> Pending[1].code \in C \/ Has(Pending', C)
    BY <1>5, ActsStep DEF Starting
  <2>3. ~Has(Pending', {"NULL"})
    BY <2>1, <2>2 DEF ControlInv
  <2>4. ~Has(resps', Breaks)
    <3>1. ~Has(resps, Breaks)
      BY <2>1, HasResponse DEF Signals
    <3>2. CASE Head(rq).code = "RUN"
      <4> DEFINE r == [code |-> "RUNNING", id |-> Head(rq).id]
      <4>1. Tells(r) /\ r.code \notin Breaks
        BY <1>5, <3>2 DEF Starting, Breaks
      <4> HIDE DEF r
      <4> QED
        BY <3>1, <4>1, TellsStep
    <3> QED
      BY <1>5, <3>1, <3>2 DEF Starting
  <2>5. \A i \in DOMAIN Pending' : Pending'[i].code \notin Starts
    BY <2>1 DEF Has, ToSet
  <2>6. stopped' = FALSE /\ start_id' = started' /\ apc' # "init"
    BY <1>0, <1>5, <2>1 DEF Starting
  <2> QED
    BY <1>0, <2>1, <2>3, <2>4, <2>5, <2>6 DEF ControlInv
<1>6. ASSUME NEW codes, Acts(codes), codes \cap Starts = {},
             UNCHANGED <<stopped, start_id>>, apc' = "init" => apc = "init",
             Has(resps', Breaks) <=> Has(resps, Breaks),
             Has(resps', Signals) => Has(resps, Signals)
      PROVE  ControlInv'
  <2>1. /\ Joined /\ Pending[1].code \in codes
        /\ \A C : Has(Pending, C) <=> Pending[1].code \in C \/ Has(Pending', C)
    BY <1>6, ActsStep
  <2>2. OneStart'
    BY <1>6, OneStartTail
  <2>3. /\ Has(Pending', Starts) <=> Has(Pending, Starts)
        /\ Has(Pending', {"NULL"}) => Has(Pending, {"NULL"})
    BY <1>6, <2>1
  <2> QED
    BY <1>0, <1>6, <2>1, <2>2, <2>3, ControlSame
<1>7. ASSUME NEW r, Tells(r), r.code \notin Signals
      PROVE  (Has(resps', Breaks) <=> Has(resps, Breaks)) /\ (Has(resps', Signals) => Has(resps, Signals))
  BY <1>7, TellsStep DEF Signals
<1>8. CASE Setting
  <2>1. (Has(resps', Breaks) <=> Has(resps, Breaks)) /\ (Has(resps', Signals) => Has(resps, Signals))
    BY <1>7, <1>8 DEF Setting, Signals, Breaks
  <2>2. {"SETBREAK", "SETEVENT"} \cap Starts = {}
    BY DEF Starts
  <2> QED
    BY <1>6, <1>8, <2>1, <2>2 DEF Setting
<1>9. CASE Answering
  <2>1. (Has(resps', Breaks) <=> Has(resps, Breaks)) /\ (Has(resps', Signals) => Has(resps, Signals))
    BY <1>7, <1>9 DEF Answering, Signals, Breaks
  <2>2. Queries \cap Starts = {}
    BY DEF Starts, Queries
  <2> QED
    BY <1>6, <1>9, <2>1, <2>2 DEF Answering
<1>10. CASE Interrupted
  <2>1. Acts({"ASYNC"}) /\ {"ASYNC"} \cap Starts = {} /\ start_id' = start_id
    BY <1>10 DEF Interrupted, Starts
  <2>2. CASE UNCHANGED <<resps, stopped>> /\ (apc' = "init" => apc = "init")
    BY <1>6, <2>1, <2>2
  <2>3. CASE ~stopped /\ stopped' = TRUE /\ apc' = apc /\ Tells([code |-> "BREAK", id |-> start_id])
    <3>1. /\ Joined
          /\ \A C : Has(Pending, C) <=> Pending[1].code \in C \/ Has(Pending', C)
      BY <2>1, ActsStep
    <3>2. ~Has(Pending', Starts) /\ ~Has(Pending', {"NULL"}) /\ "BREAK" \in Breaks
      BY <2>3, <3>1, RunningFacts DEF ControlInv, Breaks
    <3> QED
      BY <1>2, <2>1, <2>3, <3>1, <3>2
  <2> QED
    BY <1>10, <2>2, <2>3 DEF Interrupted
<1> QED
  BY <1>1, <1>3, <1>4, <1>5, <1>8, <1>9, <1>10 DEF AppKinds

(* After gldb_run the requests under way are the events, the breakpoints, each as the
   tables have it, and then RUN. *)
LEMMA RunStep == ASSUME TypeOK, Run
    PROVE  LET n == Len(Pending')
           IN /\ n \in Nat \ {0} /\ DOMAIN Pending' = 1..n /\ Pending' \in Seq(Request)
              /\ Pending'[n] = [code |-> "RUN", id |-> seq]
              /\ \A i \in 1..(n - 1) : Pending'[i].code \in {"SETEVENT", "SETBREAK"} /\ Pending'[i].id = 0
              /\ \A i \in 1..(n - 1) :
                    \/ \E e \in Event : Pending'[i] = SetEventRequest(e, e \in gevent)
                    \/ \E f \in DOMAIN gbreak : Pending'[i] = SetBreakRequest(f, gbreak[f])
              /\ \A e \in Event : \E i \in 1..(n - 1) : Pending'[i] = SetEventRequest(e, e \in gevent)
              /\ \A f \in DOMAIN gbreak : \E i \in 1..(n - 1) : Pending'[i] = SetBreakRequest(f, gbreak[f])
<1> DEFINE rs == EventRequests \o BreakRequests \o <<[code |-> "RUN", id |-> seq]>>
           n == Len(rs)
<1>1. /\ rs \in Seq(Request) /\ n \in Nat \ {0} /\ DOMAIN rs = 1..n
      /\ rs[n] = [code |-> "RUN", id |-> seq]
      /\ \A i \in 1..(n - 1) :
             \/ \E e \in Event : rs[i] = SetEventRequest(e, e \in gevent)
             \/ \E f \in DOMAIN gbreak : rs[i] = SetBreakRequest(f, gbreak[f])
      /\ \A e \in Event : \E i \in 1..(n - 1) : rs[i] = SetEventRequest(e, e \in gevent)
      /\ \A f \in DOMAIN gbreak : \E i \in 1..(n - 1) : rs[i] = SetBreakRequest(f, gbreak[f])
  BY RunRequests, Zenon
<1>2. reqs' = rs /\ rq' = <<>>
  BY DEF Run
<1> HIDE DEF n, rs
<1>3. Pending' = rs
  BY <1>1, <1>2, ConcatEmptySeq DEF Pending
<1>4. \A x, on : /\ SetEventRequest(x, on).code = "SETEVENT" /\ SetBreakRequest(x, on).code = "SETBREAK"
                 /\ SetEventRequest(x, on).id = 0 /\ SetBreakRequest(x, on).id = 0
  BY DEF SetEventRequest, SetBreakRequest
<1>5. ASSUME NEW i \in 1..(n - 1)
      PROVE  \E x, on : rs[i] = SetEventRequest(x, on) \/ rs[i] = SetBreakRequest(x, on)
  <2>1. CASE \E e \in Event : rs[i] = SetEventRequest(e, e \in gevent)
    BY <2>1, Zenon
  <2>2. CASE \E f \in DOMAIN gbreak : rs[i] = SetBreakRequest(f, gbreak[f])
    BY <2>2, Zenon
  <2> QED
    BY <1>1, <2>1, <2>2, Zenon
<1>6. \A i \in 1..(n - 1) : rs[i].code \in {"SETEVENT", "SETBREAK"} /\ rs[i].id = 0
  BY <1>4, <1>5
<1> QED
  BY <1>1, <1>3, <1>6, Zenon DEF n

(* gldb_run gives control to the new process. *)
LEMMA ControlRun == ASSUME TypeOK, Run PROVE ControlInv'
<1> DEFINE Q == Pending'
           n == Len(Q)
<1>1. /\ Q \in Seq(Request) /\ n \in Nat \ {0} /\ DOMAIN Q = 1..n
      /\ Q[n] = [code |-> "RUN", id |-> seq]
      /\ \A i \in 1..(n - 1) : Q[i].code \in {"SETEVENT", "SETBREAK"}
  BY RunStep, Zenon
<1>2. /\ resps' = <<>> /\ apc' = "init" /\ stopped' = TRUE
      /\ status' = "STARTED" /\ started' = seq
  BY DEF Run, SetStatus
<1>3. OneStart' <=> \A i, j \in DOMAIN Q : Q[i].code \in Starts =>
                /\ Q[i].id = started' /\ (Q[i].code = "RUN" => status' = "STARTED")
                /\ Q[j].code \in Starts => i = j
  BY DEF OneStart
<1>4. ControlInv' <=> (Joined' =>
        /\ status' # "DEAD" /\ ~Has(Q, {"NULL"})
        /\ status' = "STOPPED" => stopped' /\ ~Has(Q, Starts)
        /\ status' # "STOPPED" /\ stopped' => Has(Q, Starts) \/ Has(resps', Breaks)
        /\ ~stopped' => ~Has(resps', Breaks)
        /\ apc' = "init" => Has(Q, Starts)
        /\ IF Has(Q, Starts) THEN stopped' /\ ~Has(resps', Signals) ELSE start_id' = started'
        /\ OneStart')
  BY Zenon DEF ControlInv, OneStart
<1> HIDE DEF n, Q
<1>5. Q[n].code = "RUN" /\ Q[n].id = seq /\ n \in 1..n
  BY <1>1
<1>6. \A i \in 1..n : i = n \/ i \in 1..(n - 1)
  BY <1>1
<1>7. \A i \in 1..n : Q[i].code \in Starts => i = n
  BY <1>1, <1>6 DEF Starts
<1>8. Has(Q, Starts) /\ ~Has(Q, {"NULL"})
  <2>1. \A C : Has(Q, C) <=> \E i \in 1..n : Q[i].code \in C
    BY <1>1, HasIndex DEF n
  <2> QED
    BY <1>1, <1>5, <1>6, <2>1 DEF Starts
<1>9. ~Has(resps', Breaks) /\ ~Has(resps', Signals)
  BY <1>2, HasEmpty
<1>10. OneStart'
  BY <1>1, <1>2, <1>3, <1>5, <1>7
<1> QED
  BY <1>2, <1>4, <1>8, <1>9, <1>10

(* Continue and step hand control to the program. *)
LEMMA ControlContinue == ASSUME TypeOK, LoopInv, SignalInv, ControlInv, galive',
                                NEW code \in {"CONT", "STEP"}, ContinueAction(code)
                         PROVE  ControlInv'
<1> SUFFICES ASSUME Joined' PROVE ControlInv'
  BY DEF ControlInv
<1> DEFINE m == [code |-> code, id |-> seq]
<1>1. /\ galive /\ status = "STOPPED" /\ status' = "RUNNING" /\ started' = seq
      /\ UNCHANGED <<apc, rq, resps, stopped, start_id>> /\ Send(<<m>>)
  BY DEF ContinueAction, UserActs, LoopInv, SetStatus, app, debugger
<1>2. m \in Request /\ m.code \in Starts /\ m.id = seq /\ m.code # "NULL" /\ m.code # "RUN"
  BY SimpleRequests DEF TypeOK, Starts
<1> HIDE DEF m
<1>3. Joined
  BY <1>1 DEF Joined
<1>4. /\ Len(Pending) \in Nat
      /\ DOMAIN Pending = 1..Len(Pending) /\ DOMAIN Pending' = 1..(Len(Pending) + 1)
      /\ \A i \in 1..Len(Pending) : Pending'[i] = Pending[i]
      /\ Pending'[Len(Pending) + 1] = m
      /\ \A C : Has(Pending', C) <=> Has(Pending, C) \/ m.code \in C
  BY <1>1, <1>2, <1>3, SendsStep DEF Joined
<1>5. stopped /\ ~Has(Pending, Starts) /\ ~Has(Pending, {"NULL"})
  BY <1>1, <1>3 DEF ControlInv
<1>6. ~Has(resps, Signals)
  BY <1>1, HasResponse DEF SignalInv
<1>7. Has(Pending', Starts) /\ ~Has(Pending', {"NULL"})
  BY <1>2, <1>4, <1>5
<1>8. \A i \in 1..Len(Pending) : Pending[i].code \notin Starts
  BY <1>5, HasPending
<1>9. \A i \in DOMAIN Pending' : Pending'[i].code \in Starts => i = Len(Pending) + 1 /\ Pending'[i] = m
  BY <1>4, <1>8
<1>10. OneStart'
  BY <1>1, <1>2, <1>9 DEF OneStart
<1> QED
  BY <1>1, <1>5, <1>6, <1>7, <1>10 DEF ControlInv, OneStart

(* gldb's steps keep control in one place. *)
LEMMA ControlGui == ASSUME TypeOK, LoopInv, SignalInv, ControlInv, galive', UserNext \/ GldbDies \/ Respond
                    PROVE  ControlInv'
<1> SUFFICES ASSUME Joined' PROVE ControlInv'
  BY DEF ControlInv
<1> USE DEF app, debugger, requests, tables, gui
<1>s. seq \in Nat /\ started \in Nat
  BY DEF TypeOK
<1>1. CASE Run
  BY <1>1, ControlRun
<1>2. CASE StopAction \/ KillAction
  <2>1. \E c \in {"ASYNC", "QUIT"} : Send(<<[code |-> c, id |-> seq]>>)
    BY <1>2 DEF StopAction, KillAction
  <2>2. \A c \in {"ASYNC", "QUIT"} : /\ [code |-> c, id |-> seq] \in Request
                                     /\ [code |-> c, id |-> seq].code \notin Starts \cup {"NULL"}
    BY <1>s, SimpleRequests DEF Starts
  <2>3. Joined /\ UNCHANGED <<rq, started, status, apc, stopped, start_id, resps>>
    BY <1>2 DEF StopAction, KillAction, UserActs, Joined
  <2>4. \E m \in Request : Send(<<m>>) /\ m.code \notin Starts \cup {"NULL"}
    BY <2>1, <2>2
  <2> QED
    BY <2>3, <2>4, ControlSends
<1>3. ASSUME NEW code \in {"CONT", "STEP"}, ContinueAction(code) PROVE ControlInv'
  BY <1>3, ControlContinue
<1>4. ASSUME Query(<<>>) PROVE \E m \in Request : Send(<<m>>) /\ m.code \notin Starts \cup {"NULL"}
  <2> DEFINE m == [code |-> "DATA", id |-> seq, asked |-> started]
  <2>1. m \in Request /\ Send(<<m>>) /\ m.code = "DATA"
    BY <1>4, Queried1
  <2> HIDE DEF m
  <2> QED
    BY <2>1 DEF Starts
<1>5. CASE PaneQuery
  <2>1. Joined /\ UNCHANGED <<rq, started, status, apc, stopped, start_id, resps>> /\ Query(<<>>)
    BY <1>5 DEF PaneQuery, UserActs, Joined
  <2> QED
    BY <1>4, <2>1, ControlSends
<1>6. ASSUME NEW f \in BreakName, NEW on \in BOOLEAN, SetBreak(f, on) PROVE ControlInv'
  <2>1. Joined /\ UNCHANGED <<rq, started, status, apc, stopped, start_id, resps>>
    BY <1>6 DEF SetBreak, UserActs, Joined
  <2>2. SetBreakRequest(f, on) \in Request /\ SetBreakRequest(f, on).code \notin Starts \cup {"NULL"}
    <3>1. SetBreakRequest(f, on) \in Request
      BY SimpleRequests, 0 \in Nat
    <3> QED
      BY <3>1 DEF SetBreakRequest, Starts
  <2>3. reqs' = reqs \/ \E m \in Request : Send(<<m>>) /\ m.code \notin Starts \cup {"NULL"}
    BY <1>6, <2>2 DEF SetBreak, SendIfAlive
  <2> QED
    BY <2>1, <2>3, ControlSends
<1>7. ASSUME NEW e \in ToggledEvent, NEW on \in BOOLEAN, SetBreakEvent(e, on) PROVE ControlInv'
  <2>1. Joined /\ UNCHANGED <<rq, started, status, apc, stopped, start_id, resps>>
    BY <1>7 DEF SetBreakEvent, UserActs, Joined
  <2>2. SetEventRequest(e, on) \in Request /\ SetEventRequest(e, on).code \notin Starts \cup {"NULL"}
    <3>1. SetEventRequest(e, on) \in Request
      BY SimpleRequests, EventAssumption, 0 \in Nat
    <3> QED
      BY <3>1 DEF SetEventRequest, Starts
  <2>3. reqs' = reqs \/ \E m \in Request : Send(<<m>>) /\ m.code \notin Starts \cup {"NULL"}
    BY <1>7, <2>2 DEF SetBreakEvent, SendIfAlive
  <2> QED
    BY <2>1, <2>3, ControlSends
<1>8. CASE OnBreak
  <2> DEFINE m == [code |-> "STATE_TREE_RAW", id |-> 0, asked |-> started]
  <2>1. /\ Joined /\ UNCHANGED <<rq, started, apc, stopped, start_id>> /\ status' = "STOPPED"
        /\ Send(<<m>>)
    BY <1>8 DEF OnBreak, Receives, SetStatus, Joined
  <2>2. m \in Request /\ m.code = "STATE_TREE_RAW"
    BY <1>s, SimpleRequests
  <2> HIDE DEF m
  <2>3. /\ Len(resps) \in Nat \ {0} /\ resps[1].code \in Breaks /\ 1 \in DOMAIN resps
        /\ DOMAIN resps = 1..Len(resps)
    BY <1>8, ReceivesStep DEF OnBreak
  <2>4. Has(resps, Breaks) /\ Has(resps, Signals)
    BY <2>3, HasResponse DEF Signals
  <2>5. stopped /\ ~Has(Pending, Starts) /\ ~Has(Pending, {"NULL"}) /\ start_id = started
    BY <2>1, <2>4 DEF ControlInv
  <2>6. \A C : Has(Pending', C) <=> Has(Pending, C) \/ m.code \in C
    BY <2>1, <2>2, SendsStep DEF Joined
  <2>7. ~Has(Pending', Starts) /\ ~Has(Pending', {"NULL"})
    BY <2>2, <2>5, <2>6 DEF Starts
  <2>8. \A i \in DOMAIN Pending' : Pending'[i].code \notin Starts
    BY <2>7 DEF Has, ToSet
  <2>9. apc' # "init"
    BY <2>1, <2>5 DEF ControlInv
  <2> QED
    BY <2>1, <2>5, <2>7, <2>8, <2>9 DEF ControlInv
<1>9. CASE OnRunning
  <2>1. /\ Joined /\ UNCHANGED <<rq, reqs, started, apc, stopped, start_id>> /\ status' = "RUNNING"
    BY <1>9 DEF OnRunning, Receives, SetStatus, Joined
  <2>2. /\ Len(resps) \in Nat \ {0} /\ resps[1].code = "RUNNING" /\ 1 \in DOMAIN resps
        /\ DOMAIN resps = 1..Len(resps)
        /\ \A C : Has(resps, C) <=> resps[1].code \in C \/ Has(resps', C)
    BY <1>9, ReceivesStep DEF OnRunning
  <2>3. Has(resps, Signals) /\ (Has(resps', Breaks) <=> Has(resps, Breaks))
    BY <2>2 DEF Signals, Breaks
  <2>4. status = "STARTED"
    BY <2>1, <2>2 DEF SignalInv, Signals, Joined
  <2>5. ~Has(Pending, Starts) /\ ~Has(Pending, {"NULL"}) /\ start_id = started
        /\ (stopped => Has(resps, Breaks)) /\ (~stopped => ~Has(resps, Breaks)) /\ apc # "init"
    BY <2>1, <2>3, <2>4 DEF ControlInv
  <2>6. Pending' = Pending
    BY <2>1 DEF Pending
  <2>7. \A i \in DOMAIN Pending : Pending[i].code \notin Starts
    BY <2>5, HasPending
  <2> QED
    BY <2>1, <2>3, <2>5, <2>6, <2>7 DEF ControlInv
<1>10. CASE OnState \/ OnAnswer
  <2>1. /\ Joined /\ UNCHANGED <<rq, started, status, apc, stopped, start_id>>
    BY <1>10 DEF OnState, OnAnswer, Receives, Joined
  <2>2. resps[1].code \notin Signals /\ \A C : Has(resps, C) <=> resps[1].code \in C \/ Has(resps', C)
    <3>1. resps[1].code \in {"STATE", "ANS", "ERROR", "DATA"} /\ \A C : Has(resps, C) <=> resps[1].code \in C \/ Has(resps', C)
      BY <1>10, ReceivesStep DEF OnState, OnAnswer
    <3> QED
      BY <3>1 DEF Signals, Breaks
  <2>3. (Has(resps', Breaks) <=> Has(resps, Breaks)) /\ (Has(resps', Signals) => Has(resps, Signals))
    BY <2>2 DEF Signals
  <2>4. reqs' = reqs \/ Query(<<>>)
    BY <1>10 DEF OnState, OnAnswer
  <2> QED
    BY <1>4, <2>1, <2>3, <2>4, ControlSends
<1>11. CASE OnEOF
  BY <1>11 DEF OnEOF, Joined
<1>12. CASE Shutdown \/ GldbDies
  BY <1>12 DEF Shutdown, GldbDies
<1> QED
  BY <1>1, <1>2, <1>3, <1>5, <1>6, <1>7, <1>8, <1>9, <1>10, <1>11, <1>12 DEF UserNext, Respond

-----------------------------------------------------------------------------
(* Queries and answers: which stop they belong to. *)
LEMMA QueryTail ==
    ASSUME TypeOK, QueryInv, galive, NEW codes, Acts(codes), UNCHANGED <<stopped, start_id>>,
           Has(resps', Breaks) => Has(resps, Breaks)
    PROVE  QueryInv'
<1>1. /\ Joined /\ Len(Pending) \in Nat \ {0}
      /\ DOMAIN Pending = 1..Len(Pending) /\ DOMAIN Pending' = 1..(Len(Pending) - 1)
      /\ \A i \in 1..(Len(Pending) - 1) : Pending'[i] = Pending[i + 1]
  BY ActsStep
<1> DEFINE P == Pending
           Q == Pending'
<1>2. \A i \in DOMAIN P : P[i].code \in Queries =>
        /\ stopped /\ ~Has(resps, Breaks) /\ P[i].asked = start_id
        /\ \A j \in DOMAIN P : j < i => P[j].code \notin Starts
  BY <1>1 DEF QueryInv
<1>3. QueryInv' <=> (Joined' => \A i \in DOMAIN Q : Q[i].code \in Queries =>
        /\ stopped' /\ ~Has(resps', Breaks) /\ Q[i].asked = start_id'
        /\ \A j \in DOMAIN Q : j < i => Q[j].code \notin Starts)
  BY DEF QueryInv
<1>4. /\ Len(P) \in Nat \ {0} /\ DOMAIN P = 1..Len(P) /\ DOMAIN Q = 1..(Len(P) - 1)
      /\ \A i \in 1..(Len(P) - 1) : Q[i] = P[i + 1]
  BY <1>1
<1> HIDE DEF P, Q
<1>5. \A i \in DOMAIN Q : i + 1 \in DOMAIN P /\ Q[i] = P[i + 1]
  BY <1>4
<1>6. \A i, j \in DOMAIN Q : j < i => j + 1 < i + 1
  BY <1>4
<1> QED
  BY <1>2, <1>3, <1>5, <1>6

(* A query sent while the program is stopped, with no start under way, is of that stop. *)
LEMMA QueryAppend ==
    ASSUME TypeOK, QueryInv, Joined, UNCHANGED <<rq, stopped, start_id>>, galive',
           Has(resps', Breaks) => Has(resps, Breaks),
           NEW m \in Request, Send(<<m>>),
           m.code \in Queries => /\ stopped /\ ~Has(resps', Breaks) /\ m.asked = start_id /\ ~Has(Pending, Starts)
    PROVE  QueryInv'
<1>1. /\ Len(Pending) \in Nat
      /\ DOMAIN Pending = 1..Len(Pending) /\ DOMAIN Pending' = 1..(Len(Pending) + 1)
      /\ \A i \in 1..Len(Pending) : Pending'[i] = Pending[i]
      /\ Pending'[Len(Pending) + 1] = m
  BY SendsStep DEF Joined
<1>0. ~Has(Pending, Starts) => \A i \in DOMAIN Pending : Pending[i].code \notin Starts
  BY HasPending
<1> DEFINE P == Pending
           Q == Pending'
<1>2. \A i \in DOMAIN P : P[i].code \in Queries =>
        /\ stopped /\ ~Has(resps, Breaks) /\ P[i].asked = start_id
        /\ \A j \in DOMAIN P : j < i => P[j].code \notin Starts
  BY DEF QueryInv
<1>3. QueryInv' <=> (Joined' => \A i \in DOMAIN Q : Q[i].code \in Queries =>
        /\ stopped' /\ ~Has(resps', Breaks) /\ Q[i].asked = start_id'
        /\ \A j \in DOMAIN Q : j < i => Q[j].code \notin Starts)
  BY DEF QueryInv
<1>4. /\ Len(P) \in Nat /\ DOMAIN P = 1..Len(P) /\ DOMAIN Q = 1..(Len(P) + 1)
      /\ \A i \in 1..Len(P) : Q[i] = P[i]
      /\ Q[Len(P) + 1] = m
      /\ m.code \in Queries => /\ stopped /\ ~Has(resps', Breaks) /\ m.asked = start_id
                               /\ \A i \in DOMAIN P : P[i].code \notin Starts
  BY <1>1, <1>0
<1> HIDE DEF P, Q
<1>5. ASSUME NEW i \in DOMAIN Q, Q[i].code \in Queries
      PROVE  /\ stopped' /\ ~Has(resps', Breaks) /\ Q[i].asked = start_id'
             /\ \A j \in DOMAIN Q : j < i => Q[j].code \notin Starts
  <2>1. CASE i = Len(P) + 1
    <3>1. \A j \in DOMAIN Q : j < i => j \in DOMAIN P /\ Q[j] = P[j]
      BY <1>4, <2>1
    <3> QED
      BY <1>4, <1>5, <2>1, <3>1
  <2>2. CASE i # Len(P) + 1
    <3>1. i \in DOMAIN P /\ Q[i] = P[i] /\ \A j \in DOMAIN Q : j < i => j \in DOMAIN P /\ Q[j] = P[j]
      BY <1>4, <2>2
    <3> QED
      BY <1>2, <1>5, <3>1
  <2> QED
    BY <2>1, <2>2
<1> QED
  BY <1>3, <1>5

(* A step of gldb that sends no query leaves the queries of the stop they are of. *)
LEMMA QuerySends ==
    ASSUME TypeOK, QueryInv, Joined, UNCHANGED <<rq, stopped, start_id, apc>>, galive',
           Has(resps', Breaks) => Has(resps, Breaks),
           \/ reqs' = reqs
           \/ \E m \in Request : Send(<<m>>) /\ m.code \notin Queries
    PROVE  QueryInv'
<1>1. CASE reqs' = reqs
  <2>1. Pending' = Pending
    BY <1>1 DEF Pending
  <2> QED
    BY <2>1 DEF QueryInv
<1>2. CASE \E m \in Request : Send(<<m>>) /\ m.code \notin Queries
  BY <1>2, QueryAppend
<1> QED
  BY <1>1, <1>2

(* A running program has no query under way. *)
LEMMA NoQueries == ASSUME TypeOK, QueryInv, Joined, ~stopped
                   PROVE  ~Has(Pending, Queries)
<1>1. \A i \in DOMAIN Pending : Pending[i].code \notin Queries
  BY DEF QueryInv
<1> QED
  BY <1>1, HasPending

(* The application's steps keep each query in the stop it was made in. *)
LEMMA QueryKinds == ASSUME TypeOK, ControlInv, QueryInv, galive, AppKinds
                    PROVE  QueryInv'
<1>0. ASSUME ~Has(Pending', Queries) PROVE QueryInv'
  <2>1. \A i \in DOMAIN Pending' : Pending'[i].code \notin Queries
    BY <1>0 DEF Has, ToSet
  <2> QED
    BY <2>1 DEF QueryInv
<1>1. CASE Moves
  BY <1>1 DEF Moves, QueryInv, Joined, Quiet
<1>2. CASE Stops
  BY <1>0, <1>2, NoQueries DEF Stops, Joined
<1>3. CASE Dies
  BY <1>3 DEF Dies, QueryInv, Joined
<1>4. CASE Starting
  <2>1. /\ Joined /\ Pending[1].code \in Starts /\ Len(Pending) \in Nat \ {0}
        /\ DOMAIN Pending = 1..Len(Pending) /\ DOMAIN Pending' = 1..(Len(Pending) - 1)
        /\ \A i \in 1..(Len(Pending) - 1) : Pending'[i] = Pending[i + 1]
    BY <1>4, ActsStep DEF Starting
  <2>2. \A i \in DOMAIN Pending' : i + 1 \in DOMAIN Pending /\ 1 < i + 1 /\ 1 \in DOMAIN Pending
    BY <2>1
  <2>3. \A i \in DOMAIN Pending' : Pending'[i].code \notin Queries
    BY <2>1, <2>2 DEF QueryInv
  <2> QED
    BY <2>3 DEF QueryInv
<1>5. ASSUME NEW r, Tells(r), r.code \notin Breaks PROVE Has(resps', Breaks) => Has(resps, Breaks)
  BY <1>5, TellsStep
<1>6. CASE Setting
  <2>1. Has(resps', Breaks) => Has(resps, Breaks)
    BY <1>5, <1>6 DEF Setting, Breaks
  <2> QED
    BY <1>6, <2>1, QueryTail DEF Setting
<1>7. CASE Answering
  <2>1. Has(resps', Breaks) => Has(resps, Breaks)
    BY <1>5, <1>7 DEF Answering, Breaks
  <2> QED
    BY <1>7, <2>1, QueryTail DEF Answering
<1>8. CASE Interrupted
  <2>1. Joined /\ \A C : Has(Pending, C) <=> Pending[1].code \in C \/ Has(Pending', C)
    BY <1>8, ActsStep DEF Interrupted
  <2>2. CASE UNCHANGED <<resps, stopped>>
    BY <1>8, <2>2, QueryTail DEF Interrupted
  <2>3. CASE ~stopped
    BY <1>0, <2>1, <2>3, NoQueries
  <2> QED
    BY <1>8, <2>2, <2>3 DEF Interrupted
<1> QED
  BY <1>1, <1>2, <1>3, <1>4, <1>6, <1>7, <1>8 DEF AppKinds

\* What gldb may rely on while it shows the program as stopped.
LEMMA StoppedFacts == ASSUME TypeOK, SignalInv, ControlInv, Joined, status = "STOPPED"
    PROVE  stopped /\ ~Has(Pending, Starts) /\ start_id = started /\ ~Has(resps, Breaks)
<1>1. stopped /\ ~Has(Pending, Starts) /\ start_id = started
  BY DEF ControlInv
<1>2. \A i \in DOMAIN resps : resps[i].code \notin Breaks
  BY DEF SignalInv, Joined, Signals
<1> QED
  BY <1>1, <1>2, HasResponse

\* The announcement of a stop is the last signal under way.
LEMMA BreakFacts == ASSUME TypeOK, SignalInv, ControlInv, Joined, OnBreak
    PROVE  /\ stopped /\ ~Has(Pending, Starts) /\ start_id = started /\ ~Has(resps', Breaks)
           /\ Has(resps, Breaks) /\ status \in {"STARTED", "RUNNING"}
<1>1. /\ Len(resps) \in Nat \ {0} /\ resps[1].code \in Breaks /\ 1 \in DOMAIN resps /\ resps' \in Seq(Response)
      /\ DOMAIN resps = 1..Len(resps) /\ Len(resps') = Len(resps) - 1
      /\ \A i \in 1..(Len(resps) - 1) : resps'[i] = resps[i + 1]
  BY ReceivesStep DEF OnBreak
<1>2. Has(resps, Breaks) /\ Has(resps, Signals)
  BY <1>1, HasResponse DEF Signals
<1>3. stopped /\ ~Has(Pending, Starts) /\ start_id = started
  BY <1>2 DEF ControlInv
<1>4. resps[1].code \in Signals /\ resps[1].code # "RUNNING"
  BY <1>1 DEF Signals, Breaks
<1>5. status \in {"STARTED", "RUNNING"} /\ \A j \in DOMAIN resps : 1 < j => resps[j].code \notin Signals
  BY <1>1, <1>4 DEF SignalInv, Joined
<1>6. \A i \in 1..Len(resps') : i + 1 \in DOMAIN resps /\ 1 < i + 1 /\ resps'[i] = resps[i + 1]
  BY <1>1
<1>7. \A i \in 1..Len(resps') : resps'[i].code \notin Breaks
  BY <1>5, <1>6 DEF Signals
<1> QED
  BY <1>1, <1>2, <1>3, <1>5, <1>7, HasIndex

(* gldb's steps keep each query in the stop it was made in. *)
LEMMA QueryGui == ASSUME TypeOK, LoopInv, SignalInv, ControlInv, QueryInv, galive',
                         UserNext \/ GldbDies \/ Respond
                  PROVE  QueryInv'
<1> SUFFICES ASSUME Joined' PROVE QueryInv'
  BY DEF QueryInv
<1> USE DEF app, debugger, requests, tables, gui
<1>s. seq \in Nat /\ started \in Nat
  BY DEF TypeOK
<1>1. CASE Run
  <2> DEFINE Q == Pending'
             n == Len(Q)
  <2>1. /\ n \in Nat \ {0} /\ DOMAIN Q = 1..n /\ Q[n] = [code |-> "RUN", id |-> seq]
        /\ \A i \in 1..(n - 1) : Q[i].code \in {"SETEVENT", "SETBREAK"}
    BY <1>1, RunStep, Zenon
  <2>2. (\A i \in DOMAIN Q : Q[i].code \notin Queries) => QueryInv'
    BY DEF QueryInv
  <2> HIDE DEF n, Q
  <2>3. Q[n].code = "RUN" /\ \A i \in 1..n : i = n \/ i \in 1..(n - 1)
    BY <2>1
  <2>4. \A i \in 1..n : Q[i].code \notin Queries
    BY <2>1, <2>3 DEF Queries
  <2> QED
    BY <2>1, <2>2, <2>4
<1>2. CASE StopAction \/ KillAction
  <2>1. \E c \in {"ASYNC", "QUIT"} : Send(<<[code |-> c, id |-> seq]>>)
    BY <1>2 DEF StopAction, KillAction
  <2>2. \A c \in {"ASYNC", "QUIT"} : /\ [code |-> c, id |-> seq] \in Request
                                     /\ [code |-> c, id |-> seq].code \notin Queries
    BY <1>s, SimpleRequests DEF Queries
  <2>3. Joined /\ UNCHANGED <<rq, apc, stopped, start_id, resps>>
    BY <1>2 DEF StopAction, KillAction, UserActs, Joined
  <2>4. \E m \in Request : Send(<<m>>) /\ m.code \notin Queries
    BY <2>1, <2>2
  <2> QED
    BY <2>3, <2>4, QuerySends
<1>3. ASSUME NEW code \in {"CONT", "STEP"}, ContinueAction(code) PROVE QueryInv'
  <2> DEFINE m == [code |-> code, id |-> seq]
  <2>1. m \in Request /\ m.code \notin Queries
    BY <1>s, SimpleRequests DEF Queries
  <2>2. Send(<<m>>) /\ Joined /\ UNCHANGED <<rq, apc, stopped, start_id, resps>>
    BY <1>3 DEF ContinueAction, UserActs, Joined
  <2> QED
    BY <2>1, <2>2, QuerySends
<1>4. ASSUME Query(<<>>), Joined, status = "STOPPED", UNCHANGED <<rq, stopped, start_id>>,
             Has(resps', Breaks) => Has(resps, Breaks)
      PROVE  QueryInv'
  <2> DEFINE m == [code |-> "DATA", id |-> seq, asked |-> started]
  <2>1. m \in Request /\ Send(<<m>>) /\ m.asked = started
    BY <1>4, Queried1
  <2> HIDE DEF m
  <2>2. stopped /\ ~Has(Pending, Starts) /\ start_id = started /\ ~Has(resps, Breaks)
    BY <1>4, StoppedFacts
  <2> QED
    BY <1>4, <2>1, <2>2, QueryAppend
<1>5. CASE PaneQuery
  <2>1. Joined /\ UNCHANGED <<rq, apc, stopped, start_id, resps>> /\ Query(<<>>) /\ status = "STOPPED"
    BY <1>5 DEF PaneQuery, UserActs, Joined
  <2> QED
    BY <1>4, <2>1
<1>6. ASSUME NEW f \in BreakName, NEW on \in BOOLEAN, SetBreak(f, on) PROVE QueryInv'
  <2>1. Joined /\ UNCHANGED <<rq, apc, stopped, start_id, resps>>
    BY <1>6 DEF SetBreak, UserActs, Joined
  <2>2. SetBreakRequest(f, on) \in Request /\ SetBreakRequest(f, on).code \notin Queries
    <3>1. SetBreakRequest(f, on) \in Request
      BY SimpleRequests, 0 \in Nat
    <3> QED
      BY <3>1 DEF SetBreakRequest, Queries
  <2>3. reqs' = reqs \/ \E m \in Request : Send(<<m>>) /\ m.code \notin Queries
    BY <1>6, <2>2 DEF SetBreak, SendIfAlive
  <2> QED
    BY <2>1, <2>3, QuerySends
<1>7. ASSUME NEW e \in ToggledEvent, NEW on \in BOOLEAN, SetBreakEvent(e, on) PROVE QueryInv'
  <2>1. Joined /\ UNCHANGED <<rq, apc, stopped, start_id, resps>>
    BY <1>7 DEF SetBreakEvent, UserActs, Joined
  <2>2. SetEventRequest(e, on) \in Request /\ SetEventRequest(e, on).code \notin Queries
    <3>1. SetEventRequest(e, on) \in Request
      BY SimpleRequests, EventAssumption, 0 \in Nat
    <3> QED
      BY <3>1 DEF SetEventRequest, Queries
  <2>3. reqs' = reqs \/ \E m \in Request : Send(<<m>>) /\ m.code \notin Queries
    BY <1>7, <2>2 DEF SetBreakEvent, SendIfAlive
  <2> QED
    BY <2>1, <2>3, QuerySends
<1>8. CASE OnBreak
  <2> DEFINE m == [code |-> "STATE_TREE_RAW", id |-> 0, asked |-> started]
  <2>1. /\ Joined /\ UNCHANGED <<rq, apc, stopped, start_id>> /\ Send(<<m>>)
    BY <1>8 DEF OnBreak, Receives, Joined
  <2>2. m \in Request /\ m.asked = started
    BY <1>s, SimpleRequests
  <2> HIDE DEF m
  <2>3. /\ stopped /\ ~Has(Pending, Starts) /\ start_id = started /\ ~Has(resps', Breaks)
    BY <1>8, <2>1, BreakFacts
  <2> QED
    BY <2>1, <2>2, <2>3, QueryAppend
<1>9. CASE OnRunning \/ OnState \/ OnAnswer
  <2>1. Joined /\ UNCHANGED <<rq, apc, stopped, start_id>>
    BY <1>9 DEF OnRunning, OnState, OnAnswer, Receives, Joined
  <2>2. Has(resps', Breaks) => Has(resps, Breaks)
    BY <1>9, ReceivesStep DEF OnRunning, OnState, OnAnswer
  <2>3. reqs' = reqs \/ (Query(<<>>) /\ status = "STOPPED")
    BY <1>9 DEF OnRunning, OnState, OnAnswer
  <2> QED
    BY <1>4, <2>1, <2>2, <2>3, QuerySends
<1>11. CASE OnEOF
  BY <1>11 DEF OnEOF, Joined
<1>12. CASE Shutdown \/ GldbDies
  BY <1>12 DEF Shutdown, GldbDies
<1> QED
  BY <1>1, <1>2, <1>3, <1>5, <1>6, <1>7, <1>8, <1>9, <1>11, <1>12 DEF UserNext, Respond

(* The death of gldb takes the answers with it. *)
LEMMA AnswerGone == ASSUME TypeOK, AnswerInv, ~galive', Next
                    PROVE  AnswerInv'
<1> USE DEF app, debugger, requests, tables, gui
<1>1. resps' = resps \/ resps' = <<>> \/ (resps # <<>> /\ resps' = Tail(resps))
  <2>1. CASE Deliver \/ (\E c \in Calls : PreCallback(c)) \/ LoopStep \/ AppDies
    BY <2>1 DEF Deliver, PreCallback, LoopStep, LoopNoData, LoopEOF, AppDies, Reply, Process, DoRun, DoContinue,
                DoBreak, DoBreakEvent, DoStateTree, DoData, DoAsync, DoQuit, Takes
  <2>2. CASE Invoke
    BY <2>2 DEF Invoke, Reply
  <2>3. CASE Respond
    BY <2>3 DEF Respond, OnBreak, OnRunning, OnState, OnAnswer, OnEOF, Receives
  <2>4. CASE UserNext \/ GldbDies
    BY <2>4 DEF UserNext, Run, StopAction, ContinueAction, KillAction, PaneQuery, Shutdown, SetBreak, SetBreakEvent,
                GldbDies
  <2> QED
    BY <2>1, <2>2, <2>3, <2>4 DEF Next
<1>2. resps \in Seq(Response)
  BY DEF TypeOK
<1>3. \A i \in DOMAIN resps : Asks(resps[i]) => resps[i].from = resps[i].asked
  BY DEF AnswerInv
<1>4. \A i \in DOMAIN resps' : Asks(resps'[i]) => resps'[i].from = resps'[i].asked
  <2>1. CASE resps' = resps
    BY <1>3, <2>1
  <2>2. CASE resps' = <<>>
    BY <2>2
  <2>3. CASE resps # <<>> /\ resps' = Tail(resps)
    <3>1. /\ Len(resps) \in Nat \ {0} /\ DOMAIN resps = 1..Len(resps) /\ DOMAIN resps' = 1..(Len(resps) - 1)
          /\ \A i \in 1..(Len(resps) - 1) : resps'[i] = resps[i + 1]
      BY <1>2, <2>3, TailFacts
    <3>2. \A i \in DOMAIN resps' : i + 1 \in DOMAIN resps
      BY <3>1
    <3> QED
      BY <1>3, <3>1, <3>2
  <2> QED
    BY <1>1, <2>1, <2>2, <2>3
<1> QED
  BY <1>4 DEF AnswerInv, Asks

(* The application answers a query from the stop it is in, which is the query's. *)
LEMMA AnswerKinds == ASSUME TypeOK, ControlInv, QueryInv, AnswerInv, galive, AppKinds
                     PROVE  AnswerInv'
<1>0. UNCHANGED <<galive, status, root, started>>
  BY DEF AppKinds, Moves, Stops, Dies, Starting, Setting, Answering, Interrupted, Acts, Quiet, gui
<1>a. /\ \A i \in DOMAIN resps : Asks(resps[i]) => resps[i].from = resps[i].asked
      /\ status = "STOPPED" => \A i \in DOMAIN resps : Asks(resps[i]) => resps[i].from = started
      /\ status = "STOPPED" /\ root # NoTree => root = started
      /\ \A i, j \in DOMAIN resps : i < j /\ resps[i].code \in Breaks => ~Asks(resps[j])
  BY DEF AnswerInv
<1>b. AnswerInv' <=>
      /\ \A i \in DOMAIN resps' : Asks(resps'[i]) => resps'[i].from = resps'[i].asked
      /\ galive' =>
         /\ status' = "STOPPED" => \A i \in DOMAIN resps' : Asks(resps'[i]) => resps'[i].from = started'
         /\ status' = "STOPPED" /\ root' # NoTree => root' = started'
         /\ \A i, j \in DOMAIN resps' : i < j /\ resps'[i].code \in Breaks => ~Asks(resps'[j])
  BY DEF AnswerInv, Asks
<1>1. CASE resps' = resps
  BY <1>0, <1>a, <1>b, <1>1
<1>2. ASSUME NEW r, Tells(r),
             Asks(r) => r.from = r.asked /\ ~Has(resps, Breaks) /\ (status = "STOPPED" => r.from = started)
      PROVE  AnswerInv'
  <2>1. /\ Len(resps) \in Nat /\ DOMAIN resps = 1..Len(resps) /\ DOMAIN resps' = 1..(Len(resps) + 1)
        /\ \A i \in 1..Len(resps) : resps'[i] = resps[i]
        /\ resps'[Len(resps) + 1] = r
    BY <1>2, TellsStep
  <2>2. Asks(r) => \A i \in DOMAIN resps : resps[i].code \notin Breaks
    BY <1>2, HasResponse
  <2>3. \A i \in DOMAIN resps' : Asks(resps'[i]) => resps'[i].from = resps'[i].asked
    BY <1>2, <1>a, <2>1
  <2>4. status = "STOPPED" => \A i \in DOMAIN resps' : Asks(resps'[i]) => resps'[i].from = started
    BY <1>2, <1>a, <2>1
  <2>5. ASSUME NEW i \in DOMAIN resps', NEW j \in DOMAIN resps', i < j, resps'[i].code \in Breaks
        PROVE  ~Asks(resps'[j])
    <3>1. i \in DOMAIN resps /\ resps'[i] = resps[i]
      BY <2>1, <2>5
    <3>2. CASE j = Len(resps) + 1
      BY <2>1, <2>2, <2>5, <3>1, <3>2
    <3>3. CASE j # Len(resps) + 1
      <4>1. j \in DOMAIN resps /\ resps'[j] = resps[j]
        BY <2>1, <3>3
      <4> QED
        BY <1>a, <2>5, <3>1, <4>1
    <3> QED
      BY <3>2, <3>3
  <2> QED
    BY <1>0, <1>a, <1>b, <2>3, <2>4, <2>5
<1>3. ASSUME NEW c, NEW i, Tells([code |-> c, id |-> i]) PROVE AnswerInv'
  <2> DEFINE r == [code |-> c, id |-> i]
  <2>1. ~Asks(r)
    BY DEF Asks
  <2> HIDE DEF r
  <2> QED
    BY <1>2, <1>3, <2>1 DEF r
<1>4. CASE Answering
  <2>1. /\ Joined /\ Pending[1] = Head(rq) /\ Pending[1].code \in Queries /\ 1 \in DOMAIN Pending
        /\ Pending[1] \in Request
    BY <1>4, ActsStep DEF Answering
  <2>2. /\ stopped /\ ~Has(resps, Breaks) /\ Head(rq).asked = start_id
    BY <2>1 DEF QueryInv
  <2>3. status = "STOPPED" => start_id = started
    BY <2>1 DEF ControlInv
  <2>4. AnsweredFrom = start_id
    BY <2>2 DEF AnsweredFrom
  <2>5. PICK c \in {"STATE", "DATA", "ERROR"} :
          Tells([code |-> c, id |-> Head(rq).id, asked |-> Head(rq).asked, from |-> AnsweredFrom])
    BY <1>4 DEF Answering
  <2> DEFINE r == [code |-> c, id |-> Head(rq).id, asked |-> Head(rq).asked, from |-> AnsweredFrom]
  <2>6. Tells(r) /\ r.from = start_id /\ r.asked = start_id
    BY <2>2, <2>4, <2>5
  <2> HIDE DEF r
  <2> QED
    BY <1>2, <2>2, <2>3, <2>6
<1> QED
  BY <1>1, <1>3, <1>4 DEF AppKinds, Moves, Stops, Dies, Starting, Setting, Interrupted

(* gldb keeps the state tree of the stop it shows, and drops it when it goes on. *)
LEMMA AnswerGui == ASSUME TypeOK, LoopInv, SignalInv, AnswerInv, galive', UserNext \/ Respond
                   PROVE  AnswerInv'
<1> USE DEF app, debugger, requests, tables, gui
<1>g. galive
  <2>1. CASE UserNext
    BY <2>1 DEF UserNext, Run, StopAction, ContinueAction, KillAction, PaneQuery, Shutdown, SetBreak, SetBreakEvent, UserActs
  <2>2. CASE Respond
    BY <2>2 DEF Respond, OnBreak, OnRunning, OnState, OnAnswer, OnEOF, Receives
  <2> QED
    BY <2>1, <2>2
<1>a. /\ \A i \in DOMAIN resps : Asks(resps[i]) => resps[i].from = resps[i].asked
      /\ status = "STOPPED" => \A i \in DOMAIN resps : Asks(resps[i]) => resps[i].from = started
      /\ status = "STOPPED" /\ root # NoTree => root = started
      /\ \A i, j \in DOMAIN resps : i < j /\ resps[i].code \in Breaks => ~Asks(resps[j])
  BY <1>g DEF AnswerInv
<1>b. AnswerInv' <=>
      /\ \A i \in DOMAIN resps' : Asks(resps'[i]) => resps'[i].from = resps'[i].asked
      /\ galive' =>
         /\ status' = "STOPPED" => \A i \in DOMAIN resps' : Asks(resps'[i]) => resps'[i].from = started'
         /\ status' = "STOPPED" /\ root' # NoTree => root' = started'
         /\ \A i, j \in DOMAIN resps' : i < j /\ resps'[i].code \in Breaks => ~Asks(resps'[j])
  BY DEF AnswerInv, Asks
<1>1. CASE Run
  <2>1. resps' = <<>> /\ status' = "STARTED"
    BY <1>1 DEF Run, SetStatus
  <2> QED
    BY <1>b, <2>1
<1>2. CASE StopAction \/ KillAction \/ PaneQuery
  <2>1. UNCHANGED <<resps, status, root, started>>
    BY <1>2 DEF StopAction, KillAction, PaneQuery
  <2> QED
    BY <1>a, <1>b, <2>1
<1>3. ASSUME NEW code, ContinueAction(code) PROVE AnswerInv'
  <2>1. resps' = resps /\ status' = "RUNNING"
    BY <1>3 DEF ContinueAction, SetStatus
  <2> QED
    BY <1>a, <1>b, <2>1
<1>4. CASE (\E f \in BreakName, on \in BOOLEAN : SetBreak(f, on)) \/ (\E e \in ToggledEvent, on \in BOOLEAN : SetBreakEvent(e, on))
  <2>1. UNCHANGED <<resps, status, root, started>>
    BY <1>4 DEF SetBreak, SetBreakEvent
  <2> QED
    BY <1>a, <1>b, <2>1
<1>5. ASSUME NEW codes, Receives(codes)
      PROVE  /\ Len(resps) \in Nat \ {0} /\ 1 \in DOMAIN resps /\ resps[1].code \in codes /\ Head(resps) = resps[1]
             /\ resps[1] \in Response /\ started' = started
             /\ \A i \in DOMAIN resps' : i + 1 \in DOMAIN resps /\ 1 < i + 1 /\ resps'[i] = resps[i + 1]
             /\ \A i, j \in DOMAIN resps' : i < j => i + 1 < j + 1
             /\ \A i \in DOMAIN resps' : Asks(resps'[i]) => resps'[i].from = resps'[i].asked
             /\ \A i, j \in DOMAIN resps' : i < j /\ resps'[i].code \in Breaks => ~Asks(resps'[j])
  <2>1. /\ Len(resps) \in Nat \ {0} /\ resps[1].code \in codes /\ Head(resps) = resps[1] /\ resps[1] \in Response
        /\ DOMAIN resps = 1..Len(resps) /\ DOMAIN resps' = 1..(Len(resps) - 1)
        /\ \A i \in 1..(Len(resps) - 1) : resps'[i] = resps[i + 1]
    BY <1>5, ReceivesStep
  <2>2. started' = started
    BY <1>5 DEF Receives
  <2>3. /\ 1 \in DOMAIN resps
        /\ \A i \in DOMAIN resps' : i + 1 \in DOMAIN resps /\ 1 < i + 1 /\ resps'[i] = resps[i + 1]
        /\ \A i, j \in DOMAIN resps' : i < j => i + 1 < j + 1
    BY <2>1
  <2>4. \A i \in DOMAIN resps' : Asks(resps'[i]) => resps'[i].from = resps'[i].asked
    BY <1>a, <2>3
  <2>5. \A i, j \in DOMAIN resps' : i < j /\ resps'[i].code \in Breaks => ~Asks(resps'[j])
    BY <1>a, <2>3
  <2> QED
    BY <2>1, <2>2, <2>3, <2>4, <2>5
<1>6. CASE OnBreak
  <2>1. /\ 1 \in DOMAIN resps /\ resps[1].code \in Breaks
        /\ \A i \in DOMAIN resps' : i + 1 \in DOMAIN resps /\ 1 < i + 1 /\ resps'[i] = resps[i + 1]
        /\ \A i \in DOMAIN resps' : Asks(resps'[i]) => resps'[i].from = resps'[i].asked
        /\ \A i, j \in DOMAIN resps' : i < j /\ resps'[i].code \in Breaks => ~Asks(resps'[j])
    BY <1>5, <1>6 DEF OnBreak
  <2>2. status \in {"STARTED", "RUNNING"}
    BY <1>g, <2>1 DEF SignalInv, Signals
  <2>3. root' = NoTree
    BY <1>6, <2>2 DEF OnBreak, SetStatus
  <2>4. \A i \in DOMAIN resps' : ~Asks(resps'[i])
    BY <1>a, <2>1
  <2> QED
    BY <1>b, <2>1, <2>3, <2>4
<1>7. CASE OnRunning
  <2>1. /\ \A i \in DOMAIN resps' : Asks(resps'[i]) => resps'[i].from = resps'[i].asked
        /\ \A i, j \in DOMAIN resps' : i < j /\ resps'[i].code \in Breaks => ~Asks(resps'[j])
    BY <1>5, <1>7 DEF OnRunning
  <2>2. status' = "RUNNING"
    BY <1>7 DEF OnRunning, SetStatus
  <2> QED
    BY <1>b, <2>1, <2>2
<1>8. ASSUME NEW codes, Receives(codes), status' = status,
             status = "STOPPED" /\ root' # NoTree => root' = started
      PROVE  AnswerInv'
  <2>1. /\ \A i \in DOMAIN resps' : i + 1 \in DOMAIN resps /\ 1 < i + 1 /\ resps'[i] = resps[i + 1]
        /\ \A i \in DOMAIN resps' : Asks(resps'[i]) => resps'[i].from = resps'[i].asked
        /\ \A i, j \in DOMAIN resps' : i < j /\ resps'[i].code \in Breaks => ~Asks(resps'[j])
        /\ started' = started
    BY <1>5, <1>8
  <2>2. status = "STOPPED" => \A i \in DOMAIN resps' : Asks(resps'[i]) => resps'[i].from = started
    BY <1>a, <2>1
  <2> QED
    BY <1>b, <1>8, <2>1, <2>2
<1>9. CASE OnState
  <2>1. /\ 1 \in DOMAIN resps /\ resps[1].code = "STATE" /\ Head(resps) = resps[1] /\ resps[1] \in Response
    BY <1>5, <1>9 DEF OnState
  <2>2. Asks(resps[1])
    BY <2>1, ResponseFacts
  <2>3. root' = resps[1].from /\ status' = status
    BY <1>9, <2>1 DEF OnState
  <2> QED
    BY <1>8, <1>9, <1>a, <2>1, <2>2, <2>3 DEF OnState
<1>10. CASE OnAnswer
  BY <1>8, <1>10, <1>a DEF OnAnswer
<1>11. CASE OnEOF
  <2>1. resps' = <<>> /\ status' = "DEAD"
    BY <1>11 DEF OnEOF, SetStatus
  <2> QED
    BY <1>b, <2>1
<1>12. CASE Shutdown
  BY <1>12 DEF Shutdown
<1> QED
  BY <1>1, <1>2, <1>3, <1>4, <1>6, <1>7, <1>9, <1>10, <1>11, <1>12 DEF UserNext, Respond

-----------------------------------------------------------------------------
(* Numbers: requests carry them in the order they are made. *)
LEMMA InOrderTail == ASSUME TypeOK, NumberInv, galive, NEW codes, Acts(codes)
                     PROVE  InOrder' /\ Head(rq).id < seq
<1>1. /\ Joined /\ Len(Pending) \in Nat \ {0} /\ Pending[1] = Head(rq)
      /\ DOMAIN Pending = 1..Len(Pending) /\ DOMAIN Pending' = 1..(Len(Pending) - 1)
      /\ \A i \in 1..(Len(Pending) - 1) : Pending'[i] = Pending[i + 1]
  BY ActsStep
<1>2. InOrder /\ seq' = seq
  BY <1>1 DEF NumberInv, Acts, Quiet, gui
<1> DEFINE P == Pending
           Q == Pending'
<1>3. /\ Len(P) \in Nat \ {0} /\ DOMAIN P = 1..Len(P) /\ DOMAIN Q = 1..(Len(P) - 1)
      /\ \A i \in 1..(Len(P) - 1) : Q[i] = P[i + 1]
      /\ P[1] = Head(rq)
  BY <1>1
<1>4. /\ \A i \in DOMAIN P : P[i].id < seq
      /\ \A i, j \in DOMAIN P : i < j /\ P[i].code = "DATA" /\ P[j].code = "DATA" => P[i].id < P[j].id
  BY <1>2 DEF InOrder
<1>5. InOrder' <=>
      /\ \A i \in DOMAIN Q : Q[i].id < seq'
      /\ \A i, j \in DOMAIN Q : i < j /\ Q[i].code = "DATA" /\ Q[j].code = "DATA" => Q[i].id < Q[j].id
  BY DEF InOrder
<1> HIDE DEF P, Q
<1>6. \A i \in DOMAIN Q : i + 1 \in DOMAIN P /\ Q[i] = P[i + 1]
  BY <1>3
<1>7. \A i, j \in DOMAIN Q : i < j => i + 1 < j + 1
  BY <1>3
<1>8. 1 \in DOMAIN P
  BY <1>3
<1> QED
  BY <1>2, <1>3, <1>4, <1>5, <1>6, <1>7, <1>8

(* Numbers under way stay in order when gldb sends with the next one. *)
LEMMA InOrderAppend ==
    ASSUME TypeOK, NumberInv, Joined, rq' = rq, galive',
           NEW m \in Request, Send(<<m>>), seq' >= seq, seq' \in Nat, m.id < seq', m.code = "DATA" => m.id = seq
    PROVE  InOrder'
<1>1. /\ Len(Pending) \in Nat
      /\ DOMAIN Pending = 1..Len(Pending) /\ DOMAIN Pending' = 1..(Len(Pending) + 1)
      /\ \A i \in 1..Len(Pending) : Pending'[i] = Pending[i]
      /\ Pending'[Len(Pending) + 1] = m
      /\ \A i \in 1..Len(Pending) : Pending[i] \in Request
  BY SendsStep, PendingFacts DEF Joined
<1>2. InOrder /\ seq \in Nat
  BY DEF NumberInv, Joined, TypeOK
<1> DEFINE P == Pending
           Q == Pending'
<1>3. /\ Len(P) \in Nat /\ DOMAIN P = 1..Len(P) /\ DOMAIN Q = 1..(Len(P) + 1)
      /\ \A i \in 1..Len(P) : Q[i] = P[i] /\ P[i].id \in Nat
      /\ Q[Len(P) + 1] = m
  BY <1>1, RequestFacts
<1>4. /\ \A i \in DOMAIN P : P[i].id < seq
      /\ \A i, j \in DOMAIN P : i < j /\ P[i].code = "DATA" /\ P[j].code = "DATA" => P[i].id < P[j].id
  BY <1>2 DEF InOrder
<1>5. InOrder' <=>
      /\ \A i \in DOMAIN Q : Q[i].id < seq'
      /\ \A i, j \in DOMAIN Q : i < j /\ Q[i].code = "DATA" /\ Q[j].code = "DATA" => Q[i].id < Q[j].id
  BY DEF InOrder
<1> HIDE DEF P, Q
<1>6. \A i \in DOMAIN Q : (i \in DOMAIN P /\ Q[i] = P[i] /\ P[i].id \in Nat) \/ (i = Len(P) + 1 /\ Q[i] = m)
  BY <1>3
<1>7. \A i \in DOMAIN Q : Q[i].id < seq'
  BY <1>2, <1>4, <1>6
<1>8. ASSUME NEW i \in DOMAIN Q, NEW j \in DOMAIN Q, i < j, Q[i].code = "DATA", Q[j].code = "DATA"
      PROVE  Q[i].id < Q[j].id
  <2>1. i \in DOMAIN P /\ Q[i] = P[i]
    BY <1>3, <1>8
  <2>2. CASE j \in DOMAIN P /\ Q[j] = P[j]
    BY <1>4, <1>8, <2>1, <2>2
  <2>3. CASE Q[j] = m
    BY <1>4, <1>8, <2>1, <2>3
  <2> QED
    BY <1>6, <2>2, <2>3
<1> QED
  BY <1>5, <1>7, <1>8

(* The application's steps keep the numbers in order, and give none out. *)
LEMMA NumberKinds == ASSUME TypeOK, ControlInv, NumberInv, galive, AppKinds
                     PROVE  NumberInv'
<1>0. UNCHANGED <<galive, started, seq>> /\ seq \in Nat /\ started \in Nat /\ started < seq
  BY DEF AppKinds, Moves, Stops, Dies, Starting, Setting, Answering, Interrupted, Acts, Quiet, gui, TypeOK
<1>a. \A i \in DOMAIN resps : resps[i].id < seq
  BY DEF NumberInv
<1>1. ASSUME Joined' => InOrder', resps' = resps PROVE NumberInv'
  BY <1>0, <1>1, <1>a DEF NumberInv
<1>2. ASSUME InOrder', NEW r, Tells(r), r.id < seq PROVE NumberInv'
  <2>1. \A i \in DOMAIN resps' : resps'[i].id < seq
    BY <1>2, <1>a, TellsStep
  <2> QED
    BY <1>0, <1>2, <2>1 DEF NumberInv
<1>3. ASSUME Joined, Pending' = Pending PROVE InOrder'
  BY <1>0, <1>3 DEF NumberInv, InOrder
<1>4. CASE Moves
  BY <1>1, <1>3, <1>4 DEF Moves, Joined
<1>5. ASSUME Joined, ~stopped, NEW c, Tells([code |-> c, id |-> start_id]), InOrder' PROVE NumberInv'
  <2>1. start_id < seq
    BY <1>0, <1>5, RunningFacts
  <2> QED
    BY <1>2, <1>5, <2>1
<1>6. CASE Stops
  BY <1>3, <1>5, <1>6 DEF Stops, Joined
<1>7. CASE Dies
  BY <1>1, <1>7 DEF Dies, Joined
<1>8. CASE Starting
  <2>1. InOrder' /\ Head(rq).id < seq
    BY <1>8, InOrderTail DEF Starting
  <2> QED
    BY <1>1, <1>2, <1>8, <2>1 DEF Starting
<1>9. CASE Setting
  <2>1. InOrder' /\ 0 < seq
    BY <1>0, <1>9, InOrderTail DEF Setting
  <2> QED
    BY <1>2, <1>9, <2>1 DEF Setting
<1>10. CASE Answering
  <2>1. InOrder' /\ Head(rq).id < seq
    BY <1>10, InOrderTail DEF Answering
  <2>2. PICK c \in {"STATE", "DATA", "ERROR"} :
          Tells([code |-> c, id |-> Head(rq).id, asked |-> Head(rq).asked, from |-> AnsweredFrom])
    BY <1>10 DEF Answering
  <2> QED
    BY <1>2, <2>1, <2>2
<1>11. CASE Interrupted
  <2>1. InOrder' /\ Joined
    BY <1>11, InOrderTail, ActsStep DEF Interrupted
  <2> QED
    BY <1>1, <1>5, <1>11, <2>1 DEF Interrupted
<1> QED
  BY <1>4, <1>6, <1>7, <1>8, <1>9, <1>10, <1>11 DEF AppKinds

(* gldb's steps give numbers out in order. *)
LEMMA NumberGui == ASSUME TypeOK, NumberInv, galive', UserNext \/ GldbDies \/ Respond
                   PROVE  NumberInv'
<1> USE DEF app, debugger, requests, tables, gui
<1>s. seq \in Nat /\ started \in Nat /\ started < seq
  BY DEF TypeOK
<1>g. galive
  <2>1. CASE UserNext
    BY <2>1 DEF UserNext, Run, StopAction, ContinueAction, KillAction, PaneQuery, Shutdown, SetBreak, SetBreakEvent, UserActs
  <2>2. CASE Respond
    BY <2>2 DEF Respond, OnBreak, OnRunning, OnState, OnAnswer, OnEOF, Receives
  <2>3. CASE GldbDies
    BY <2>3 DEF GldbDies
  <2> QED
    BY <2>1, <2>2, <2>3
<1>a. \A i \in DOMAIN resps : resps[i].id < seq /\ resps[i].id \in Nat
  <2>1. \A i \in DOMAIN resps : resps[i].id < seq
    BY <1>g DEF NumberInv
  <2>2. resps \in Seq(Response) /\ DOMAIN resps = 1..Len(resps)
    BY LenProperties DEF TypeOK
  <2>3. \A i \in DOMAIN resps : resps[i] \in Response
    BY <2>2, ElementOfSeq
  <2> QED
    BY <2>1, <2>3, ResponseFacts
<1>1. CASE Run
  <2> DEFINE Q == Pending'
             n == Len(Q)
  <2>1. /\ n \in Nat \ {0} /\ DOMAIN Q = 1..n /\ Q[n] = [code |-> "RUN", id |-> seq]
        /\ \A i \in 1..(n - 1) : Q[i].code \in {"SETEVENT", "SETBREAK"} /\ Q[i].id = 0
    BY <1>1, RunStep, Zenon
  <2>2. InOrder' <=>
        /\ \A i \in DOMAIN Q : Q[i].id < seq'
        /\ \A i, j \in DOMAIN Q : i < j /\ Q[i].code = "DATA" /\ Q[j].code = "DATA" => Q[i].id < Q[j].id
    BY DEF InOrder
  <2>3. resps' = <<>> /\ seq' = seq + 1
    BY <1>1 DEF Run
  <2> HIDE DEF n, Q
  <2>4. Q[n].code = "RUN" /\ Q[n].id = seq /\ \A i \in 1..n : i = n \/ i \in 1..(n - 1)
    BY <2>1
  <2>5. \A i \in DOMAIN Q : Q[i].id < seq' /\ Q[i].code # "DATA"
    BY <1>s, <2>1, <2>3, <2>4
  <2> QED
    BY <2>2, <2>3, <2>5 DEF NumberInv
<1>2. ASSUME NEW m \in Request, Send(<<m>>), rq' = rq, apc' = apc, seq' \in {seq, seq + 1}, m.id < seq',
             m.code = "DATA" => m.id = seq,
             \A i \in DOMAIN resps' : resps'[i].id < seq /\ resps'[i].id \in Nat
      PROVE  NumberInv'
  <2>1. Joined
    BY <1>g, <1>2 DEF Send, Joined
  <2>2. seq' \in Nat /\ seq' >= seq
    BY <1>s, <1>2
  <2>3. InOrder'
    BY <1>2, <2>1, <2>2, InOrderAppend
  <2>4. \A i \in DOMAIN resps' : resps'[i].id < seq'
    BY <1>s, <1>2, <2>2
  <2> QED
    BY <2>3, <2>4 DEF NumberInv
<1>3. ASSUME reqs' = reqs, rq' = rq, apc' = apc, seq' = seq,
             \A i \in DOMAIN resps' : resps'[i].id < seq /\ resps'[i].id \in Nat
      PROVE  NumberInv'
  <2>1. Pending' = Pending /\ (Joined' => Joined)
    BY <1>3, <1>g DEF Pending, Joined
  <2>2. Joined => InOrder
    BY <1>g DEF NumberInv
  <2> QED
    BY <1>3, <2>1, <2>2 DEF NumberInv, InOrder
<1>4. ASSUME NEW c \in {"ASYNC", "QUIT", "CONT", "STEP"}, Send(<<[code |-> c, id |-> seq]>>),
             UNCHANGED <<rq, apc, resps>>, seq' = seq + 1
      PROVE  NumberInv'
  <2> DEFINE m == [code |-> c, id |-> seq]
  <2>1. m \in Request /\ m.id < seq' /\ m.code # "DATA"
    <3>1. \A x \in {"RUN", "CONT", "STEP", "ASYNC", "QUIT", "NULL"} : [code |-> x, id |-> seq] \in Request
      BY <1>s, SimpleRequests
    <3> QED
      BY <1>s, <1>4, <3>1
  <2>2. Send(<<m>>)
    BY <1>4
  <2> HIDE DEF m
  <2> QED
    BY <1>2, <1>4, <1>a, <2>1, <2>2
<1>5. CASE StopAction
  BY <1>4, <1>5 DEF StopAction
<1>6. CASE KillAction
  BY <1>4, <1>6 DEF KillAction
<1>7. ASSUME NEW code \in {"CONT", "STEP"}, ContinueAction(code) PROVE NumberInv'
  BY <1>4, <1>7 DEF ContinueAction
<1>8. ASSUME Query(<<>>), UNCHANGED <<rq, apc>>,
             \A i \in DOMAIN resps' : resps'[i].id < seq /\ resps'[i].id \in Nat
      PROVE  NumberInv'
  <2> DEFINE m == [code |-> "DATA", id |-> seq, asked |-> started]
  <2>1. m \in Request /\ Send(<<m>>) /\ m.id = seq /\ seq' = seq + 1
    BY <1>8, Queried1
  <2> HIDE DEF m
  <2>2. m.id < seq'
    BY <1>s, <2>1
  <2> QED
    BY <1>2, <1>8, <2>1, <2>2
<1>9. CASE PaneQuery
  BY <1>8, <1>9, <1>a DEF PaneQuery
<1>10. ASSUME NEW f \in BreakName, NEW on \in BOOLEAN, SetBreak(f, on) PROVE NumberInv'
  <2>1. SetBreakRequest(f, on) \in Request
    BY SimpleRequests, 0 \in Nat
  <2>2. SetBreakRequest(f, on).code # "DATA" /\ SetBreakRequest(f, on).id = 0 /\ 0 < seq
    BY <1>s DEF SetBreakRequest
  <2>3. UNCHANGED <<rq, apc, resps, seq>> /\ (reqs' = reqs \/ Send(<<SetBreakRequest(f, on)>>))
    BY <1>10 DEF SetBreak, SendIfAlive
  <2> QED
    BY <1>2, <1>3, <1>a, <2>1, <2>2, <2>3
<1>11. ASSUME NEW e \in ToggledEvent, NEW on \in BOOLEAN, SetBreakEvent(e, on) PROVE NumberInv'
  <2>1. SetEventRequest(e, on) \in Request
    BY SimpleRequests, EventAssumption, 0 \in Nat
  <2>2. SetEventRequest(e, on).code # "DATA" /\ SetEventRequest(e, on).id = 0 /\ 0 < seq
    BY <1>s DEF SetEventRequest
  <2>3. UNCHANGED <<rq, apc, resps, seq>> /\ (reqs' = reqs \/ Send(<<SetEventRequest(e, on)>>))
    BY <1>11 DEF SetBreakEvent, SendIfAlive
  <2> QED
    BY <1>2, <1>3, <1>a, <2>1, <2>2, <2>3
<1>12. ASSUME NEW codes, Receives(codes)
       PROVE  /\ \A i \in DOMAIN resps' : resps'[i].id < seq /\ resps'[i].id \in Nat
              /\ UNCHANGED <<rq, apc>>
  <2>1. /\ Len(resps) \in Nat \ {0}
        /\ DOMAIN resps = 1..Len(resps) /\ DOMAIN resps' = 1..(Len(resps) - 1)
        /\ \A i \in 1..(Len(resps) - 1) : resps'[i] = resps[i + 1]
    BY <1>12, ReceivesStep
  <2>2. \A i \in DOMAIN resps' : i + 1 \in DOMAIN resps /\ resps'[i] = resps[i + 1]
    BY <2>1
  <2>3. UNCHANGED <<rq, apc>>
    BY <1>12 DEF Receives
  <2> QED
    BY <1>a, <2>2, <2>3
<1>13. CASE OnBreak
  <2> DEFINE m == [code |-> "STATE_TREE_RAW", id |-> 0, asked |-> started]
  <2>1. m \in Request /\ m.id = 0 /\ m.code # "DATA"
    BY <1>s, SimpleRequests
  <2>2. Send(<<m>>) /\ seq' = seq /\ 0 < seq
    BY <1>13, <1>s DEF OnBreak
  <2> HIDE DEF m
  <2> QED
    BY <1>2, <1>12, <1>13, <2>1, <2>2 DEF OnBreak
<1>14. CASE OnRunning
  BY <1>3, <1>12, <1>14 DEF OnRunning
<1>15. CASE OnState
  BY <1>3, <1>8, <1>12, <1>15 DEF OnState
<1>16. CASE OnAnswer
  BY <1>3, <1>12, <1>16 DEF OnAnswer
<1>17. CASE OnEOF
  BY <1>3, <1>17, <1>a DEF OnEOF
<1>18. CASE Shutdown \/ GldbDies
  BY <1>18 DEF Shutdown, GldbDies
<1> QED
  BY <1>1, <1>5, <1>6, <1>7, <1>9, <1>10, <1>11, <1>13, <1>14, <1>15, <1>16, <1>17, <1>18 DEF UserNext, Respond

-----------------------------------------------------------------------------
(* Handlers: each one's answer is on its way, ahead of any with a greater number. *)
AnsweredIn(s, h, k) == \E j \in DOMAIN s : j < k /\ Asks(s[j]) /\ s[j].id = h

(* Awaited, with the responses as a parameter, before and after a step. *)
LEMMA AwaitedIs == ASSUME NEW h
    PROVE  /\ Awaited(h) <=> /\ \A k \in DOMAIN resps : resps[k].id > h => AnsweredIn(resps, h, k)
                             /\ Joined => Queried(h) \/ AnsweredIn(resps, h, Len(resps) + 1)
           /\ Awaited(h)' <=> /\ \A k \in DOMAIN resps' : resps'[k].id > h => AnsweredIn(resps', h, k)
                              /\ Joined' => Queried(h)' \/ AnsweredIn(resps', h, Len(resps') + 1)
BY DEF Awaited, Answered, AnsweredIn, Asks

\* The step adds a response.
LEMMA AwaitedTells ==
    ASSUME TypeOK, Joined, NEW h, Awaited(h), NEW r, Tells(r),
           r.id > h => AnsweredIn(resps, h, Len(resps) + 1),
           Queried(h) => Queried(h)' \/ (Asks(r) /\ r.id = h)
    PROVE  Awaited(h)'
<1> DEFINE s == resps
           t == resps'
           n == Len(resps)
<1>1. /\ n \in Nat /\ Len(t) = n + 1 /\ DOMAIN s = 1..n /\ DOMAIN t = 1..(n + 1)
      /\ \A i \in 1..n : t[i] = s[i]
      /\ t[n + 1] = r
  BY TellsStep
<1>2. /\ \A k \in DOMAIN s : s[k].id > h => AnsweredIn(s, h, k)
      /\ Queried(h) \/ AnsweredIn(s, h, n + 1)
      /\ r.id > h => AnsweredIn(s, h, n + 1)
  BY AwaitedIs
<1>3. Awaited(h)' <=> /\ \A k \in DOMAIN t : t[k].id > h => AnsweredIn(t, h, k)
                      /\ Joined' => Queried(h)' \/ AnsweredIn(t, h, Len(t) + 1)
  BY AwaitedIs
<1> HIDE DEF s, t, n
<1>4. \A k : AnsweredIn(s, h, k) => AnsweredIn(t, h, k)
  <2>1. \A j \in DOMAIN s : j \in DOMAIN t /\ t[j] = s[j]
    BY <1>1
  <2> QED
    BY <2>1 DEF AnsweredIn
<1>5. ASSUME NEW k \in DOMAIN t, t[k].id > h PROVE AnsweredIn(t, h, k)
  <2>1. CASE k = n + 1
    BY <1>1, <1>2, <1>4, <1>5, <2>1
  <2>2. CASE k # n + 1
    <3>1. k \in DOMAIN s /\ t[k] = s[k]
      BY <1>1, <2>2
    <3> QED
      BY <1>2, <1>4, <1>5, <3>1
  <2> QED
    BY <2>1, <2>2
<1>6. AnsweredIn(s, h, n + 1) => AnsweredIn(t, h, Len(t) + 1)
  <2> SUFFICES ASSUME NEW j \in DOMAIN s, j < n + 1, Asks(s[j]), s[j].id = h PROVE AnsweredIn(t, h, Len(t) + 1)
    BY DEF AnsweredIn
  <2>1. j \in DOMAIN t /\ t[j] = s[j] /\ j < Len(t) + 1
    BY <1>1
  <2> QED
    BY <2>1 DEF AnsweredIn
<1>7. Asks(r) /\ r.id = h => AnsweredIn(t, h, Len(t) + 1)
  <2>1. n + 1 \in DOMAIN t /\ n + 1 < Len(t) + 1
    BY <1>1
  <2> QED
    BY <1>1, <2>1 DEF AnsweredIn
<1> QED
  BY <1>2, <1>3, <1>5, <1>6, <1>7

\* The step leaves the responses alone.
LEMMA AwaitedKeeps ==
    ASSUME NEW h, Awaited(h), resps' = resps, Joined' => Joined /\ (Queried(h) => Queried(h)')
    PROVE  Awaited(h)'
BY AwaitedIs

\* gldb takes a response that is for another.
LEMMA AwaitedDrops ==
    ASSUME TypeOK, NEW h, Awaited(h), NEW codes, Receives(codes), ~(Asks(resps[1]) /\ resps[1].id = h),
           Joined' => Joined /\ (Queried(h) => Queried(h)')
    PROVE  Awaited(h)'
<1> DEFINE s == resps
           t == resps'
           n == Len(resps)
<1>1. /\ n \in Nat \ {0} /\ Len(t) = n - 1 /\ DOMAIN s = 1..n /\ DOMAIN t = 1..(n - 1)
      /\ \A i \in 1..(n - 1) : t[i] = s[i + 1]
  BY ReceivesStep
<1>2. /\ \A k \in DOMAIN s : s[k].id > h => AnsweredIn(s, h, k)
      /\ Joined => Queried(h) \/ AnsweredIn(s, h, n + 1)
      /\ ~(Asks(s[1]) /\ s[1].id = h)
  BY AwaitedIs
<1>3. Awaited(h)' <=> /\ \A k \in DOMAIN t : t[k].id > h => AnsweredIn(t, h, k)
                      /\ Joined' => Queried(h)' \/ AnsweredIn(t, h, Len(t) + 1)
  BY AwaitedIs
<1> HIDE DEF s, t, n
<1>4. ASSUME NEW k \in 1..n, AnsweredIn(s, h, k + 1) PROVE AnsweredIn(t, h, k)
  <2>1. PICK j \in DOMAIN s : j < k + 1 /\ Asks(s[j]) /\ s[j].id = h
    BY <1>4 DEF AnsweredIn
  <2>2. j \in 1..n /\ j # 1
    BY <1>1, <1>2, <2>1
  <2>3. j - 1 \in DOMAIN t /\ j - 1 < k /\ t[j - 1] = s[j]
    BY <1>1, <2>1, <2>2
  <2> QED
    BY <2>1, <2>3 DEF AnsweredIn
<1>5. \A k \in DOMAIN t : t[k].id > h => AnsweredIn(t, h, k)
  <2> SUFFICES ASSUME NEW k \in DOMAIN t, t[k].id > h PROVE AnsweredIn(t, h, k)
    OBVIOUS
  <2>1. k \in 1..n /\ k + 1 \in DOMAIN s /\ t[k] = s[k + 1]
    BY <1>1
  <2> QED
    BY <1>2, <1>4, <2>1
<1>6. AnsweredIn(s, h, n + 1) => AnsweredIn(t, h, Len(t) + 1)
  <2>1. n \in 1..n /\ Len(t) + 1 = n
    BY <1>1
  <2> QED
    BY <1>4, <2>1
<1> QED
  BY <1>2, <1>3, <1>5, <1>6

\* A request that is taken is a query under way no longer; the others are.
LEMMA QueriedTail ==
    ASSUME TypeOK, NumberInv, galive, NEW codes, Acts(codes), NEW h, Queried(h)
    PROVE  /\ Queried(h)' \/ (Head(rq).code = "DATA" /\ Head(rq).id = h)
           /\ Head(rq).code = "DATA" => Head(rq).id <= h
<1>1. /\ Joined /\ Len(Pending) \in Nat \ {0} /\ Pending[1] = Head(rq)
      /\ DOMAIN Pending = 1..Len(Pending) /\ DOMAIN Pending' = 1..(Len(Pending) - 1)
      /\ \A i \in 1..(Len(Pending) - 1) : Pending'[i] = Pending[i + 1]
      /\ \A i \in 1..Len(Pending) : Pending[i] \in Request
  BY ActsStep, PendingFacts
<1>2. PICK i \in DOMAIN Pending : Pending[i].code = "DATA" /\ Pending[i].id = h
  BY DEF Queried
<1>3. h \in Nat /\ Head(rq).id \in Nat /\ 1 \in DOMAIN Pending
  BY <1>1, <1>2, RequestFacts
<1>4. CASE i = 1
  BY <1>1, <1>2, <1>3, <1>4
<1>5. CASE i # 1
  <2>1. i - 1 \in DOMAIN Pending' /\ Pending'[i - 1] = Pending[i] /\ 1 < i
    BY <1>1, <1>5
  <2>2. Queried(h)'
    BY <1>2, <2>1 DEF Queried
  <2>3. Head(rq).code = "DATA" => Head(rq).id < h
    <3>1. InOrder
      BY <1>1 DEF NumberInv
    <3> QED
      BY <1>1, <1>2, <1>3, <2>1, <3>1 DEF InOrder
  <2> QED
    BY <1>3, <2>2, <2>3
<1> QED
  BY <1>4, <1>5

(* A query under way stays under way when gldb sends more. *)
LEMMA QueriedAppend == ASSUME TypeOK, Joined, rq' = rq, galive', NEW m \in Request, Send(<<m>>), NEW h
    PROVE  (Queried(h) \/ (m.code = "DATA" /\ m.id = h)) => Queried(h)'
<1>1. /\ Len(Pending) \in Nat
      /\ DOMAIN Pending = 1..Len(Pending) /\ DOMAIN Pending' = 1..(Len(Pending) + 1)
      /\ \A i \in 1..Len(Pending) : Pending'[i] = Pending[i]
      /\ Pending'[Len(Pending) + 1] = m
  BY SendsStep DEF Joined
<1>2. \A i \in DOMAIN Pending : i \in DOMAIN Pending' /\ Pending'[i] = Pending[i]
  BY <1>1
<1>3. Len(Pending) + 1 \in DOMAIN Pending'
  BY <1>1
<1> QED
  BY <1>1, <1>2, <1>3 DEF Queried

(* Handlers, by their places. *)
LEMMA HandlerNumbers == ASSUME TypeOK
    PROVE  /\ DOMAIN handlers = 1..Len(handlers) /\ Len(handlers) \in Nat
           /\ \A h \in ToSet(handlers) : h \in Nat
           /\ \A h : h \in ToSet(handlers) <=> \E i \in DOMAIN handlers : handlers[i] = h
<1>1. handlers \in Seq(Nat)
  BY DEF TypeOK
<1>2. DOMAIN handlers = 1..Len(handlers) /\ Len(handlers) \in Nat /\ \A i \in DOMAIN handlers : handlers[i] \in Nat
  BY <1>1, LenProperties, ElementOfSeq
<1> QED
  BY <1>2 DEF ToSet

(* The application's steps keep each handler's answer on its way and in order. *)
LEMMA HandlerKinds == ASSUME TypeOK, ControlInv, QueryInv, NumberInv, HandlerInv, galive, AppKinds
                      PROVE  HandlerInv'
<1>0. UNCHANGED <<galive, started, base, seq, handlers>>
  BY DEF AppKinds, Moves, Stops, Dies, Starting, Setting, Answering, Interrupted, Acts, Quiet, gui
<1> SUFFICES ASSUME NEW h \in ToSet(handlers), Awaited(h) PROVE Awaited(h)'
  BY <1>0 DEF HandlerInv
<1>h. h \in Nat
  BY HandlerNumbers
<1>q. Queried(h) <=> \E i \in DOMAIN Pending : Pending[i].code = "DATA" /\ Pending[i].id = h
  BY DEF Queried
<1>n. ASSUME Joined, ~Queried(h) PROVE AnsweredIn(resps, h, Len(resps) + 1)
  BY <1>n, AwaitedIs
<1>r. ASSUME Joined, ~stopped PROVE ~Queried(h)
  <2>1. ~Has(Pending, Queries)
    BY <1>r, NoQueries
  <2> QED
    BY <1>q, <2>1, HasPending DEF Queries
<1>1. ASSUME Joined, ~Queried(h), NEW r, Tells(r) PROVE Awaited(h)'
  BY <1>1, <1>n, AwaitedTells
<1>2. CASE Moves
  <2>1. Joined /\ Pending' = Pending /\ resps' = resps
    BY <1>2 DEF Moves, Joined
  <2>2. Queried(h)' <=> Queried(h)
    BY <2>1 DEF Queried
  <2> QED
    BY <2>1, <2>2, AwaitedKeeps
<1>3. CASE Stops
  BY <1>1, <1>3, <1>r DEF Stops, Joined
<1>4. CASE Dies
  BY <1>4, AwaitedKeeps DEF Dies, Joined
<1>5. CASE Starting
  <2>1. /\ Joined /\ Pending[1].code \in Starts /\ 1 \in DOMAIN Pending /\ DOMAIN Pending = 1..Len(Pending)
    BY <1>5, ActsStep DEF Starting
  <2>2. \A i \in DOMAIN Pending : i = 1 \/ 1 < i
    BY <2>1
  <2>3. \A i \in DOMAIN Pending : Pending[i].code # "DATA"
    BY <2>1, <2>2 DEF QueryInv, Queries, Starts
  <2>4. ~Queried(h)
    BY <1>q, <2>3
  <2>5. CASE resps' = resps
    <3>1. AnsweredIn(resps, h, Len(resps) + 1)
      BY <1>n, <2>1, <2>4
    <3>2. \A k \in DOMAIN resps : resps[k].id > h => AnsweredIn(resps, h, k)
      BY AwaitedIs
    <3> QED
      BY <2>5, <3>1, <3>2, AwaitedIs
  <2> QED
    BY <1>1, <1>5, <2>1, <2>4, <2>5 DEF Starting
<1>6. CASE Setting
  <2>1. Joined /\ (Queried(h) => Queried(h)')
    BY <1>6, ActsStep, QueriedTail DEF Setting, Acts
  <2>2. PICK c \in {"ANS", "ERROR"} : Tells([code |-> c, id |-> 0])
    BY <1>6 DEF Setting
  <2> DEFINE r == [code |-> c, id |-> 0]
  <2>3. Tells(r) /\ ~(r.id > h)
    BY <1>h, <2>2
  <2> HIDE DEF r
  <2> QED
    BY <2>1, <2>3, AwaitedTells
<1>7. CASE Answering
  <2>1. /\ Joined /\ Head(rq) \in Request /\ Head(rq).code \in Queries
    BY <1>7, ActsStep DEF Answering
  <2>2. Queried(h) => /\ Queried(h)' \/ (Head(rq).code = "DATA" /\ Head(rq).id = h)
                      /\ Head(rq).code = "DATA" => Head(rq).id <= h
    BY <1>7, QueriedTail DEF Answering
  <2>3. Head(rq).id \in Nat /\ (Head(rq).code # "DATA" => Head(rq).id = 0)
    BY <2>1, RequestFacts DEF Queries
  <2>4. PICK c \in {"STATE", "DATA", "ERROR"} :
          Tells([code |-> c, id |-> Head(rq).id, asked |-> Head(rq).asked, from |-> AnsweredFrom])
    BY <1>7 DEF Answering
  <2> DEFINE r == [code |-> c, id |-> Head(rq).id, asked |-> Head(rq).asked, from |-> AnsweredFrom]
  <2>5. Tells(r) /\ r.id = Head(rq).id /\ Asks(r)
    BY <2>4 DEF Asks
  <2> HIDE DEF r
  <2>6. r.id > h => ~Queried(h)
    BY <1>h, <2>2, <2>3, <2>5
  <2>7. r.id > h => AnsweredIn(resps, h, Len(resps) + 1)
    BY <1>n, <2>1, <2>6
  <2>8. Queried(h) => Queried(h)' \/ (Asks(r) /\ r.id = h)
    BY <2>2, <2>5
  <2> QED
    BY <2>1, <2>5, <2>7, <2>8, AwaitedTells
<1>8. CASE Interrupted
  <2>1. Joined /\ (Queried(h) => Queried(h)')
    BY <1>8, ActsStep, QueriedTail DEF Interrupted, Acts
  <2>2. CASE resps' = resps
    BY <2>1, <2>2, AwaitedKeeps
  <2>3. CASE ~stopped /\ Tells([code |-> "BREAK", id |-> start_id])
    BY <1>1, <1>r, <2>1, <2>3
  <2> QED
    BY <1>8, <2>2, <2>3 DEF Interrupted
<1> QED
  BY <1>2, <1>3, <1>4, <1>5, <1>6, <1>7, <1>8 DEF AppKinds

\* What is left of the handlers is still in order, and each one still awaited.
LEMMA HandlerSuffix ==
    ASSUME TypeOK, HandlerInv, galive, NEW id, NEW k \in 0..Len(handlers), Suffix(id, k),
           UNCHANGED <<started, base, seq>>,
           \A h \in ToSet(handlers) : h \in ToSet(handlers') /\ Awaited(h) => Awaited(h)'
    PROVE  HandlerInv'
<1> DEFINE H == handlers
           G == handlers'
           n == Len(handlers)
<1>1. /\ DOMAIN H = 1..n /\ DOMAIN G = 1..(n - k) /\ n \in Nat
      /\ \A i \in 1..(n - k) : G[i] = H[k + i]
  BY DEF Suffix
<1>2. /\ \A i, j \in DOMAIN H : i < j => H[i] < H[j]
      /\ \A h \in ToSet(H) : h \notin {0, started} /\ h < seq /\ (h >= base => Awaited(h))
  BY DEF HandlerInv
<1>3. HandlerInv' <=> (galive' =>
      /\ \A i, j \in DOMAIN G : i < j => G[i] < G[j]
      /\ \A h \in ToSet(G) : h \notin {0, started'} /\ h < seq' /\ (h >= base' => Awaited(h)'))
  BY DEF HandlerInv
<1>4. \A h \in ToSet(H) : h \in ToSet(G) /\ Awaited(h) => Awaited(h)'
  OBVIOUS
<1> HIDE DEF H, G, n
<1>5. \A i \in DOMAIN G : k + i \in DOMAIN H /\ G[i] = H[k + i]
  BY <1>1
<1>6. \A i, j \in DOMAIN G : i < j => k + i < k + j
  BY <1>1
<1>7. \A h \in ToSet(G) : h \in ToSet(H)
  BY <1>5 DEF ToSet
<1> QED
  BY <1>2, <1>3, <1>4, <1>5, <1>6, <1>7

(* A query's handler is awaited: its number is the greatest. *)
LEMMA HandlerQuery ==
    ASSUME TypeOK, NumberInv, HandlerInv, Joined, Query(<<>>), rq' = rq, galive', apc' = apc, UNCHANGED <<started, base>>,
           \A h \in ToSet(handlers) : Awaited(h) => Awaited(h)',
           \A i \in DOMAIN resps' : resps'[i].id < seq /\ resps'[i].id \in Nat
    PROVE  HandlerInv'
<1> DEFINE m == [code |-> "DATA", id |-> seq, asked |-> started]
           H == handlers
           G == handlers'
           n == Len(handlers)
<1>1. /\ m \in Request /\ Send(<<m>>) /\ seq' = seq + 1
      /\ n \in Nat /\ DOMAIN H = 1..n /\ DOMAIN G = 1..(n + 1)
      /\ \A i \in 1..n : G[i] = H[i]
      /\ G[n + 1] = seq
  BY Queried1
<1>s. seq \in Nat /\ started \in Nat /\ started < seq
  BY DEF TypeOK
<1>p. PICK q \in Nat : q = seq
  BY <1>s
<1>2. m.code = "DATA" /\ m.id = seq
  OBVIOUS
<1>3. /\ \A i, j \in DOMAIN H : i < j => H[i] < H[j]
      /\ \A h \in ToSet(H) : h \notin {0, started} /\ h < seq /\ (h >= base => Awaited(h)) /\ h \in Nat
  BY HandlerNumbers DEF HandlerInv, Joined
<1>4. HandlerInv' <=> (galive' =>
      /\ \A i, j \in DOMAIN G : i < j => G[i] < G[j]
      /\ \A h \in ToSet(G) : h \notin {0, started'} /\ h < seq' /\ (h >= base' => Awaited(h)'))
  BY DEF HandlerInv
<1>5. \A h \in ToSet(H) : Awaited(h) => Awaited(h)'
  OBVIOUS
<1> HIDE DEF m, H, G, n
<1>6. Queried(q)'
  BY <1>1, <1>2, <1>p, QueriedAppend
<1>7. Awaited(q)'
  <2>1. \A i \in DOMAIN resps' : ~(resps'[i].id > q)
    BY <1>s, <1>p
  <2> QED
    BY <1>6, <2>1, AwaitedIs
<1>8. \A i \in DOMAIN G : (i \in DOMAIN H /\ G[i] = H[i]) \/ (i = n + 1 /\ G[i] = seq)
  BY <1>1
<1>9. \A i \in DOMAIN H : H[i] \in ToSet(H)
  BY DEF ToSet
<1>10. ASSUME NEW i \in DOMAIN G, NEW j \in DOMAIN G, i < j PROVE G[i] < G[j]
  <2>1. i \in DOMAIN H /\ G[i] = H[i]
    BY <1>1, <1>10
  <2> QED
    BY <1>3, <1>8, <1>9, <1>10, <2>1
<1>11. \A h \in ToSet(G) : h \in ToSet(H) \/ h = q
  BY <1>8, <1>9, <1>p DEF ToSet
<1>12. \A h \in ToSet(G) : h \notin {0, started'} /\ h < seq' /\ (h >= base' => Awaited(h)')
  BY <1>1, <1>3, <1>5, <1>7, <1>11, <1>p, <1>s
<1> QED
  BY <1>4, <1>10, <1>12

(* gldb's steps erase no handler whose answer is still to come. *)
LEMMA HandlerGui == ASSUME TypeOK, NumberInv, HandlerInv, SignalInv, galive', UserNext \/ GldbDies \/ Respond
                    PROVE  HandlerInv'
<1> USE DEF app, debugger, requests, tables, gui
<1>s. seq \in Nat /\ started \in Nat /\ started < seq
  BY DEF TypeOK
<1>g. galive
  <2>1. CASE UserNext
    BY <2>1 DEF UserNext, Run, StopAction, ContinueAction, KillAction, PaneQuery, Shutdown, SetBreak, SetBreakEvent, UserActs
  <2>2. CASE Respond
    BY <2>2 DEF Respond, OnBreak, OnRunning, OnState, OnAnswer, OnEOF, Receives
  <2>3. CASE GldbDies
    BY <2>3 DEF GldbDies
  <2> QED
    BY <2>1, <2>2, <2>3
<1>i. /\ \A i, j \in DOMAIN handlers : i < j => handlers[i] < handlers[j]
      /\ \A h \in ToSet(handlers) : h \notin {0, started} /\ h < seq /\ (h >= base => Awaited(h)) /\ h \in Nat
  BY <1>g, HandlerNumbers DEF HandlerInv
<1>1. CASE Run
  <2>1. handlers' = handlers /\ started' = seq /\ base' = seq /\ seq' = seq + 1
    BY <1>1 DEF Run
  <2>2. \A h \in ToSet(handlers) : h \notin {0, started'} /\ h < seq' /\ ~(h >= base')
    BY <1>i, <1>s, <2>1
  <2> QED
    BY <1>i, <2>1, <2>2 DEF HandlerInv
\* the handlers stay, and what gldb sends, if anything, is a request
<1>2. ASSUME UNCHANGED <<handlers, base, rq, apc, resps>>, seq' \in {seq, seq + 1}, started' \in {started, seq},
             reqs' = reqs \/ \E m \in Request : Send(<<m>>)
      PROVE  HandlerInv'
  <2>1. ASSUME NEW h \in ToSet(handlers), Awaited(h) PROVE Awaited(h)'
    <3>1. CASE reqs' = reqs
      <4>1. (Joined' => Joined) /\ (Queried(h) => Queried(h)')
        BY <1>2, <1>g, <3>1 DEF Joined, Queried, Pending
      <4> QED
        BY <1>2, <2>1, <4>1, AwaitedKeeps
    <3>2. ASSUME NEW m \in Request, Send(<<m>>) PROVE Awaited(h)'
      <4>1. Joined
        BY <1>g, <3>2 DEF Send, Joined
      <4>2. Queried(h) => Queried(h)'
        BY <1>2, <3>2, <4>1, QueriedAppend
      <4> QED
        BY <1>2, <2>1, <4>1, <4>2, AwaitedKeeps
    <3> QED
      BY <1>2, <3>1, <3>2
  <2>2. \A h \in ToSet(handlers) : h \notin {0, started'} /\ h < seq'
    BY <1>2, <1>i, <1>s
  <2> QED
    BY <1>2, <1>i, <2>1, <2>2 DEF HandlerInv
<1>3. ASSUME NEW c \in {"ASYNC", "QUIT", "CONT", "STEP"}, Send(<<[code |-> c, id |-> seq]>>)
      PROVE  \E m \in Request : Send(<<m>>)
  <2>1. \A x \in {"RUN", "CONT", "STEP", "ASYNC", "QUIT", "NULL"} : [code |-> x, id |-> seq] \in Request
    BY <1>s, SimpleRequests
  <2> QED
    BY <1>3, <2>1
<1>4. CASE StopAction
  BY <1>2, <1>3, <1>4 DEF StopAction
<1>5. CASE KillAction
  BY <1>2, <1>3, <1>5 DEF KillAction
<1>6. ASSUME NEW code \in {"CONT", "STEP"}, ContinueAction(code) PROVE HandlerInv'
  BY <1>2, <1>3, <1>6 DEF ContinueAction
<1>7. CASE PaneQuery
  <2>1. Query(<<>>) /\ UNCHANGED <<rq, apc, resps, started, base>>
    BY <1>7 DEF PaneQuery
  <2> DEFINE m == [code |-> "DATA", id |-> seq, asked |-> started]
  <2>2. m \in Request /\ Send(<<m>>)
    BY <2>1, Queried1
  <2> HIDE DEF m
  <2>3. Joined
    BY <1>g, <2>2 DEF Send, Joined
  <2>4. \A h \in ToSet(handlers) : Awaited(h) => Awaited(h)'
    BY <2>1, <2>2, <2>3, QueriedAppend, AwaitedKeeps
  <2>5. \A i \in DOMAIN resps : resps[i].id < seq /\ resps[i].id \in Nat
    <3>1. \A i \in DOMAIN resps : resps[i].id < seq
      BY <1>g DEF NumberInv
    <3>2. resps \in Seq(Response) /\ DOMAIN resps = 1..Len(resps)
      BY LenProperties DEF TypeOK
    <3> QED
      BY <3>1, <3>2, ElementOfSeq, ResponseFacts
  <2> QED
    BY <2>1, <2>3, <2>4, <2>5, HandlerQuery
<1>8. ASSUME NEW f \in BreakName, NEW on \in BOOLEAN, SetBreak(f, on) PROVE HandlerInv'
  <2>1. SetBreakRequest(f, on) \in Request
    BY SimpleRequests, 0 \in Nat
  <2>2. UNCHANGED <<handlers, base, rq, apc, resps, seq, started>> /\ (reqs' = reqs \/ Send(<<SetBreakRequest(f, on)>>))
    BY <1>8 DEF SetBreak, SendIfAlive
  <2> QED
    BY <1>2, <2>1, <2>2
<1>9. ASSUME NEW e \in ToggledEvent, NEW on \in BOOLEAN, SetBreakEvent(e, on) PROVE HandlerInv'
  <2>1. SetEventRequest(e, on) \in Request
    BY SimpleRequests, EventAssumption, 0 \in Nat
  <2>2. UNCHANGED <<handlers, base, rq, apc, resps, seq, started>> /\ (reqs' = reqs \/ Send(<<SetEventRequest(e, on)>>))
    BY <1>9 DEF SetBreakEvent, SendIfAlive
  <2> QED
    BY <1>2, <2>1, <2>2
\* gldb takes a response; those to come are numbered below seq
<1>10. ASSUME NEW codes, Receives(codes)
       PROVE  /\ \A i \in DOMAIN resps' : resps'[i].id < seq /\ resps'[i].id \in Nat
              /\ UNCHANGED <<rq, apc, started, base>>
              /\ resps[1] \in Response /\ resps[1].code \in codes /\ Head(resps) = resps[1]
              /\ 1 \in DOMAIN resps /\ resps[1].id \in Nat
  <2>1. /\ Len(resps) \in Nat \ {0}
        /\ DOMAIN resps = 1..Len(resps) /\ DOMAIN resps' = 1..(Len(resps) - 1)
        /\ \A i \in 1..(Len(resps) - 1) : resps'[i] = resps[i + 1]
        /\ resps' \in Seq(Response)
        /\ resps[1] \in Response /\ resps[1].code \in codes /\ Head(resps) = resps[1]
    BY <1>10, ReceivesStep
  <2>2. \A i \in DOMAIN resps' : i + 1 \in DOMAIN resps /\ resps'[i] = resps[i + 1] /\ resps'[i] \in Response
    BY <2>1, ElementOfSeq, LenProperties
  <2>3. UNCHANGED <<rq, apc, started, base>>
    BY <1>10 DEF Receives
  <2>4. \A i \in DOMAIN resps : resps[i].id < seq
    BY <1>g DEF NumberInv
  <2>5. 1 \in DOMAIN resps
    BY <2>1
  <2> QED
    BY <2>1, <2>2, <2>3, <2>4, <2>5, ResponseFacts
<1>11. ASSUME NEW codes, Receives(codes), reqs' = reqs, NEW h, Awaited(h), ~(Asks(resps[1]) /\ resps[1].id = h)
       PROVE  Awaited(h)'
  <2>1. (Joined' => Joined) /\ (Queried(h) => Queried(h)')
    BY <1>g, <1>10, <1>11 DEF Joined, Queried, Pending
  <2> QED
    BY <1>11, <2>1, AwaitedDrops
<1>12. ASSUME NEW codes, Receives(codes), NEW m \in Request, Send(<<m>>), NEW h, Awaited(h),
              ~(Asks(resps[1]) /\ resps[1].id = h)
       PROVE  Awaited(h)'
  <2>1. Joined
    BY <1>g, <1>12 DEF Send, Joined
  <2>2. Queried(h) => Queried(h)'
    BY <1>10, <1>12, <2>1, QueriedAppend
  <2> QED
    BY <1>12, <2>1, <2>2, AwaitedDrops
<1>t. handlers \in Seq(Nat)
  BY DEF TypeOK
<1>13. CASE OnBreak
  <2> DEFINE m == [code |-> "STATE_TREE_RAW", id |-> 0, asked |-> started]
  <2>1. Receives(Breaks) /\ handlers' = AfterErase(Head(resps).id) /\ seq' = seq /\ Send(<<m>>)
    BY <1>13 DEF OnBreak
  <2>2. m \in Request
    BY <1>s, SimpleRequests
  <2> HIDE DEF m
  <2>3. Head(resps).id \in Nat /\ ~Asks(resps[1]) /\ UNCHANGED <<started, base>>
    BY <1>10, <2>1, ResponseFacts DEF Signals
  <2>4. PICK k \in 0..Len(handlers) : Suffix(Head(resps).id, k)
    BY <1>t, <2>1, <2>3, ErasesSuffix
  <2>5. \A h \in ToSet(handlers) : Awaited(h) => Awaited(h)'
    BY <1>12, <2>1, <2>2, <2>3
  <2> QED
    BY <1>g, <2>1, <2>3, <2>4, <2>5, HandlerSuffix
<1>14. CASE OnRunning
  <2>1. Receives({"RUNNING"}) /\ handlers' = AfterErase(Head(resps).id) /\ seq' = seq /\ reqs' = reqs
    BY <1>14 DEF OnRunning
  <2>2. Head(resps).id \in Nat /\ ~Asks(resps[1]) /\ UNCHANGED <<started, base>>
    BY <1>10, <2>1, ResponseFacts DEF Signals
  <2>3. PICK k \in 0..Len(handlers) : Suffix(Head(resps).id, k)
    BY <1>t, <2>1, <2>2, ErasesSuffix
  <2>4. \A h \in ToSet(handlers) : Awaited(h) => Awaited(h)'
    BY <1>11, <2>1, <2>2
  <2> QED
    BY <1>g, <2>1, <2>2, <2>3, <2>4, HandlerSuffix
<1>15. CASE OnState
  <2>1. Receives({"STATE"})
    BY <1>15 DEF OnState
  <2>2. resps[1].id = 0
    BY <1>10, <2>1, ResponseFacts
  <2>3. CASE Query(<<>>)
    <3> DEFINE m == [code |-> "DATA", id |-> seq, asked |-> started]
    <3>1. m \in Request /\ Send(<<m>>)
      BY <2>3, Queried1
    <3> HIDE DEF m
    <3>2. Joined
      BY <1>g, <3>1 DEF Send, Joined
    <3>3. \A h \in ToSet(handlers) : Awaited(h) => Awaited(h)'
      BY <1>12, <1>i, <2>1, <2>2, <3>1
    <3> QED
      BY <1>10, <2>1, <2>3, <3>2, <3>3, HandlerQuery
  <2>4. CASE UNCHANGED <<reqs, galive, handlers, seq>>
    <3>1. \A h \in ToSet(handlers) : Awaited(h) => Awaited(h)'
      BY <1>11, <1>i, <2>1, <2>2, <2>4
    <3>2. UNCHANGED <<started, base>>
      BY <1>10, <2>1
    <3> QED
      BY <1>i, <2>4, <3>1, <3>2 DEF HandlerInv
  <2> QED
    BY <1>15, <2>3, <2>4 DEF OnState
<1>16. CASE OnAnswer
  <2>1. /\ Receives({"ANS", "ERROR", "DATA"}) /\ seq' = seq /\ reqs' = reqs
        /\ handlers' = IF Answers(Head(resps).id) THEN Tail(AfterErase(Head(resps).id)) ELSE AfterErase(Head(resps).id)
    BY <1>16 DEF OnAnswer
  <2>2. Head(resps).id \in Nat /\ Head(resps) = resps[1] /\ UNCHANGED <<started, base>>
    BY <1>10, <2>1
  <2>3. PICK k \in 0..Len(handlers) : /\ Suffix(Head(resps).id, k)
                                      /\ \A i \in 1..(Len(handlers) - k) : handlers'[i] > Head(resps).id
    BY <1>t, <1>i, <2>1, <2>2, AnswersSuffix
  <2>4. ASSUME NEW h \in ToSet(handlers), h \in ToSet(handlers'), Awaited(h) PROVE Awaited(h)'
    <3>1. h > resps[1].id
      BY <2>2, <2>3, <2>4 DEF Suffix, ToSet
    <3>2. h # resps[1].id
      BY <1>i, <2>2, <3>1
    <3> QED
      BY <1>11, <2>1, <2>4, <3>2
  <2> QED
    BY <1>g, <2>1, <2>2, <2>3, <2>4, HandlerSuffix
<1>17. CASE OnEOF
  <2>1. UNCHANGED <<handlers, base, rq, apc, resps, seq, started, reqs>>
    BY <1>17 DEF OnEOF
  <2> QED
    BY <1>2, <2>1
<1>18. CASE Shutdown \/ GldbDies
  BY <1>18 DEF Shutdown, GldbDies
<1> QED
  BY <1>1, <1>4, <1>5, <1>6, <1>7, <1>8, <1>9, <1>13, <1>14, <1>15, <1>16, <1>17, <1>18 DEF UserNext, Respond

-----------------------------------------------------------------------------
(* The break tables: what they will be once the requests under way are acted on. *)
Will(P, code, name, table) ==
    \/ name \in table /\ \A i \in DOMAIN P : ~Sets(P[i], code, name)
    \/ \E i \in DOMAIN P : /\ Sets(P[i], code, name) /\ P[i].on
                           /\ \A j \in DOMAIN P : j > i => ~Sets(P[j], code, name)

(* The agreement of the tables, with the requests as a parameter. *)
LEMMA ConvergeIs ==
    /\ BreakpointsConverge <=> (Joined =>
          /\ \A f \in Known : Will(Pending, "SETBREAK", f, break_on) <=> (f \in DOMAIN gbreak /\ gbreak[f])
          /\ \A e \in Event : Will(Pending, "SETEVENT", e, break_on_event) <=> (e \in gevent))
    /\ BreakpointsConverge' <=> (Joined' =>
          /\ \A f \in Known : Will(Pending', "SETBREAK", f, break_on') <=> (f \in DOMAIN gbreak' /\ gbreak'[f])
          /\ \A e \in Event : Will(Pending', "SETEVENT", e, break_on_event') <=> (e \in gevent'))
BY Zenon DEF BreakpointsConverge, Eventually, EventuallyEvent, WillHave, Will, Sets

(* Applying the first request for a name changes nothing in what the table will have. *)
LEMMA WillTail ==
    ASSUME NEW P, NEW Q, NEW n \in Nat \ {0}, DOMAIN P = 1..n, DOMAIN Q = 1..(n - 1),
           \A i \in 1..(n - 1) : Q[i] = P[i + 1],
           NEW code, NEW name, NEW T, NEW U,
           name \in U <=> (Sets(P[1], code, name) /\ P[1].on) \/ (~Sets(P[1], code, name) /\ name \in T)
    PROVE  Will(Q, code, name, U) <=> Will(P, code, name, T)
<1>1. \A i \in DOMAIN Q : i + 1 \in DOMAIN P /\ Q[i] = P[i + 1] /\ i + 1 > 1
  OBVIOUS
<1>2. \A i \in DOMAIN P : i = 1 \/ (i - 1 \in DOMAIN Q /\ P[i] = Q[i - 1])
  OBVIOUS
<1>3. 1 \in DOMAIN P
  OBVIOUS
<1>4. ASSUME Will(Q, code, name, U) PROVE Will(P, code, name, T)
  <2>1. CASE name \in U /\ \A i \in DOMAIN Q : ~Sets(Q[i], code, name)
    <3>1. \A i \in DOMAIN P : i > 1 => ~Sets(P[i], code, name)
      BY <1>2, <2>1
    <3>2. \A i \in DOMAIN P : i = 1 \/ i > 1
      OBVIOUS
    <3> QED
      BY <1>3, <2>1, <3>1, <3>2 DEF Will
  <2>2. ASSUME NEW i \in DOMAIN Q, Sets(Q[i], code, name), Q[i].on,
               \A j \in DOMAIN Q : j > i => ~Sets(Q[j], code, name)
        PROVE  Will(P, code, name, T)
    <3>1. \A j \in DOMAIN P : j > i + 1 => j - 1 \in DOMAIN Q /\ j - 1 > i /\ P[j] = Q[j - 1]
      OBVIOUS
    <3>2. \A j \in DOMAIN P : j > i + 1 => ~Sets(P[j], code, name)
      BY <2>2, <3>1
    <3> QED
      BY <1>1, <2>2, <3>2 DEF Will
  <2> QED
    BY <1>4, <2>1, <2>2 DEF Will
<1>5. ASSUME Will(P, code, name, T) PROVE Will(Q, code, name, U)
  <2>1. CASE name \in T /\ \A i \in DOMAIN P : ~Sets(P[i], code, name)
    BY <1>1, <1>3, <2>1 DEF Will
  <2>2. ASSUME NEW i \in DOMAIN P, Sets(P[i], code, name), P[i].on,
               \A j \in DOMAIN P : j > i => ~Sets(P[j], code, name)
        PROVE  Will(Q, code, name, U)
    <3>1. CASE i = 1
      <4>1. name \in U /\ \A j \in DOMAIN Q : ~Sets(Q[j], code, name)
        BY <1>1, <2>2, <3>1
      <4> QED
        BY <4>1 DEF Will
    <3>2. CASE i # 1
      <4>1. i - 1 \in DOMAIN Q /\ P[i] = Q[i - 1]
        BY <1>2, <3>2
      <4>2. \A j \in DOMAIN Q : j > i - 1 => j + 1 \in DOMAIN P /\ j + 1 > i /\ Q[j] = P[j + 1]
        OBVIOUS
      <4>3. \A j \in DOMAIN Q : j > i - 1 => ~Sets(Q[j], code, name)
        BY <2>2, <4>2
      <4> QED
        BY <2>2, <4>1, <4>3 DEF Will
    <3> QED
      BY <3>1, <3>2
  <2> QED
    BY <1>5, <2>1, <2>2 DEF Will
<1> QED
  BY <1>4, <1>5

(* What the last request for a name says is what the table will have. *)
LEMMA WillAppend ==
    ASSUME NEW P, NEW Q, NEW n \in Nat, DOMAIN P = 1..n, DOMAIN Q = 1..(n + 1),
           \A i \in 1..n : Q[i] = P[i],
           NEW code, NEW name, NEW T
    PROVE  Will(Q, code, name, T) <=> \/ Sets(Q[n + 1], code, name) /\ Q[n + 1].on
                                      \/ ~Sets(Q[n + 1], code, name) /\ Will(P, code, name, T)
<1> DEFINE m == Q[n + 1]
<1>1. \A i \in DOMAIN P : i \in DOMAIN Q /\ Q[i] = P[i] /\ n + 1 > i
  OBVIOUS
<1>2. \A i \in DOMAIN Q : i = n + 1 \/ (i \in DOMAIN P /\ Q[i] = P[i])
  OBVIOUS
<1>3. n + 1 \in DOMAIN Q /\ Q[n + 1] = m /\ \A j \in DOMAIN Q : ~(j > n + 1)
  OBVIOUS
<1> HIDE DEF m
<1>4. CASE Sets(m, code, name)
  <2>1. ASSUME Will(Q, code, name, T) PROVE m.on
    <3>1. PICK i \in DOMAIN Q : /\ Sets(Q[i], code, name) /\ Q[i].on
                                /\ \A j \in DOMAIN Q : j > i => ~Sets(Q[j], code, name)
      BY <1>3, <1>4, <2>1 DEF Will
    <3>2. i = n + 1
      BY <1>1, <1>2, <1>3, <1>4, <3>1
    <3> QED
      BY <1>3, <3>1, <3>2
  <2>2. ASSUME m.on PROVE Will(Q, code, name, T)
    BY <1>3, <1>4, <2>2 DEF Will
  <2> QED
    BY <1>3, <1>4, <2>1, <2>2
<1>5. CASE ~Sets(m, code, name)
  <2>1. ASSUME Will(Q, code, name, T) PROVE Will(P, code, name, T)
    BY <1>1, <1>2, <1>3, <1>5, <2>1 DEF Will
  <2>2. ASSUME Will(P, code, name, T) PROVE Will(Q, code, name, T)
    BY <1>1, <1>2, <1>3, <1>5, <2>2 DEF Will
  <2> QED
    BY <1>3, <1>5, <2>1, <2>2
<1> QED
  BY <1>4, <1>5

\* When the requests for a name all say the same, so will the table.
LEMMA WillAgree ==
    ASSUME NEW P, NEW n \in Nat, DOMAIN P = 1..n, NEW code, NEW name, NEW T, NEW v \in BOOLEAN,
           \A i \in DOMAIN P : Sets(P[i], code, name) => P[i].on = v,
           \E i \in DOMAIN P : Sets(P[i], code, name)
    PROVE  Will(P, code, name, T) <=> v
<1>1. ASSUME v PROVE Will(P, code, name, T)
  <2> DEFINE D == {d \in 0..n : n - d \in DOMAIN P /\ Sets(P[n - d], code, name)}
  <2>1. PICK i \in DOMAIN P : Sets(P[i], code, name)
    OBVIOUS
  <2>2. n - i \in 0..n /\ n - (n - i) = i
    OBVIOUS
  <2>3. n - i \in D
    BY <2>1, <2>2
  <2>4. D \in SUBSET Nat
    OBVIOUS
  <2>5. \A d \in 0..n : n - d \in DOMAIN P /\ Sets(P[n - d], code, name) => d \in D
    OBVIOUS
  <2>6. \A d \in D : d \in 0..n /\ n - d \in DOMAIN P /\ Sets(P[n - d], code, name)
    OBVIOUS
  <2> HIDE DEF D
  <2>7. PICK d \in D : \A x \in D : d <= x
    BY <2>3, <2>4, LeastIndex
  <2>8. \A j \in DOMAIN P : j > n - d => ~Sets(P[j], code, name)
    <3> SUFFICES ASSUME NEW j \in DOMAIN P, j > n - d, Sets(P[j], code, name) PROVE FALSE
      OBVIOUS
    <3>1. n - j \in 0..n /\ n - (n - j) = j
      OBVIOUS
    <3>2. n - j \in D
      BY <2>5, <3>1
    <3>3. d <= n - j /\ d \in 0..n
      BY <2>6, <2>7, <3>2
    <3> QED
      BY <3>3
  <2>9. n - d \in DOMAIN P /\ Sets(P[n - d], code, name) /\ P[n - d].on
    BY <1>1, <2>6, <2>7
  <2> QED
    BY <2>8, <2>9 DEF Will
<1>2. ASSUME Will(P, code, name, T) PROVE v
  BY <1>2 DEF Will
<1> QED
  BY <1>1, <1>2

(* The application's steps keep the tables in agreement. *)
LEMMA ConvergeKinds == ASSUME TypeOK, BreakpointsConverge, galive, AppKinds
                       PROVE  BreakpointsConverge'
<1> SUFFICES ASSUME Joined' PROVE BreakpointsConverge'
  BY ConvergeIs
<1>0. UNCHANGED <<gbreak, gevent>>
  BY DEF AppKinds, Moves, Stops, Dies, Starting, Setting, Answering, Interrupted, Acts, Quiet, tables
<1>1. CASE Moves \/ Stops
  <2>1. Joined /\ Pending' = Pending /\ UNCHANGED <<break_on, break_on_event>>
    BY <1>1 DEF Moves, Stops, Unset, Joined
  <2> QED
    BY <1>0, <2>1, ConvergeIs
<1>2. CASE Dies
  BY <1>2 DEF Dies, Joined
<1>3. ASSUME NEW codes, Acts(codes),
             \A f \in Known : f \in break_on' <=> \/ Sets(Pending[1], "SETBREAK", f) /\ Pending[1].on
                                                  \/ ~Sets(Pending[1], "SETBREAK", f) /\ f \in break_on,
             \A e \in Event : e \in break_on_event' <=> \/ Sets(Pending[1], "SETEVENT", e) /\ Pending[1].on
                                                        \/ ~Sets(Pending[1], "SETEVENT", e) /\ e \in break_on_event
      PROVE  BreakpointsConverge'
  <2> DEFINE P == Pending
             Q == Pending'
             n == Len(Pending)
  <2>1. /\ Joined /\ n \in Nat \ {0} /\ DOMAIN P = 1..n /\ DOMAIN Q = 1..(n - 1)
        /\ \A i \in 1..(n - 1) : Q[i] = P[i + 1]
    BY <1>3, ActsStep
  <2>2. /\ \A f \in Known : Will(P, "SETBREAK", f, break_on) <=> (f \in DOMAIN gbreak /\ gbreak[f])
        /\ \A e \in Event : Will(P, "SETEVENT", e, break_on_event) <=> (e \in gevent)
    BY <2>1, ConvergeIs
  <2>3. BreakpointsConverge' <=> (Joined' =>
          /\ \A f \in Known : Will(Q, "SETBREAK", f, break_on') <=> (f \in DOMAIN gbreak' /\ gbreak'[f])
          /\ \A e \in Event : Will(Q, "SETEVENT", e, break_on_event') <=> (e \in gevent'))
    BY ConvergeIs
  <2>4. /\ \A f \in Known : f \in break_on' <=> \/ Sets(P[1], "SETBREAK", f) /\ P[1].on
                                                \/ ~Sets(P[1], "SETBREAK", f) /\ f \in break_on
        /\ \A e \in Event : e \in break_on_event' <=> \/ Sets(P[1], "SETEVENT", e) /\ P[1].on
                                                      \/ ~Sets(P[1], "SETEVENT", e) /\ e \in break_on_event
    BY <1>3
  <2> HIDE DEF P, Q, n
  <2>5. \A f \in Known : Will(Q, "SETBREAK", f, break_on') <=> Will(P, "SETBREAK", f, break_on)
    BY <2>1, <2>4, WillTail
  <2>6. \A e \in Event : Will(Q, "SETEVENT", e, break_on_event') <=> Will(P, "SETEVENT", e, break_on_event)
    BY <2>1, <2>4, WillTail
  <2> QED
    BY <1>0, <2>2, <2>3, <2>5, <2>6
<1>4. ASSUME NEW codes, Acts(codes), codes \cap {"SETBREAK", "SETEVENT"} = {}, Unset PROVE BreakpointsConverge'
  <2>1. Pending[1].code \notin {"SETBREAK", "SETEVENT"}
    BY <1>4, ActsStep
  <2> QED
    BY <1>3, <1>4, <2>1 DEF Sets, Unset
<1>5. CASE Starting \/ Answering \/ Interrupted
  BY <1>4, <1>5 DEF Starting, Answering, Interrupted, Starts, Queries
<1>6. CASE Setting
  <2>1. Acts({"SETBREAK", "SETEVENT"}) /\ Pending[1] = Head(rq)
    BY <1>6, ActsStep DEF Setting
  <2> DEFINE r == Head(rq)
  <2>2. r.code \in {"SETBREAK", "SETEVENT"}
    BY <2>1 DEF Acts
  <2>3. /\ break_on' = IF r.code = "SETBREAK" /\ r.name \in Known
                       THEN IF r.on THEN break_on \cup {r.name} ELSE break_on \ {r.name}
                       ELSE break_on
        /\ break_on_event' = IF r.code = "SETEVENT"
                             THEN IF r.on THEN break_on_event \cup {r.name}
                                  ELSE break_on_event \ {r.name}
                             ELSE break_on_event
    BY <1>6 DEF Setting
  <2>4. Pending[1] = r
    BY <2>1
  <2> HIDE DEF r
  <2>5. \A f \in Known : f \in break_on' <=> \/ Sets(r, "SETBREAK", f) /\ r.on
                                             \/ ~Sets(r, "SETBREAK", f) /\ f \in break_on
    BY <2>3 DEF Sets
  <2>6. \A e \in Event : e \in break_on_event' <=> \/ Sets(r, "SETEVENT", e) /\ r.on
                                                   \/ ~Sets(r, "SETEVENT", e) /\ e \in break_on_event
    BY <2>3 DEF Sets
  <2> QED
    BY <1>3, <2>1, <2>4, <2>5, <2>6
<1> QED
  BY <1>1, <1>2, <1>5, <1>6 DEF AppKinds

(* gldb_run tells the new process of every event and breakpoint, so the tables agree. *)
LEMMA ConvergeRun == ASSUME TypeOK, Run PROVE BreakpointsConverge'
<1> DEFINE Q == Pending'
           n == Len(Q)
<1>1. /\ n \in Nat \ {0} /\ DOMAIN Q = 1..n
      /\ Q[n] = [code |-> "RUN", id |-> seq]
      /\ \A i \in 1..(n - 1) :
             \/ \E e \in Event : Q[i] = SetEventRequest(e, e \in gevent)
             \/ \E f \in DOMAIN gbreak : Q[i] = SetBreakRequest(f, gbreak[f])
      /\ \A e \in Event : \E i \in 1..(n - 1) : Q[i] = SetEventRequest(e, e \in gevent)
      /\ \A f \in DOMAIN gbreak : \E i \in 1..(n - 1) : Q[i] = SetBreakRequest(f, gbreak[f])
  BY RunStep, Zenon
<1>2. BreakpointsConverge' <=> (Joined' =>
          /\ \A f \in Known : Will(Q, "SETBREAK", f, break_on') <=> (f \in DOMAIN gbreak' /\ gbreak'[f])
          /\ \A e \in Event : Will(Q, "SETEVENT", e, break_on_event') <=> (e \in gevent'))
  BY ConvergeIs
<1>3. break_on' = {} /\ gbreak' = gbreak /\ gevent' = gevent
  BY DEF Run, tables
<1>t. \A f \in DOMAIN gbreak : gbreak[f] \in BOOLEAN
  BY DEF TypeOK
<1> HIDE DEF n, Q
<1>4. Q[n].code = "RUN" /\ \A i \in 1..n : i = n \/ i \in 1..(n - 1)
  BY <1>1
<1>5. \A x, on : /\ SetEventRequest(x, on).code = "SETEVENT" /\ SetBreakRequest(x, on).code = "SETBREAK"
                 /\ SetEventRequest(x, on).name = x /\ SetBreakRequest(x, on).name = x
                 /\ SetEventRequest(x, on).on = on /\ SetBreakRequest(x, on).on = on
  BY DEF SetEventRequest, SetBreakRequest
<1>6. \A i \in 1..(n - 1) : /\ Q[i].code \in {"SETBREAK", "SETEVENT"}
                            /\ Q[i].code = "SETEVENT" => Q[i].on = (Q[i].name \in gevent)
                            /\ Q[i].code = "SETBREAK" => Q[i].name \in DOMAIN gbreak /\ Q[i].on = gbreak[Q[i].name]
  <2> SUFFICES ASSUME NEW i \in 1..(n - 1)
               PROVE  /\ Q[i].code \in {"SETBREAK", "SETEVENT"}
                      /\ Q[i].code = "SETEVENT" => Q[i].on = (Q[i].name \in gevent)
                      /\ Q[i].code = "SETBREAK" => Q[i].name \in DOMAIN gbreak /\ Q[i].on = gbreak[Q[i].name]
    OBVIOUS
  <2>1. ASSUME NEW e \in Event, Q[i] = SetEventRequest(e, e \in gevent)
        PROVE  Q[i].code = "SETEVENT" /\ Q[i].on = (e \in gevent) /\ Q[i].name = e
    <3> DEFINE v == e \in gevent
    <3>1. Q[i] = SetEventRequest(e, v)
      BY <2>1
    <3> HIDE DEF v
    <3>2. Q[i].code = "SETEVENT" /\ Q[i].on = v /\ Q[i].name = e
      BY <1>5, <3>1
    <3> QED
      BY <3>2 DEF v
  <2>2. ASSUME NEW f \in DOMAIN gbreak, Q[i] = SetBreakRequest(f, gbreak[f])
        PROVE  Q[i].code = "SETBREAK" /\ Q[i].on = gbreak[f] /\ Q[i].name = f
    BY <1>5, <2>2
  <2>3. CASE \E e \in Event : Q[i] = SetEventRequest(e, e \in gevent)
    BY <2>1, <2>3
  <2>4. CASE \E f \in DOMAIN gbreak : Q[i] = SetBreakRequest(f, gbreak[f])
    BY <2>2, <2>4
  <2> QED
    BY <1>1, <2>3, <2>4
<1>7. ASSUME NEW f \in Known PROVE Will(Q, "SETBREAK", f, {}) <=> (f \in DOMAIN gbreak /\ gbreak[f])
  <2>1. CASE f \in DOMAIN gbreak
    <3>1. \A i \in DOMAIN Q : Sets(Q[i], "SETBREAK", f) => Q[i].on = gbreak[f]
      BY <1>1, <1>4, <1>6 DEF Sets
    <3>2. \E i \in DOMAIN Q : Sets(Q[i], "SETBREAK", f)
      BY <1>1, <1>5, <2>1 DEF Sets
    <3>3. gbreak[f] \in BOOLEAN
      BY <1>t, <2>1
    <3>4. Will(Q, "SETBREAK", f, {}) <=> gbreak[f]
      BY <1>1, <3>1, <3>2, <3>3, WillAgree
    <3> QED
      BY <2>1, <3>4
  <2>2. CASE f \notin DOMAIN gbreak
    <3>1. \A i \in DOMAIN Q : ~Sets(Q[i], "SETBREAK", f)
      BY <1>1, <1>4, <1>6, <2>2 DEF Sets
    <3> QED
      BY <2>2, <3>1 DEF Will
  <2> QED
    BY <2>1, <2>2
<1>8. ASSUME NEW e \in Event PROVE Will(Q, "SETEVENT", e, break_on_event') <=> (e \in gevent)
  <2> DEFINE v == e \in gevent
  <2>1. \A i \in DOMAIN Q : Sets(Q[i], "SETEVENT", e) => Q[i].on = v
    BY <1>1, <1>4, <1>6 DEF Sets
  <2>2. \E i \in DOMAIN Q : Sets(Q[i], "SETEVENT", e)
    <3> HIDE DEF v
    <3>1. PICK i \in 1..(n - 1) : Q[i] = SetEventRequest(e, v)
      BY <1>1 DEF v
    <3>2. Q[i].code = "SETEVENT" /\ Q[i].name = e
      BY <1>5, <3>1
    <3> QED
      BY <1>1, <3>2 DEF Sets
  <2>3. v \in BOOLEAN
    OBVIOUS
  <2> HIDE DEF v
  <2>4. Will(Q, "SETEVENT", e, break_on_event') <=> v
    BY <1>1, <2>1, <2>2, <2>3, WillAgree
  <2> QED
    BY <2>4 DEF v
<1> QED
  BY <1>2, <1>3, <1>7, <1>8

(* A request that changes an entry on both sides keeps the tables in agreement. *)
LEMMA ConvergeSends ==
    ASSUME TypeOK, BreakpointsConverge, Joined, rq' = rq, galive', NEW m \in Request, Send(<<m>>),
           UNCHANGED <<break_on, break_on_event>>,
           \A f \in Known : (f \in DOMAIN gbreak' /\ gbreak'[f]) <=>
                \/ Sets(m, "SETBREAK", f) /\ m.on
                \/ ~Sets(m, "SETBREAK", f) /\ f \in DOMAIN gbreak /\ gbreak[f],
           \A e \in Event : (e \in gevent') <=> \/ Sets(m, "SETEVENT", e) /\ m.on
                                                \/ ~Sets(m, "SETEVENT", e) /\ e \in gevent
    PROVE  BreakpointsConverge'
<1> DEFINE P == Pending
           Q == Pending'
           n == Len(Pending)
<1>1. /\ n \in Nat /\ DOMAIN P = 1..n /\ DOMAIN Q = 1..(n + 1)
      /\ \A i \in 1..n : Q[i] = P[i]
      /\ Q[n + 1] = m
  BY SendsStep DEF Joined
<1>2. /\ \A f \in Known : Will(P, "SETBREAK", f, break_on) <=> (f \in DOMAIN gbreak /\ gbreak[f])
      /\ \A e \in Event : Will(P, "SETEVENT", e, break_on_event) <=> (e \in gevent)
  BY ConvergeIs
<1>3. BreakpointsConverge' <=> (Joined' =>
        /\ \A f \in Known : Will(Q, "SETBREAK", f, break_on') <=> (f \in DOMAIN gbreak' /\ gbreak'[f])
        /\ \A e \in Event : Will(Q, "SETEVENT", e, break_on_event') <=> (e \in gevent'))
  BY ConvergeIs
<1> HIDE DEF P, Q, n
<1>4. \A code, name, T : Will(Q, code, name, T) <=> \/ Sets(m, code, name) /\ m.on
                                                    \/ ~Sets(m, code, name) /\ Will(P, code, name, T)
  BY <1>1, WillAppend
<1> QED
  BY <1>2, <1>3, <1>4

\* gldb sends something that says nothing of a breakpoint, or nothing.
LEMMA ConvergeOther ==
    ASSUME TypeOK, BreakpointsConverge, galive, galive',
           UNCHANGED <<rq, apc, break_on, break_on_event, gbreak, gevent>>,
           reqs' = reqs \/ \E m \in Request : Send(<<m>>) /\ m.code \notin {"SETBREAK", "SETEVENT"}
    PROVE  BreakpointsConverge'
<1>1. CASE reqs' = reqs
  <2>1. Pending' = Pending /\ (Joined' => Joined)
    BY <1>1 DEF Pending, Joined
  <2> QED
    BY <2>1, ConvergeIs
<1>2. ASSUME NEW m \in Request, Send(<<m>>), m.code \notin {"SETBREAK", "SETEVENT"} PROVE BreakpointsConverge'
  <2>1. Joined
    BY <1>2 DEF Send, Joined
  <2> QED
    BY <1>2, <2>1, ConvergeSends DEF Sets
<1> QED
  BY <1>1, <1>2

(* gldb's steps keep the tables in agreement: each change is sent, in any state but
   DEAD, when gldb_run will send it. *)
LEMMA ConvergeGui == ASSUME TypeOK, ControlInv, BreakpointsConverge, galive', UserNext \/ GldbDies \/ Respond
                     PROVE  BreakpointsConverge'
<1> USE DEF app, debugger, requests, tables, gui
<1>s. seq \in Nat /\ started \in Nat
  BY DEF TypeOK
<1>g. galive
  <2>1. CASE UserNext
    BY <2>1 DEF UserNext, Run, StopAction, ContinueAction, KillAction, PaneQuery, Shutdown, SetBreak, SetBreakEvent, UserActs
  <2>2. CASE Respond
    BY <2>2 DEF Respond, OnBreak, OnRunning, OnState, OnAnswer, OnEOF, Receives
  <2>3. CASE GldbDies
    BY <2>3 DEF GldbDies
  <2> QED
    BY <2>1, <2>2, <2>3
<1>r. \A x \in {"RUN", "CONT", "STEP", "ASYNC", "QUIT", "NULL"} :
         [code |-> x, id |-> seq] \in Request /\ [code |-> x, id |-> seq].code = x
  BY <1>s, SimpleRequests
<1>1. CASE Run
  BY <1>1, ConvergeRun
<1>2. CASE StopAction \/ KillAction \/ (\E code \in {"CONT", "STEP"} : ContinueAction(code))
  <2>1. /\ UNCHANGED <<rq, apc, break_on, break_on_event, gbreak, gevent>>
        /\ \E c \in {"ASYNC", "QUIT", "CONT", "STEP"} : Send(<<[code |-> c, id |-> seq]>>)
    BY <1>2 DEF StopAction, KillAction, ContinueAction
  <2>2. \E m \in Request : Send(<<m>>) /\ m.code \notin {"SETBREAK", "SETEVENT"}
    BY <1>r, <2>1
  <2> QED
    BY <1>g, <2>1, <2>2, ConvergeOther
<1>3. ASSUME Query(<<>>) PROVE \E m \in Request : Send(<<m>>) /\ m.code \notin {"SETBREAK", "SETEVENT"}
  <2> DEFINE m == [code |-> "DATA", id |-> seq, asked |-> started]
  <2>1. m \in Request /\ Send(<<m>>) /\ m.code = "DATA"
    BY <1>3, Queried1
  <2> HIDE DEF m
  <2> QED
    BY <2>1
<1>4. CASE PaneQuery
  BY <1>3, <1>4, <1>g, ConvergeOther DEF PaneQuery
<1>5. ASSUME NEW f \in BreakName, NEW on \in BOOLEAN, SetBreak(f, on) PROVE BreakpointsConverge'
  <2> SUFFICES ASSUME Joined' PROVE BreakpointsConverge'
    BY ConvergeIs
  <2>1. Joined /\ status # "DEAD"
    BY <1>5, <1>g DEF SetBreak, Joined, ControlInv
  <2>2. /\ gbreak' = [g \in DOMAIN gbreak \cup {f} |-> IF g = f THEN on ELSE gbreak[g]]
        /\ Send(<<SetBreakRequest(f, on)>>) /\ UNCHANGED <<rq, break_on, break_on_event, gevent>>
    BY <1>5, <2>1 DEF SetBreak, SendIfAlive
  <2> DEFINE m == SetBreakRequest(f, on)
  <2>3. m \in Request
    BY SimpleRequests, 0 \in Nat
  <2>4. m.code = "SETBREAK" /\ m.name = f /\ m.on = on
    BY DEF SetBreakRequest
  <2>5. Send(<<m>>)
    BY <2>2
  <2> HIDE DEF m
  <2>6. \A g : (g \in DOMAIN gbreak' /\ gbreak'[g]) <=>
                \/ Sets(m, "SETBREAK", g) /\ m.on
                \/ ~Sets(m, "SETBREAK", g) /\ g \in DOMAIN gbreak /\ gbreak[g]
    BY <2>2, <2>4 DEF Sets
  <2>7. \A e \in Event : (e \in gevent') <=> \/ Sets(m, "SETEVENT", e) /\ m.on
                                             \/ ~Sets(m, "SETEVENT", e) /\ e \in gevent
    BY <2>2, <2>4 DEF Sets
  <2> QED
    BY <2>1, <2>2, <2>3, <2>5, <2>6, <2>7, ConvergeSends
<1>6. ASSUME NEW e \in ToggledEvent, NEW on \in BOOLEAN, SetBreakEvent(e, on) PROVE BreakpointsConverge'
  <2> SUFFICES ASSUME Joined' PROVE BreakpointsConverge'
    BY ConvergeIs
  <2>1. Joined /\ status # "DEAD"
    BY <1>6, <1>g DEF SetBreakEvent, Joined, ControlInv
  <2>2. /\ gevent' = IF on THEN gevent \cup {e} ELSE gevent \ {e}
        /\ Send(<<SetEventRequest(e, on)>>) /\ UNCHANGED <<rq, break_on, break_on_event, gbreak>>
    BY <1>6, <2>1 DEF SetBreakEvent, SendIfAlive
  <2> DEFINE m == SetEventRequest(e, on)
  <2>3. m \in Request
    BY SimpleRequests, EventAssumption, 0 \in Nat
  <2>4. m.code = "SETEVENT" /\ m.name = e /\ m.on = on
    BY DEF SetEventRequest
  <2>5. Send(<<m>>)
    BY <2>2
  <2> HIDE DEF m
  <2>6. \A g \in Known : (g \in DOMAIN gbreak' /\ gbreak'[g]) <=>
                \/ Sets(m, "SETBREAK", g) /\ m.on
                \/ ~Sets(m, "SETBREAK", g) /\ g \in DOMAIN gbreak /\ gbreak[g]
    BY <2>2, <2>4 DEF Sets
  <2>7. \A x \in Event : (x \in gevent') <=> \/ Sets(m, "SETEVENT", x) /\ m.on
                                             \/ ~Sets(m, "SETEVENT", x) /\ x \in gevent
    BY <2>2, <2>4 DEF Sets
  <2> QED
    BY <2>1, <2>2, <2>3, <2>5, <2>6, <2>7, ConvergeSends
<1>7. CASE OnBreak
  <2> DEFINE m == [code |-> "STATE_TREE_RAW", id |-> 0, asked |-> started]
  <2>1. m \in Request /\ m.code \notin {"SETBREAK", "SETEVENT"}
    BY <1>s, SimpleRequests
  <2>2. Send(<<m>>) /\ UNCHANGED <<rq, apc, break_on, break_on_event, gbreak, gevent>>
    BY <1>7 DEF OnBreak, Receives
  <2> HIDE DEF m
  <2> QED
    BY <1>g, <2>1, <2>2, ConvergeOther
<1>8. CASE OnRunning \/ OnState \/ OnAnswer \/ OnEOF
  <2>1. UNCHANGED <<rq, apc, break_on, break_on_event, gbreak, gevent>> /\ (reqs' = reqs \/ Query(<<>>))
    BY <1>8 DEF OnRunning, OnState, OnAnswer, OnEOF, Receives
  <2> QED
    BY <1>3, <1>g, <2>1, ConvergeOther
<1>9. CASE Shutdown \/ GldbDies
  BY <1>9 DEF Shutdown, GldbDies
<1> QED
  BY <1>1, <1>2, <1>4, <1>5, <1>6, <1>7, <1>8, <1>9 DEF UserNext, Respond

-----------------------------------------------------------------------------
(* The invariant. *)
LEMMA InitInv == Init => IInv
<1> SUFFICES ASSUME Init PROVE IInv
  OBVIOUS
<1>1. TypeOK
  BY TypeInit
<1>2. /\ apc = "exited" /\ galive /\ resps = <<>> /\ handlers = <<>>
      /\ can_continue = FALSE /\ can_stop = FALSE /\ root = NoTree
  BY DEF Init
<1>3. ~Joined
  BY <1>2 DEF Joined
<1>4. LoopInv
  BY <1>2 DEF LoopInv
<1>5. SignalInv /\ AnswerInv
  BY <1>2 DEF SignalInv, AnswerInv
<1>6. ControlInv /\ QueryInv
  BY <1>3 DEF ControlInv, QueryInv
<1>7. NumberInv /\ HandlerInv
  BY <1>2, <1>3 DEF NumberInv, HandlerInv, ToSet
<1>8. BreakpointsConverge
  BY <1>3, ConvergeIs
<1> QED
  BY <1>1, <1>4, <1>5, <1>6, <1>7, <1>8 DEF IInv

(* Every step keeps the inductive invariant; each part is shown from the ones before it. *)
LEMMA NextInv == IInv /\ [Next]_vars => IInv'
<1> SUFFICES ASSUME IInv, [Next]_vars PROVE IInv'
  OBVIOUS
<1>i. /\ TypeOK /\ LoopInv /\ SignalInv /\ ControlInv /\ QueryInv /\ AnswerInv /\ NumberInv
      /\ HandlerInv /\ BreakpointsConverge
  BY DEF IInv
<1>t. TypeOK'
  BY <1>i, TypeNext
<1>1. ASSUME UNCHANGED vars PROVE IInv'
  <2>1. /\ UNCHANGED <<apc, gl, stopped, break_on, break_on_event, start_id, reqs, rq, resps, galive>>
        /\ UNCHANGED <<status, gbreak, gevent, seq, handlers, root, can_stop, can_continue, started, base>>
    BY <1>1 DEF vars, app, debugger, requests, tables, gui
  <2>2. Pending' = Pending /\ Joined' = Joined
    BY <2>1 DEF Pending, Joined
  <2>3. LoopInv' /\ SignalInv' /\ ControlInv' /\ QueryInv' /\ AnswerInv'
    BY <1>i, <2>1, <2>2 DEF LoopInv, SignalInv, ControlInv, QueryInv, AnswerInv
  <2>4. InOrder' = InOrder /\ \A h : Awaited(h)' <=> Awaited(h)
    BY <2>1, <2>2 DEF InOrder, Awaited, Answered, Queried
  <2>5. NumberInv' /\ HandlerInv'
    BY <1>i, <2>1, <2>2, <2>4 DEF NumberInv, HandlerInv
  <2>6. BreakpointsConverge'
    BY <1>i, <2>1, <2>2, ConvergeIs
  <2> QED
    BY <1>t, <2>3, <2>5, <2>6 DEF IInv
<1>2. ASSUME Next, ~galive' PROVE IInv'
  <2>1. LoopInv'
    BY <1>i, <1>2, LoopApp, LoopGui DEF Next
  <2>2. AnswerInv'
    BY <1>i, <1>2, AnswerGone
  <2>3. ~Joined'
    BY <1>2 DEF Joined
  <2>4. SignalInv' /\ ControlInv' /\ QueryInv' /\ NumberInv' /\ HandlerInv'
    BY <1>2, <2>3 DEF SignalInv, ControlInv, QueryInv, NumberInv, HandlerInv
  <2>5. BreakpointsConverge'
    BY <2>3, ConvergeIs
  <2> QED
    BY <1>t, <2>1, <2>2, <2>4, <2>5 DEF IInv
<1>3. ASSUME galive', Deliver \/ (\E c \in Calls : PreCallback(c)) \/ Invoke \/ LoopStep \/ AppDies PROVE IInv'
  <2>1. galive' = galive
    BY <1>3 DEF Deliver, PreCallback, Invoke, LoopStep, LoopNoData, LoopEOF, Process, DoRun, DoContinue, DoBreak,
                DoBreakEvent, DoStateTree, DoData, DoAsync, DoQuit, Takes, AppDies
  <2>2. AppKinds
    BY <1>i, <1>3, <2>1, AppSteps
  <2>3. LoopInv'
    BY <1>i, <1>3, LoopApp
  <2> QED
    BY <1>i, <1>t, <1>3, <2>1, <2>2, <2>3, SignalKinds, ControlKinds, QueryKinds, AnswerKinds, NumberKinds,
       HandlerKinds, ConvergeKinds DEF IInv
<1>4. ASSUME galive', UserNext \/ GldbDies \/ Respond PROVE IInv'
  <2>1. UserNext \/ Respond
    BY <1>4 DEF GldbDies
  <2> QED
    BY <1>i, <1>t, <1>4, <2>1, LoopGui, SignalGui, ControlGui, QueryGui, AnswerGui, NumberGui, HandlerGui,
       ConvergeGui DEF IInv
<1> QED
  BY <1>1, <1>2, <1>3, <1>4 DEF Next

(* The two sides of a session keep the inductive invariant, for any program, any
   breakpoints and any deaths and restarts of either process. *)
THEOREM SessionInvariant == Spec => []IInv
<1>1. Init => IInv
  BY InitInv
<1>2. IInv /\ [Next]_vars => IInv'
  BY NextInv
<1> QED
  BY <1>1, <1>2, PTL DEF Spec

(* While gldb shows the program as stopped it is stopped, in debugger_loop, by the start
   gldb sent last: the assertions of gldb_send_continue, gldb_send_step and
   gldb_send_async hold when the sensitive actions call them. *)
THEOREM SessionStoppedTogether == Spec => []StoppedTogether
<1>1. IInv => StoppedTogether
  <2> SUFFICES ASSUME IInv PROVE StoppedTogether
    OBVIOUS
  <2>1. TypeOK /\ LoopInv /\ SignalInv /\ ControlInv
    BY DEF IInv
  <2>2. ASSUME Joined, status = "STOPPED"
        PROVE  /\ apc \in {"pre", "post"} /\ stopped /\ start_id = started
               /\ ~Has(Pending, Starts) /\ ~Has(resps, Breaks)
    <3>1. stopped /\ ~Has(Pending, Starts) /\ start_id = started /\ ~Has(resps, Breaks)
      BY <2>1, <2>2, StoppedFacts
    <3>2. apc \notin {"exited", "init", "idle", "invoke"}
      BY <2>1, <2>2, <3>1 DEF Joined, ControlInv, LoopInv
    <3> QED
      BY <2>1, <3>1, <3>2 DEF TypeOK, Loop
  <2> QED
    BY <2>1, <2>2 DEF StoppedTogether, LoopInv
<1> QED
  BY <1>1, SessionInvariant, PTL

(* An application that waits in debugger_loop for a start while gldb waits for a stop
   has a start or the announcement of its stop on the way. *)
THEOREM SessionNoStandoff == Spec => []NoStandoff
<1>1. IInv => NoStandoff
  BY DEF IInv, ControlInv, NoStandoff
<1> QED
  BY <1>1, SessionInvariant, PTL

(* A break response under way names the last start, and there is only one, however a
   Stop request crossed a breakpoint (protocol.xml:1195). *)
THEOREM SessionBreakNamesStart == Spec => []BreakNamesStart
<1>1. IInv => BreakNamesStart
  <2> SUFFICES ASSUME IInv, galive, NEW i \in DOMAIN resps, NEW j \in DOMAIN resps, resps[i].code \in Breaks
               PROVE  resps[i].id = started /\ (resps[j].code \in Breaks => i = j)
    BY DEF BreakNamesStart
  <2>1. TypeOK /\ SignalInv
    BY DEF IInv
  <2>2. resps[i].code \in Signals /\ (resps[j].code \in Breaks => resps[j].code \in Signals)
    BY DEF Signals
  <2>3. resps[i].id = started
    BY <2>1, <2>2 DEF SignalInv
  <2>4. ASSUME resps[j].code \in Breaks PROVE i = j
    <3>1. resps[i].code # "RUNNING" /\ resps[j].code # "RUNNING"
      BY <2>4 DEF Breaks
    <3>2. ~(i < j) /\ ~(j < i)
      BY <2>1, <2>2, <2>4, <3>1 DEF SignalInv
    <3>3. i \in Nat /\ j \in Nat
      BY <2>1, HasResponse
    <3> QED
      BY <3>2, <3>3
  <2> QED
    BY <2>3, <2>4
<1> QED
  BY <1>1, SessionInvariant, PTL

(* process_single_command answers a query in the stop it was made in, and the panes read
   the state tree of the stop gldb shows. *)
THEOREM SessionAnsweredFromItsStop == Spec => []AnsweredFromItsStop
<1>1. IInv => AnsweredFromItsStop
  BY DEF IInv, AnswerInv, AnsweredFromItsStop, ToSet, Asks
<1> QED
  BY <1>1, SessionInvariant, PTL

(* response_callback erases no handler before its answer is there, and calls a handler
   for nothing but the answer to its own query. *)
THEOREM SessionHandlersAnswered == Spec => []HandlersAnswered
<1>1. IInv => HandlersAnswered
  <2> SUFFICES ASSUME IInv, galive, resps # <<>>, NEW i \in DOMAIN handlers
               PROVE  /\ handlers[i] < Head(resps).id => handlers[i] < base
                      /\ handlers[i] = Head(resps).id => "asked" \in DOMAIN Head(resps)
    BY DEF HandlersAnswered
  <2>1. TypeOK /\ SignalInv /\ HandlerInv
    BY DEF IInv
  <2> DEFINE h == handlers[i]
  <2>2. h \in ToSet(handlers) /\ h \in Nat
    BY <2>1, HandlerNumbers
  <2>3. h \notin {0, started} /\ (h >= base => Awaited(h))
    BY <2>1, <2>2 DEF HandlerInv
  <2>4. base \in Nat /\ resps \in Seq(Response)
    BY <2>1 DEF TypeOK
  <2>5. Head(resps) = resps[1] /\ resps[1] \in Response /\ 1 \in DOMAIN resps /\ DOMAIN resps = 1..Len(resps)
    <3>1. Head(resps) = resps[1] /\ resps[1] \in Response /\ Len(resps) \in Nat \ {0} /\ DOMAIN resps = 1..Len(resps)
      BY <2>4, TailFacts
    <3> QED
      BY <3>1
  <2> HIDE DEF h
  <2>6. ASSUME h < resps[1].id, ~(h < base) PROVE FALSE
    <3>1. Awaited(h) /\ resps[1].id \in Nat
      BY <2>2, <2>3, <2>4, <2>5, <2>6, ResponseFacts
    <3>2. Answered(h, 1)
      BY <2>2, <2>5, <2>6, <3>1 DEF Awaited
    <3> QED
      BY <2>5, <3>2 DEF Answered
  <2>7. ASSUME h = resps[1].id, ~Asks(resps[1]) PROVE FALSE
    <3>1. resps[1].code \in {"BREAK", "BREAK_EVENT", "RUNNING", "ANS", "ERROR"}
          /\ (resps[1].code \in {"ANS", "ERROR"} => resps[1].id = 0)
      BY <2>5, <2>7, ResponseFacts
    <3>2. resps[1].code \in Signals
      BY <2>3, <2>7, <3>1 DEF Signals, Breaks
    <3>3. resps[1].id = started
      BY <2>1, <2>5, <3>2 DEF SignalInv
    <3> QED
      BY <2>3, <2>7, <3>3
  <2> QED
    BY <2>5, <2>6, <2>7 DEF h, Asks
<1> QED
  BY <1>1, SessionInvariant, PTL

(* The break tables of gldb and of the filter-set agree up to the requests under way,
   in whichever state gldb_set_break was called and over any number of runs. *)
THEOREM SessionBreakpointsConverge == Spec => []BreakpointsConverge
<1>1. IInv => BreakpointsConverge
  BY DEF IInv
<1> QED
  BY <1>1, SessionInvariant, PTL

-----------------------------------------------------------------------------
(* The states of the protocol's document. *)
LEMMA StateIs ==
    /\ TypeOK => /\ state = IF apc = "exited" THEN "dead" ELSE IF ~stopped THEN "running"
                            ELSE IF apc = "init" THEN "startup" ELSE "stopped"
                 /\ told <=> state = "stopped" /\ ~Has(resps, Breaks)
    /\ TypeOK' => /\ state' = IF apc' = "exited" THEN "dead" ELSE IF ~stopped' THEN "running"
                              ELSE IF apc' = "init" THEN "startup" ELSE "stopped"
                  /\ told' <=> state' = "stopped" /\ ~Has(resps', Breaks)
  <1>1. TypeOK => state = IF apc = "exited" THEN "dead" ELSE IF ~stopped THEN "running"
                          ELSE IF apc = "init" THEN "startup" ELSE "stopped"
    BY DEF TypeOK, state
  <1>2. TypeOK' => state' = IF apc' = "exited" THEN "dead" ELSE IF ~stopped' THEN "running"
                            ELSE IF apc' = "init" THEN "startup" ELSE "stopped"
    BY DEF TypeOK, state
  <1> QED
    BY <1>1, <1>2 DEF told

\* The steps of ProtocolStates, as seen from here.
LEMMA ProtocolNext ==
    ASSUME \/ state' = state /\ galive' = galive /\ told' = told
           \/ state = "dead" /\ galive /\ state' = "startup" /\ galive' = galive /\ told' = told
           \/ state = "startup" /\ state' = "running" /\ galive' = galive /\ told' = told
           \/ state = "running" /\ state' = "stopped" /\ galive' = galive /\ told' = ~galive
           \/ state = "stopped" /\ ~told /\ told' = TRUE /\ state' = state /\ galive' = galive
           \/ state = "stopped" /\ told /\ state' = "running" /\ told' = FALSE /\ galive' = galive
           \/ state # "dead" /\ state' = "dead" /\ told' = FALSE /\ galive' = galive
           \/ galive /\ galive' = FALSE /\ told' = (state = "stopped") /\ state' = state
    PROVE  [Protocol!Next]_(Protocol!vars)
BY DEF Protocol!Next, Protocol!vars, Protocol!Launch, Protocol!Run, Protocol!Stop, Protocol!Tell,
       Protocol!Continue, Protocol!Die, Protocol!Detach

\* The application, with a debugger.
LEMMA ProtocolKinds == ASSUME IInv, IInv', galive, AppKinds
                       PROVE  [Protocol!Next]_(Protocol!vars)
<1>1. TypeOK /\ LoopInv /\ ControlInv /\ TypeOK' /\ LoopInv'
  BY DEF IInv
<1>2. /\ state = IF apc = "exited" THEN "dead" ELSE IF ~stopped THEN "running"
                 ELSE IF apc = "init" THEN "startup" ELSE "stopped"
      /\ told <=> state = "stopped" /\ ~Has(resps, Breaks)
      /\ state' = IF apc' = "exited" THEN "dead" ELSE IF ~stopped' THEN "running"
                  ELSE IF apc' = "init" THEN "startup" ELSE "stopped"
      /\ told' <=> state' = "stopped" /\ ~Has(resps', Breaks)
  BY <1>1, StateIs
<1>3. told \in BOOLEAN /\ told' \in BOOLEAN
  BY DEF told
<1>4. galive' = galive
  BY DEF AppKinds, Moves, Stops, Dies, Starting, Setting, Answering, Interrupted, Acts, Quiet
<1>5. ASSUME state' = state, Has(resps', Breaks) <=> Has(resps, Breaks) PROVE [Protocol!Next]_(Protocol!vars)
  BY <1>2, <1>3, <1>4, <1>5, ProtocolNext
<1>6. ASSUME ~stopped, stopped' = TRUE, apc \notin {"exited", "init"}, apc' \notin {"exited", "init"},
             NEW c \in Breaks, NEW i, Tells([code |-> c, id |-> i])
      PROVE  [Protocol!Next]_(Protocol!vars)
  <2>1. Has(resps', Breaks)
    BY <1>1, <1>6, TellsStep
  <2>2. state = "running" /\ state' = "stopped" /\ told' = ~galive
    BY <1>2, <1>3, <1>6, <2>1
  <2> QED
    BY <1>4, <2>2, ProtocolNext
<1>7. CASE Moves
  <2>1. state' = state
    BY <1>2, <1>7 DEF Moves
  <2> QED
    BY <1>5, <1>7, <2>1 DEF Moves
<1>8. CASE Stops
  BY <1>6, <1>8 DEF Stops
<1>9. CASE Dies
  <2>1. state' = "dead" /\ told' = FALSE
    BY <1>2, <1>3, <1>9 DEF Dies
  <2>2. state = "dead" => told = FALSE
    BY <1>2, <1>3
  <2> QED
    BY <1>4, <2>1, <2>2, ProtocolNext
<1>10. CASE Starting
  <2>1. Joined /\ ~Has(resps, Signals) /\ stopped
    BY <1>1, <1>10, StartingFacts
  <2>2. ~Has(resps, Breaks)
    BY <1>1, <2>1, HasResponse DEF Signals
  <2>3. state' = "running" /\ told' = FALSE /\ apc # "exited"
    BY <1>2, <1>3, <1>10, <2>1 DEF Starting, Joined
  <2>4. (state = "startup" /\ told = FALSE) \/ (state = "stopped" /\ told)
    BY <1>2, <1>3, <2>1, <2>2, <2>3
  <2> QED
    BY <1>4, <2>3, <2>4, ProtocolNext
<1>11. ASSUME NEW codes, Acts(codes), stopped' = stopped, apc' \in {apc, "invoke", "idle"} PROVE state' = state
  <2>1. apc \in Loop
    BY <1>11 DEF Acts
  <2> QED
    BY <1>1, <1>2, <1>11, <2>1 DEF Loop, LoopInv
<1>12. ASSUME NEW r, Tells(r), r.code \notin Breaks PROVE Has(resps', Breaks) <=> Has(resps, Breaks)
  BY <1>1, <1>12, TellsStep
<1>13. CASE Setting
  <2>1. Has(resps', Breaks) <=> Has(resps, Breaks)
    BY <1>12, <1>13 DEF Setting, Breaks
  <2>2. state' = state
    BY <1>11, <1>13 DEF Setting
  <2> QED
    BY <1>5, <2>1, <2>2
<1>14. CASE Answering
  <2>1. Has(resps', Breaks) <=> Has(resps, Breaks)
    BY <1>12, <1>14 DEF Answering, Breaks
  <2>2. state' = state
    BY <1>11, <1>14 DEF Answering
  <2> QED
    BY <1>5, <2>1, <2>2
<1>15. CASE Interrupted
  <2>1. CASE UNCHANGED <<resps, stopped>> /\ apc' \in {apc, "invoke", "idle"}
    BY <1>5, <1>11, <1>15, <2>1 DEF Interrupted
  <2>2. CASE ~stopped /\ stopped' = TRUE /\ apc' = apc /\ Tells([code |-> "BREAK", id |-> start_id])
    <3>1. apc \notin {"exited", "init"} /\ "BREAK" \in Breaks
      BY <1>1, <1>15, <2>2 DEF Interrupted, Acts, Loop, LoopInv, Breaks
    <3> QED
      BY <1>6, <2>2, <3>1
  <2> QED
    BY <1>15, <2>1, <2>2 DEF Interrupted
<1> QED
  BY <1>7, <1>8, <1>9, <1>10, <1>13, <1>14, <1>15 DEF AppKinds

\* The application, with none: nothing is under way to a debugger that is gone.
LEMMA ProtocolAlone ==
    ASSUME IInv, IInv', ~galive, Deliver \/ (\E c \in Calls : PreCallback(c)) \/ Invoke \/ LoopStep \/ AppDies
    PROVE  [Protocol!Next]_(Protocol!vars)
<1> USE DEF app, debugger, requests
<1>1. TypeOK /\ LoopInv /\ TypeOK' /\ LoopInv' /\ stopped \in BOOLEAN /\ stopped' \in BOOLEAN
  BY DEF IInv, TypeOK
<1>2. /\ state = IF apc = "exited" THEN "dead" ELSE IF ~stopped THEN "running"
                 ELSE IF apc = "init" THEN "startup" ELSE "stopped"
      /\ told <=> state = "stopped" /\ ~Has(resps, Breaks)
      /\ state' = IF apc' = "exited" THEN "dead" ELSE IF ~stopped' THEN "running"
                  ELSE IF apc' = "init" THEN "startup" ELSE "stopped"
      /\ told' <=> state' = "stopped" /\ ~Has(resps', Breaks)
  BY <1>1, StateIs
<1>3. told \in BOOLEAN /\ told' \in BOOLEAN
  BY DEF told
<1>4. /\ galive' = galive /\ resps' = resps /\ apc # "exited"
      /\ apc' = "exited" \/ (IF apc = "init" THEN apc' = "init" \/ ~stopped' ELSE apc' # "init")
  <2>1. CASE Deliver
    BY <2>1 DEF Deliver
  <2>2. ASSUME NEW c \in Calls, PreCallback(c)
        PROVE  /\ galive' = galive /\ resps' = resps /\ apc = "idle" /\ apc' \in {"pre", "exited"}
    BY <2>2 DEF PreCallback, Reply
  <2>3. CASE Invoke
    <3>1. /\ galive' = galive /\ resps' = resps /\ apc = "invoke" /\ apc' \in {"post", "idle", "exited"}
      BY <2>3 DEF Invoke, Reply
    <3> QED
      BY <3>1
  <2>4. CASE LoopNoData
    BY <1>1, <2>4 DEF LoopNoData, LoopInv, Loop, Left
  <2>5. CASE LoopEOF
    BY <2>5 DEF LoopEOF, Loop, Left
  <2>6. CASE Process
    <3>1. /\ galive' = galive /\ resps' = resps /\ apc \in Loop
          /\ \/ apc' \in {apc, "exited"}
             \/ apc' = Left \/ (apc' = Stays(stopped) /\ stopped' = stopped)
      BY <2>6 DEF Process, DoRun, DoContinue, DoBreak, DoBreakEvent, DoStateTree, DoData, DoAsync, DoQuit, Takes, Reply
    <3>2. apc' \in {apc, "exited", "invoke", "idle"}
      BY <3>1 DEF Left, Stays
    <3> QED
      BY <1>1, <3>1, <3>2 DEF Loop, LoopInv
  <2>7. CASE AppDies
    BY <2>7 DEF AppDies
  <2> QED
    BY <2>1, <2>2, <2>3, <2>4, <2>5, <2>6, <2>7 DEF LoopStep
<1>5. resps = <<>> /\ ~Has(resps, Breaks)
  BY <1>1, <1>4, HasEmpty DEF LoopInv
<1>6. told = (state = "stopped") /\ told' = (state' = "stopped")
  BY <1>2, <1>3, <1>4, <1>5
<1>7. /\ state = "startup" => state' \in {"startup", "running", "dead"}
      /\ state = "running" => state' \in {"running", "stopped", "dead"}
      /\ state = "stopped" => state' \in {"stopped", "running", "dead"}
      /\ state \in {"startup", "running", "stopped"}
  BY <1>1, <1>2, <1>4 DEF LoopInv
<1> QED
  BY <1>4, <1>6, <1>7, ProtocolNext

\* gldb: it may learn of a stop, start a process or be gone.
LEMMA ProtocolGui == ASSUME IInv, IInv', UserNext \/ GldbDies \/ Respond
                     PROVE  [Protocol!Next]_(Protocol!vars)
<1> USE DEF app, debugger, requests, tables, gui
<1>1. TypeOK /\ SignalInv /\ ControlInv /\ TypeOK' /\ galive \in BOOLEAN
  BY DEF IInv, TypeOK
<1>2. /\ state = IF apc = "exited" THEN "dead" ELSE IF ~stopped THEN "running"
                 ELSE IF apc = "init" THEN "startup" ELSE "stopped"
      /\ told <=> state = "stopped" /\ ~Has(resps, Breaks)
      /\ state' = IF apc' = "exited" THEN "dead" ELSE IF ~stopped' THEN "running"
                  ELSE IF apc' = "init" THEN "startup" ELSE "stopped"
      /\ told' <=> state' = "stopped" /\ ~Has(resps', Breaks)
  BY <1>1, StateIs
<1>3. told \in BOOLEAN /\ told' \in BOOLEAN
  BY DEF told
<1>g. galive
  <2>1. CASE UserNext
    BY <2>1 DEF UserNext, Run, StopAction, ContinueAction, KillAction, PaneQuery, Shutdown, SetBreak, SetBreakEvent, UserActs
  <2>2. CASE Respond
    BY <2>2 DEF Respond, OnBreak, OnRunning, OnState, OnAnswer, OnEOF, Receives
  <2>3. CASE GldbDies
    BY <2>3 DEF GldbDies
  <2> QED
    BY <2>1, <2>2, <2>3
<1>4. CASE Run
  <2>1. status = "DEAD" /\ resps' = <<>> /\ apc' = "init" /\ stopped' = TRUE /\ galive' = galive
    BY <1>4 DEF Run
  <2>2. apc = "exited"
    BY <1>1, <1>g, <2>1 DEF ControlInv, Joined
  <2>3. state = "dead" /\ state' = "startup" /\ told' = told
    BY <1>2, <1>3, <2>1, <2>2
  <2> QED
    BY <1>g, <2>1, <2>3, ProtocolNext
\* it sends something, or nothing, and what it has yet to read of stops is the same
<1>5. ASSUME UNCHANGED <<apc, stopped>>, Has(resps', Breaks) <=> Has(resps, Breaks),
             galive' = galive \/ (apc = "exited" /\ galive' = FALSE)
      PROVE  [Protocol!Next]_(Protocol!vars)
  <2>1. state' = state /\ told' = told
    BY <1>2, <1>3, <1>5
  <2>2. apc = "exited" => told' = FALSE /\ state # "stopped"
    BY <1>2, <1>3, <1>5, <2>1
  <2> QED
    BY <1>5, <1>g, <2>1, <2>2, ProtocolNext
<1>6. \A ms : Send(ms) => galive' = galive \/ (apc = "exited" /\ galive' = FALSE)
  BY DEF Send
<1>7. CASE StopAction \/ KillAction \/ PaneQuery \/ (\E code \in {"CONT", "STEP"} : ContinueAction(code))
  <2>1. UNCHANGED <<apc, stopped, resps>> /\ \E ms : Send(ms)
    BY <1>7 DEF StopAction, KillAction, PaneQuery, ContinueAction, Query
  <2> QED
    BY <1>5, <1>6, <2>1
<1>8. CASE \/ \E f \in BreakName, on \in BOOLEAN : SetBreak(f, on)
           \/ \E e \in ToggledEvent, on \in BOOLEAN : SetBreakEvent(e, on)
  <2>1. UNCHANGED <<apc, stopped, resps>> /\ (galive' = galive \/ \E ms : Send(ms))
    BY <1>8 DEF SetBreak, SetBreakEvent, SendIfAlive
  <2> QED
    BY <1>5, <1>6, <2>1
<1>9. CASE Shutdown \/ GldbDies
  <2>1. UNCHANGED <<apc, stopped>> /\ galive' = FALSE /\ resps' = <<>>
    BY <1>9 DEF Shutdown, GldbDies
  <2>2. state' = state /\ told' = (state = "stopped")
    BY <1>2, <1>3, <2>1, HasEmpty
  <2> QED
    BY <1>g, <2>1, <2>2, ProtocolNext
<1>10. CASE OnBreak
  <2>1. UNCHANGED <<apc, stopped>> /\ (galive' = galive \/ (apc = "exited" /\ galive' = FALSE))
    BY <1>6, <1>10 DEF OnBreak, Receives
  <2>2. CASE apc = "exited"
    <3>1. state' = state /\ state = "dead" /\ told' = told /\ told' = FALSE
      BY <1>2, <1>3, <2>1, <2>2
    <3> QED
      BY <1>g, <2>1, <3>1, ProtocolNext
  <2>3. CASE apc # "exited"
    <3>1. stopped /\ ~Has(Pending, Starts) /\ ~Has(resps', Breaks) /\ Has(resps, Breaks)
      BY <1>1, <1>10, <1>g, <2>3, BreakFacts DEF Joined
    <3>2. apc # "init"
      BY <1>1, <1>g, <2>3, <3>1 DEF ControlInv, Joined
    <3>3. state = "stopped" /\ ~told /\ told' = TRUE /\ state' = state /\ galive' = galive
      BY <1>2, <1>3, <2>1, <2>3, <3>1, <3>2
    <3> QED
      BY <3>3, ProtocolNext
  <2> QED
    BY <2>2, <2>3
<1>11. CASE OnRunning \/ OnState \/ OnAnswer
  <2>1. UNCHANGED <<apc, stopped>> /\ (galive' = galive \/ \E ms : Send(ms))
    BY <1>11 DEF OnRunning, OnState, OnAnswer, Receives, Query
  <2>2. PICK codes : Receives(codes) /\ codes \cap Breaks = {}
    BY <1>11 DEF OnRunning, OnState, OnAnswer, Breaks
  <2>3. Has(resps', Breaks) <=> Has(resps, Breaks)
    BY <1>1, <2>2, ReceivesStep
  <2> QED
    BY <1>5, <1>6, <2>1, <2>3
<1>12. CASE OnEOF
  BY <1>5, <1>12 DEF OnEOF
<1> QED
  BY <1>4, <1>7, <1>8, <1>9, <1>10, <1>11, <1>12 DEF UserNext, Respond

(* The filter-set implements the states of the protocol's document: each of its steps is
   a step of ProtocolStates, or leaves what the document speaks of alone. *)
THEOREM SessionFollowsProtocol == Spec => FollowsProtocol
<1>1. Init => Protocol!Init
  <2> SUFFICES ASSUME Init PROVE Protocol!Init
    OBVIOUS
  <2>1. TypeOK /\ apc = "exited" /\ galive = TRUE
    BY TypeInit DEF Init
  <2>2. state = "dead" /\ told = FALSE
    <3>1. told \in BOOLEAN
      BY DEF told
    <3> QED
      BY <2>1, <3>1, StateIs
  <2> QED
    BY <2>1, <2>2 DEF Protocol!Init
<1>2. IInv /\ IInv' /\ [Next]_vars => [Protocol!Next]_(Protocol!vars)
  <2> SUFFICES ASSUME IInv, IInv', [Next]_vars PROVE [Protocol!Next]_(Protocol!vars)
    OBVIOUS
  <2>t. TypeOK /\ TypeOK' /\ LoopInv /\ ControlInv
    BY DEF IInv
  <2>1. CASE UNCHANGED vars
    <3>1. state' = state /\ galive' = galive /\ told' = told
      BY <2>1 DEF vars, app, debugger, state, told
    <3> QED
      BY <3>1, ProtocolNext
  <2>2. CASE Deliver \/ (\E c \in Calls : PreCallback(c)) \/ Invoke \/ LoopStep \/ AppDies
    <3>1. galive => AppKinds
      BY <2>2, <2>t, AppSteps
    <3>2. galive \in BOOLEAN
      BY <2>t DEF TypeOK
    <3> QED
      BY <2>2, <3>1, <3>2, ProtocolKinds, ProtocolAlone
  <2>3. CASE UserNext \/ GldbDies \/ Respond
    BY <2>3, ProtocolGui
  <2> QED
    BY <2>1, <2>2, <2>3 DEF Next
<1> QED
  BY <1>1, <1>2, SessionInvariant, PTL DEF Spec, FollowsProtocol, Protocol!Spec

=============================================================================
