----------------------------- MODULE QueueProofs -----------------------------
(* Lemmas about the promises of $q, as functions on a queue: what a thenable  *)
(* comes to, and that no callback is lost or there twice.                     *)
EXTENDS PromiseQueue, SequenceTheorems, WellFoundedInduction, TLAPS

(* The induction over the natural numbers, as that of the library without its  *)
(* operator parameter.                                                         *)
LEMMA LeastNumber ==
    ASSUME NEW S, S \subseteq Nat, S # {}
    PROVE  \E n \in S : \A m \in S : n <= m
<1>1. IsWellFoundedOn(OpToRel(<, Nat), Nat)
  BY NatLessThanWellFounded
<1>2. \E n \in S : \A m \in S : ~ (<<m, n>> \in OpToRel(<, Nat))
  BY <1>1, WFMin
<1>3. PICK n \in S : \A m \in S : ~ (<<m, n>> \in OpToRel(<, Nat))
  BY <1>2
<1>4. \A m \in S : ~ (m < n)
  BY <1>3 DEF OpToRel
<1>q. QED BY <1>4

LEMMA NatInduct ==
    ASSUME NEW S, 0 \in S, \A n \in Nat : n \in S => n + 1 \in S
    PROVE  Nat \subseteq S
<1> SUFFICES ASSUME NEW k \in Nat, k \notin S PROVE FALSE
  OBVIOUS
<1> DEFINE U == {n \in Nat : n \notin S}
<1>1. PICK n \in U : \A m \in U : n <= m
  <2> HIDE DEF U
  <2>1. U \subseteq Nat /\ U # {} BY DEF U
  <2>q. QED BY <2>1, LeastNumber
<1>2. n # 0 /\ n - 1 \in Nat /\ n - 1 \notin U
  BY <1>1
<1>q. QED BY <1>2

------------------------------------------------------------------------------
(* What deferreds were resolved with, and what that comes to.                 *)

\* Null is none.
Thenable(th) ==
    /\ th # Null
    /\ th.is \in {"value", "rejection"} \/ \E d \in Deferred : th = PromiseOf(d)

\* No deferred waits for itself: there is a rank that decreases along the promises.
Ranking(value, rank, n) ==
    /\ rank \in [Deferred -> 0 .. n]
    /\ \A d, e \in Deferred : value[d] # Null /\ value[d] = PromiseOf(e) => rank[e] < rank[d]
Ranked(value) == \E n \in Nat : \E rank : Ranking(value, rank, n)

Led(value) ==
    /\ DOMAIN value = Deferred
    /\ \A d \in Deferred : value[d] = Null \/ Thenable(value[d])
    /\ Ranked(value)

LEMMA ByRank ==
    ASSUME NEW n \in Nat, NEW rank \in [Deferred -> 0 .. n], NEW S,
           \A d \in Deferred : (\A e \in Deferred : rank[e] < rank[d] => e \in S) => d \in S
    PROVE  Deferred \subseteq S
<1> SUFFICES ASSUME NEW x \in Deferred, x \notin S PROVE FALSE
  OBVIOUS
<1> DEFINE U == {rank[d] : d \in Deferred \ S}
<1>1. PICK m \in U : \A k \in U : m <= k
  <2>1. U \subseteq Nat /\ U # {}
    OBVIOUS
  <2> HIDE DEF U
  <2>q. QED BY <2>1, LeastNumber
<1>2. PICK d \in Deferred \ S : m = rank[d]
  BY <1>1
<1>3. ASSUME NEW e \in Deferred, rank[e] < rank[d] PROVE e \in S
  <2>1. rank[e] \in Nat /\ rank[d] \in Nat
    OBVIOUS
  <2>2. rank[e] \notin U
    <3> HIDE DEF U
    <3>q. QED BY <1>1, <1>2, <1>3, <2>1
  <2>q. QED BY <2>2
<1>q. QED BY <1>2, <1>3

\* A promise is that of one deferred.
LEMMA OnePromise ==
    /\ \A d, e : PromiseOf(d) = PromiseOf(e) => d = e
    /\ \A d : PromiseOf(d).is = "promise" /\ PromiseOf(d).of = d
    /\ \A x : ValueOf(x).is = "value" /\ Reject(x).is = "rejection"
    /\ \A th : Thenable(th) /\ th.is = "promise" => th.of \in Deferred /\ th = PromiseOf(th.of)
BY DEF PromiseOf, Thenable, ValueOf, Reject

\* The recursion that defines Ends has a solution: from the lowest rank upwards.
EndBy(value, End, d) ==
    IF value[d] # Null /\ value[d].is = "promise" /\ value[value[d].of] # Null THEN End[value[d].of] ELSE value[d]

LEMMA EndsEquation ==
    ASSUME NEW value, Led(value)
    PROVE  Ends(value) = [d \in Deferred |-> EndBy(value, Ends(value), d)]
<1>1. PICK n \in Nat : \E rank : Ranking(value, rank, n)
  BY DEF Led, Ranked
<1>2. PICK rank : Ranking(value, rank, n)
  BY <1>1
<1>3. \A d \in Deferred : rank[d] \in Nat /\ rank[d] <= n
  BY <1>2 DEF Ranking
<1>4. ASSUME NEW d \in Deferred, value[d] # Null, value[d].is = "promise"
      PROVE  value[d].of \in Deferred /\ rank[value[d].of] < rank[d]
  BY <1>2, <1>4, OnePromise DEF Led, Ranking
<1> DEFINE Solves(End, k) == \A d \in Deferred : rank[d] < k => End[d] = EndBy(value, End, d)
           S == {k \in Nat : \E End : Solves(End, k)}
<1>5. 0 \in S
  BY <1>3
<1>6. ASSUME NEW k \in Nat, k \in S PROVE k + 1 \in S
  <2>1. PICK End : Solves(End, k)
    BY <1>6
  <2> DEFINE Next == [d \in Deferred |-> IF rank[d] < k THEN End[d] ELSE EndBy(value, End, d)]
  <2>2. ASSUME NEW d \in Deferred, rank[d] < k + 1 PROVE Next[d] = EndBy(value, Next, d)
    <3>1. Next[d] = EndBy(value, End, d)
      BY <2>1
    <3>2. value[d] # Null /\ value[d].is = "promise" => End[value[d].of] = Next[value[d].of]
      BY <1>3, <1>4, <2>2
    <3> HIDE DEF Next
    <3>q. QED BY <3>1, <3>2 DEF EndBy
  <2>3. Solves(Next, k + 1)
    BY <2>2
  <2>4. \E G : Solves(G, k + 1)
    <3> HIDE DEF Next, Solves
    <3>q. QED BY <2>3
  <2>q. QED BY <2>4
<1>7. n + 1 \in S
  <2> HIDE DEF S
  <2>1. Nat \subseteq S
    BY <1>5, <1>6, NatInduct
  <2>q. QED BY <2>1
<1>8. PICK End : Solves(End, n + 1)
  BY <1>7
<1>9. \A d \in Deferred : End[d] = EndBy(value, End, d)
  BY <1>3, <1>8
<1> DEFINE F == [d \in Deferred |-> End[d]]
<1>10. ASSUME NEW d \in Deferred PROVE EndBy(value, End, d) = EndBy(value, F, d)
  BY <1>4 DEF EndBy
<1>11. F = [d \in Deferred |-> EndBy(value, F, d)]
  BY <1>9, <1>10
<1>12. \E G : G = [d \in Deferred |-> EndBy(value, G, d)]
  BY <1>11
<1>q. QED BY <1>12 DEF Ends, EndBy

\* What a thenable comes to is what the deferred comes to that it is the promise of.
LEMMA FinalEquation ==
    ASSUME NEW q, Led(q.value), NEW th, th.is = "promise" => th.of \in Deferred
    PROVE  Final(q, th) =
             IF th.is = "promise" /\ q.value[th.of] # Null THEN Final(q, q.value[th.of]) ELSE th
<1>1. CASE th.is = "promise" /\ q.value[th.of] # Null
  <2>1. th.of \in Deferred
    BY <1>1, OnePromise
  <2>2. Final(q, th) = EndBy(q.value, Ends(q.value), th.of)
    BY <1>1, <2>1, EndsEquation DEF Final
  <2>q. QED BY <1>1, <2>2 DEF EndBy, Final
<1>2. CASE ~ (th.is = "promise" /\ q.value[th.of] # Null)
  BY <1>2 DEF Final
<1>q. QED BY <1>1, <1>2

LEMMA FinalPending ==
    ASSUME NEW q, Led(q.value), NEW d \in Deferred, q.value[d] = Null
    PROVE  Final(q, PromiseOf(d)) = PromiseOf(d)
BY OnePromise DEF Final

LEMMA FinalOfValue ==
    ASSUME NEW q, NEW th, th.is # "promise"
    PROVE  Final(q, th) = th
BY DEF Final

\* It comes to something that is no promise, or to that of a pending deferred, and to nothing
\* that was not given.
LEMMA FinalSettled ==
    ASSUME NEW q, Led(q.value), NEW T, \A x \in T : Thenable(x),
           \A d \in Deferred : q.value[d] \in T \cup {Null}, NEW th \in T
    PROVE  /\ Final(q, th) \in T
           /\ Final(q, th).is = "promise" =>
                \E d \in Deferred : Final(q, th) = PromiseOf(d) /\ q.value[d] = Null
<1> DEFINE Ok(x) == /\ Final(q, x) \in T
                    /\ Final(q, x).is = "promise" =>
                         \E d \in Deferred : Final(q, x) = PromiseOf(d) /\ q.value[d] = Null
           S == {d \in Deferred : PromiseOf(d) \in T => Ok(PromiseOf(d))}
<1>1. PICK n \in Nat : \E rank : Ranking(q.value, rank, n)
  BY DEF Led, Ranked
<1>2. PICK rank : Ranking(q.value, rank, n)
  BY <1>1
<1>3. ASSUME NEW x \in T, x.is # "promise" PROVE Ok(x)
  BY <1>3, FinalOfValue
<1>4. ASSUME NEW d \in Deferred, \A e \in Deferred : rank[e] < rank[d] => e \in S PROVE d \in S
  <2> SUFFICES ASSUME PromiseOf(d) \in T PROVE Ok(PromiseOf(d))
    OBVIOUS
  <2>1. CASE q.value[d] = Null
    BY <2>1, FinalPending
  <2>2. CASE q.value[d] # Null
    <3>1. q.value[d] \in T /\ Final(q, PromiseOf(d)) = Final(q, q.value[d])
      BY <2>2, FinalEquation, OnePromise
    <3>2. Ok(q.value[d])
      <4>1. CASE q.value[d].is # "promise"
        BY <1>3, <3>1, <4>1
      <4>2. CASE q.value[d].is = "promise"
        <5>1. PICK e \in Deferred : q.value[d] = PromiseOf(e)
          BY <3>1, <4>2, OnePromise
        <5>2. e \in S
          BY <1>2, <1>4, <2>2, <5>1 DEF Ranking
        <5>q. QED BY <3>1, <5>1, <5>2
      <4>q. QED BY <4>1, <4>2
    <3>q. QED BY <3>1, <3>2
  <2>q. QED BY <2>1, <2>2
<1>5. Deferred \subseteq S
  <2>1. n \in Nat /\ rank \in [Deferred -> 0 .. n]
    BY <1>2 DEF Ranking
  <2> HIDE DEF S
  <2>q. QED BY <1>4, <2>1, ByRank
<1>6. CASE th.is = "promise"
  BY <1>5, <1>6, OnePromise
<1>7. CASE th.is # "promise"
  BY <1>3, <1>7
<1>q. QED BY <1>6, <1>7

\* A deferred that is resolved may be led to another, but not to itself.
LEMMA RankOnResolve ==
    ASSUME NEW q, Led(q.value), NEW d \in Deferred, q.value[d] = Null,
           NEW th, Thenable(th), Final(q, th) # PromiseOf(d)
    PROVE  Led([q.value EXCEPT ![d] = th])
<1> DEFINE value == [q.value EXCEPT ![d] = th]
<1>1. PICK n \in Nat : \E rank : Ranking(q.value, rank, n)
  BY DEF Led, Ranked
<1>2. PICK rank : Ranking(q.value, rank, n)
  BY <1>1
<1> DEFINE behind == {x \in Deferred : Final(q, PromiseOf(x)) = PromiseOf(d)}
           over == [x \in Deferred |-> IF x \in behind THEN rank[x] + (n + 1) ELSE rank[x]]
<1>3. \A x \in Deferred : rank[x] \in Nat /\ rank[x] <= n
  BY <1>2 DEF Ranking
<1>4. over \in [Deferred -> 0 .. (n + (n + 1))]
  BY <1>3
<1>5. d \in behind
  BY FinalPending
<1>6. ASSUME NEW x \in Deferred, NEW e \in Deferred, value[x] # Null, value[x] = PromiseOf(e)
      PROVE  over[e] < over[x]
  <2>1. CASE x = d
    <3>1. th = PromiseOf(e)
      BY <1>6, <2>1 DEF Led
    <3>2. e \notin behind
      BY <3>1
    <3> HIDE DEF behind
    <3>q. QED BY <1>3, <1>5, <2>1, <3>2
  <2>2. CASE x # d
    <3>1. q.value[x] = PromiseOf(e) /\ q.value[x] # Null
      BY <1>6, <2>2 DEF Led
    <3>2. rank[e] < rank[x]
      BY <1>2, <3>1 DEF Ranking
    <3>3. Final(q, PromiseOf(x)) = Final(q, PromiseOf(e))
      BY <3>1, FinalEquation, OnePromise
    <3>q. QED BY <1>3, <3>2, <3>3
  <2>q. QED BY <2>1, <2>2
<1>7. Ranking(value, over, n + (n + 1))
  BY <1>4, <1>6 DEF Ranking
<1>8. n + (n + 1) \in Nat
  OBVIOUS
<1>9. Ranked(value)
  <2> HIDE DEF value, over
  <2>q. QED BY <1>7, <1>8 DEF Ranked
<1>q. QED BY <1>9 DEF Led

\* Whatever waited for d now comes to what d was resolved with, and nothing else changes.
LEMMA FinalOnResolve ==
    ASSUME NEW q, Led(q.value), NEW T, \A x \in T : Thenable(x),
           \A x \in Deferred : q.value[x] \in T \cup {Null},
           NEW d \in Deferred, q.value[d] = Null,
           NEW th \in T, Final(q, th) # PromiseOf(d),
           NEW p, Led(p.value), \A x \in Deferred : p.value[x] = IF x = d THEN th ELSE q.value[x],
           NEW t \in T
    PROVE  Final(p, t) = IF Final(q, t) = PromiseOf(d) THEN Final(q, th) ELSE Final(q, t)
<1> DEFINE Moved(x) == IF Final(q, x) = PromiseOf(d) THEN Final(q, th) ELSE Final(q, x)
           S == {x \in Deferred : Final(p, PromiseOf(x)) = Moved(PromiseOf(x))}
<1>2. PICK n \in Nat : \E rank : Ranking(p.value, rank, n)
  BY DEF Led, Ranked
<1>3. PICK rank : Ranking(p.value, rank, n)
  BY <1>2
<1>5. ASSUME NEW x \in T, x.is # "promise" PROVE Final(p, x) = Moved(x)
  BY <1>5, FinalOfValue, OnePromise
<1>6. ASSUME NEW x \in Deferred, \A e \in Deferred : rank[e] < rank[x] => e \in S PROVE x \in S
  <2>1. CASE p.value[x] = Null
    <3>1. x # d /\ q.value[x] = Null
      BY <2>1 DEF Thenable
    <3>q. QED BY <2>1, <3>1, FinalPending, OnePromise
  <2>2. CASE p.value[x] # Null
    <3>1. Final(p, PromiseOf(x)) = Final(p, p.value[x])
      BY <2>2, FinalEquation, OnePromise
    <3>2. p.value[x] \in T
      BY <2>2
    <3>3. Final(p, p.value[x]) = Moved(p.value[x])
      <4>1. CASE p.value[x].is # "promise"
        BY <1>5, <3>2, <4>1
      <4>2. CASE p.value[x].is = "promise"
        <5>1. PICK e \in Deferred : p.value[x] = PromiseOf(e)
          BY <3>2, <4>2, OnePromise
        <5>2. e \in S
          BY <1>3, <1>6, <2>2, <5>1 DEF Ranking
        <5>q. QED BY <5>1, <5>2
      <4>q. QED BY <4>1, <4>2
    <3>4. Moved(p.value[x]) = Moved(PromiseOf(x))
      <4>1. CASE x = d
        BY <4>1, FinalPending
      <4>2. CASE x # d
        <5>1. Final(q, PromiseOf(x)) = Final(q, p.value[x])
          BY <2>2, <4>2, FinalEquation, OnePromise
        <5>q. QED BY <5>1
      <4>q. QED BY <4>1, <4>2
    <3>q. QED BY <3>1, <3>3, <3>4
  <2>q. QED BY <2>1, <2>2
<1>7. Deferred \subseteq S
  <2>1. n \in Nat /\ rank \in [Deferred -> 0 .. n]
    BY <1>3 DEF Ranking
  <2> HIDE DEF S
  <2>q. QED BY <1>6, <2>1, ByRank
<1>8. CASE t.is = "promise"
  BY <1>7, <1>8, OnePromise
<1>9. CASE t.is # "promise"
  BY <1>5, <1>9
<1>q. QED BY <1>8, <1>9

LEMMA FinalByValue ==
    ASSUME NEW q, NEW p, p.value = q.value, NEW th
    PROVE  Final(p, th) = Final(q, th)
BY DEF Final

------------------------------------------------------------------------------
(* The callbacks of a queue and their places.                                 *)

\* The functions given to nextTick, for callbacks of C and thenables of T.
Tasks(C, T) ==
    [is : {"call"}, callback : C, with : T] \cup [is : {"flush"}, callbacks : Seq(C), with : T]
Queues(C, T) ==
    [value : [Deferred -> T \cup {Null}], pending : [Deferred -> Seq(C)], ticks : Seq(Tasks(C, T))]

Callbacks(t) == IF t.is = "call" THEN <<t.callback>> ELSE t.callbacks

Places(q) == ({"pending"} \X Deferred) \cup ({"tick"} \X DOMAIN q.ticks)
At(q, s) == IF s[1] = "pending" THEN q.pending[s[2]] ELSE Callbacks(q.ticks[s[2]])
Waiting(q) == UNION {Range(At(q, s)) : s \in Places(q)}

\* No callback waits in two places, nor twice in one.
Once(q) ==
    \A s, t \in Places(q) : \A i \in DOMAIN At(q, s), j \in DOMAIN At(q, t) :
        At(q, s)[i] = At(q, t)[j] => s = t /\ i = j

\* A callback waits where what it was added to has come to.
Placed(q) ==
    /\ \A d \in Deferred : \A c \in Range(q.pending[d]) :
           q.value[d] = Null /\ Final(q, c.on) = PromiseOf(d)
    /\ \A k \in DOMAIN q.ticks :
           /\ \A c \in Range(Callbacks(q.ticks[k])) : Final(q, c.on) = Final(q, q.ticks[k].with)
           /\ q.ticks[k].is = "call" => q.ticks[k].with.is # "promise"

Thenables(C, T) == (\A th \in T : Thenable(th)) /\ \A c \in C : c.on \in T

QueueInv(q, C, T) == q \in Queues(C, T) /\ Led(q.value) /\ Once(q) /\ Placed(q)

\* A list of callbacks without repetition.
Distinct(s) == \A i, j \in DOMAIN s : s[i] = s[j] => i = j

LEMMA TaskFacts ==
    ASSUME NEW C, NEW T, NEW t \in Tasks(C, T)
    PROVE  /\ t.is \in {"call", "flush"} /\ t.with \in T
           /\ t.is = "call" => t.callback \in C /\ t = Call(t.callback, t.with)
           /\ t.is = "flush" => t.callbacks \in Seq(C)
           /\ Callbacks(t) \in Seq(C)
BY DEF Tasks, Callbacks, Call

LEMMA QueueFacts ==
    ASSUME NEW C, NEW T, NEW q \in Queues(C, T)
    PROVE  /\ DOMAIN q.value = Deferred /\ \A d \in Deferred : q.value[d] \in T \cup {Null}
           /\ q.pending \in [Deferred -> Seq(C)] /\ q.ticks \in Seq(Tasks(C, T))
           /\ Len(q.ticks) \in Nat /\ DOMAIN q.ticks = 1 .. Len(q.ticks)
           /\ \A k \in DOMAIN q.ticks : q.ticks[k] \in Tasks(C, T)
           /\ q = [value |-> q.value, pending |-> q.pending, ticks |-> q.ticks]
           /\ \A s \in Places(q) : /\ At(q, s) \in Seq(C) /\ Len(At(q, s)) \in Nat
                                   /\ DOMAIN At(q, s) = 1 .. Len(At(q, s))
           /\ Waiting(q) \subseteq C
<1>1. /\ DOMAIN q.value = Deferred /\ \A d \in Deferred : q.value[d] \in T \cup {Null}
      /\ q.pending \in [Deferred -> Seq(C)] /\ q.ticks \in Seq(Tasks(C, T))
      /\ q = [value |-> q.value, pending |-> q.pending, ticks |-> q.ticks]
  BY DEF Queues
<1>2. /\ Len(q.ticks) \in Nat /\ DOMAIN q.ticks = 1 .. Len(q.ticks)
      /\ \A k \in DOMAIN q.ticks : q.ticks[k] \in Tasks(C, T)
  BY <1>1, LenProperties, ElementOfSeq
<1>3. ASSUME NEW s \in Places(q)
      PROVE  /\ At(q, s) \in Seq(C) /\ Len(At(q, s)) \in Nat
             /\ DOMAIN At(q, s) = 1 .. Len(At(q, s)) /\ Range(At(q, s)) \subseteq C
  <2>1. CASE s \in {"pending"} \X Deferred
    <3>1. At(q, s) = q.pending[s[2]] /\ s[2] \in Deferred
      BY <2>1 DEF At
    <3>q. QED BY <1>1, <3>1, LenProperties, RangeOfSeq
  <2>2. CASE s \in {"tick"} \X DOMAIN q.ticks
    <3>1. At(q, s) = Callbacks(q.ticks[s[2]]) /\ s[2] \in DOMAIN q.ticks
      BY <2>2 DEF At
    <3>2. At(q, s) \in Seq(C)
      BY <1>2, <3>1, TaskFacts
    <3>q. QED BY <3>2, LenProperties, RangeOfSeq
  <2>q. QED BY <2>1, <2>2 DEF Places
<1>q. QED BY <1>1, <1>2, <1>3 DEF Waiting

LEMMA InWaiting ==
    ASSUME NEW q, NEW s \in Places(q), NEW i \in DOMAIN At(q, s)
    PROVE  At(q, s)[i] \in Waiting(q)
BY DEF Waiting, Range

------------------------------------------------------------------------------
(* What the operations on a queue leave of this.                              *)

\* At first nothing is resolved and nothing waits.
LEMMA UnresolvedKeeps ==
    ASSUME NEW C, NEW T
    PROVE  /\ QueueInv(Unresolved(Deferred), C, T)
           /\ Waiting(Unresolved(Deferred)) = {}
<1> DEFINE q == Unresolved(Deferred)
<1>1. q = [value |-> [d \in Deferred |-> Null], pending |-> [d \in Deferred |-> <<>>], ticks |-> <<>>]
  BY DEF Unresolved
<1> HIDE DEF q
<1>2. q \in Queues(C, T)
  BY <1>1 DEF Queues
<1>3. Led(q.value)
  <2> DEFINE rank == [d \in Deferred |-> 0]
  <2>1. rank \in [Deferred -> 0 .. 0] /\ \A d \in Deferred : q.value[d] = Null
    BY <1>1
  <2> HIDE DEF rank
  <2>2. Ranking(q.value, rank, 0)
    BY <2>1 DEF Ranking
  <2>q. QED BY <1>1, <2>1, <2>2 DEF Led, Ranked
<1>4. \A s \in Places(q) : At(q, s) = <<>>
  BY <1>1 DEF Places, At
<1>5. Once(q) /\ Waiting(q) = {}
  BY <1>4 DEF Once, Waiting, Range
<1>6. Placed(q)
  BY <1>1 DEF Placed, Range
<1>q. QED BY <1>2, <1>3, <1>5, <1>6 DEF QueueInv, q

LEMMA PopKeeps ==
    ASSUME NEW C, NEW T, NEW q, QueueInv(q, C, T), q.ticks # <<>>
    PROVE  /\ QueueInv(Popped(q), C, T)
           /\ Popped(q).value = q.value
           /\ Head(q.ticks) = q.ticks[1] /\ 1 \in DOMAIN q.ticks /\ Head(q.ticks) \in Tasks(C, T)
           /\ Distinct(Callbacks(Head(q.ticks)))
           /\ Range(Callbacks(Head(q.ticks))) \subseteq Waiting(q)
           /\ Waiting(Popped(q)) = Waiting(q) \ Range(Callbacks(Head(q.ticks)))
<1> DEFINE p == Popped(q)
           h == Head(q.ticks)
           old(s) == IF s[1] = "pending" THEN s ELSE <<"tick", s[2] + 1>>
<1>1. q \in Queues(C, T)
  BY DEF QueueInv
<1>2. /\ h = q.ticks[1] /\ 1 \in DOMAIN q.ticks /\ h \in Tasks(C, T)
      /\ Tail(q.ticks) \in Seq(Tasks(C, T)) /\ DOMAIN Tail(q.ticks) = 1 .. Len(q.ticks) - 1
      /\ \A k \in 1 .. Len(q.ticks) - 1 : Tail(q.ticks)[k] = q.ticks[k + 1] /\ k + 1 \in DOMAIN q.ticks
      /\ \A k \in DOMAIN q.ticks : k # 1 => k - 1 \in 1 .. Len(q.ticks) - 1
  <2>1. Len(q.ticks) \in Nat \ {0} /\ DOMAIN q.ticks = 1 .. Len(q.ticks) /\ q.ticks \in Seq(Tasks(C, T))
    BY <1>1, QueueFacts, EmptySeq
  <2>2. /\ h \in Tasks(C, T) /\ Tail(q.ticks) \in Seq(Tasks(C, T)) /\ Len(Tail(q.ticks)) = Len(q.ticks) - 1
        /\ \A k \in 1 .. Len(q.ticks) - 1 : Tail(q.ticks)[k] = q.ticks[k + 1]
    BY <2>1, HeadTailProperties
  <2>3. h = q.ticks[1]
    BY <2>1
  <2>4. DOMAIN Tail(q.ticks) = 1 .. Len(q.ticks) - 1
    BY <2>2, LenProperties
  <2>q. QED BY <2>1, <2>2, <2>3, <2>4
<1>3. p.value = q.value /\ p.pending = q.pending /\ p.ticks = Tail(q.ticks) /\ p \in Queues(C, T)
  BY <1>1, <1>2 DEF Popped, Queues
<1>4. ASSUME NEW s \in Places(p)
      PROVE  old(s) \in Places(q) /\ At(p, s) = At(q, old(s)) /\ old(s) # <<"tick", 1>>
  <2>1. CASE s \in {"pending"} \X Deferred
    BY <1>3, <2>1 DEF At, Places
  <2>2. CASE s \in {"tick"} \X DOMAIN p.ticks
    <3>1. s[1] = "tick" /\ s[2] \in 1 .. Len(q.ticks) - 1
      BY <1>2, <1>3, <2>2
    <3>2. s[2] + 1 # 1
      BY <1>1, <3>1, QueueFacts
    <3>q. QED BY <1>2, <1>3, <3>1, <3>2 DEF At, Places
  <2>q. QED BY <2>1, <2>2 DEF Places
<1>5. ASSUME NEW s \in Places(p), NEW t \in Places(p), old(s) = old(t) PROVE s = t
  <2>1. /\ s \in {"pending"} \X Deferred \/ (s = <<"tick", s[2]>> /\ s[2] \in Int)
        /\ t \in {"pending"} \X Deferred \/ (t = <<"tick", t[2]>> /\ t[2] \in Int)
    BY <1>2, <1>3 DEF Places
  <2>q. QED BY <1>5, <2>1
<1>6. ASSUME NEW s \in Places(q), s # <<"tick", 1>> PROVE \E t \in Places(p) : s = old(t)
  <2>1. CASE s \in {"pending"} \X Deferred
    BY <2>1 DEF Places
  <2>2. CASE s \in {"tick"} \X DOMAIN q.ticks
    <3>1. s[2] # 1 /\ s[2] - 1 \in 1 .. Len(q.ticks) - 1 /\ s = <<"tick", s[2]>> /\ s[2] \in Int
      BY <1>1, <1>2, <1>6, <2>2, QueueFacts
    <3>2. <<"tick", s[2] - 1>> \in Places(p) /\ old(<<"tick", s[2] - 1>>) = s
      BY <1>2, <1>3, <3>1 DEF Places
    <3>q. QED BY <3>2
  <2>q. QED BY <2>1, <2>2 DEF Places
<1>7. <<"tick", 1>> \in Places(q) /\ At(q, <<"tick", 1>>) = Callbacks(h)
  BY <1>2 DEF Places, At
<1>8. Once(p)
  <2> SUFFICES ASSUME NEW s \in Places(p), NEW t \in Places(p),
                      NEW i \in DOMAIN At(p, s), NEW j \in DOMAIN At(p, t), At(p, s)[i] = At(p, t)[j]
               PROVE  s = t /\ i = j
    BY DEF Once
  <2> HIDE DEF p, old
  <2>1. old(s) = old(t) /\ i = j
    BY <1>4 DEF QueueInv, Once
  <2>q. QED BY <1>5, <2>1
<1>9. Placed(p)
  <2>1. \A th : Final(p, th) = Final(q, th)
    BY <1>3, FinalByValue
  <2>2. ASSUME NEW d \in Deferred, NEW c \in Range(p.pending[d])
        PROVE  p.value[d] = Null /\ Final(p, c.on) = PromiseOf(d)
    BY <1>3, <2>1 DEF QueueInv, Placed
  <2>3. ASSUME NEW k \in DOMAIN p.ticks
        PROVE  /\ \A c \in Range(Callbacks(p.ticks[k])) : Final(p, c.on) = Final(p, p.ticks[k].with)
               /\ p.ticks[k].is = "call" => p.ticks[k].with.is # "promise"
    <3>1. k + 1 \in DOMAIN q.ticks /\ p.ticks[k] = q.ticks[k + 1]
      BY <1>2, <1>3
    <3>q. QED BY <2>1, <3>1 DEF QueueInv, Placed
  <2>q. QED BY <2>2, <2>3 DEF Placed
<1>10. Distinct(Callbacks(h))
  BY <1>7 DEF QueueInv, Once, Distinct
<1>11. Range(Callbacks(h)) \subseteq Waiting(q)
  BY <1>7, InWaiting DEF Range
<1>12. Waiting(p) = Waiting(q) \ Range(Callbacks(h))
  <2>1. ASSUME NEW c \in Waiting(p) PROVE c \in Waiting(q) \ Range(Callbacks(h))
    <3>0. PICK s \in Places(p) : c \in Range(At(p, s))
      BY DEF Waiting
    <3>1. PICK i \in DOMAIN At(p, s) : c = At(p, s)[i]
      BY <3>0 DEF Range
    <3>2. old(s) \in Places(q) /\ i \in DOMAIN At(q, old(s)) /\ c = At(q, old(s))[i] /\ old(s) # <<"tick", 1>>
      BY <1>4, <3>1
    <3> HIDE DEF p, old, h
    <3>3. c \notin Range(Callbacks(h))
      BY <1>7, <3>2 DEF QueueInv, Once, Range
    <3>q. QED BY <3>2, <3>3, InWaiting
  <2>2. ASSUME NEW c \in Waiting(q), c \notin Range(Callbacks(h)) PROVE c \in Waiting(p)
    <3>0. PICK s \in Places(q) : c \in Range(At(q, s))
      BY DEF Waiting
    <3>1. PICK i \in DOMAIN At(q, s) : c = At(q, s)[i]
      BY <3>0 DEF Range
    <3>2. s # <<"tick", 1>>
      BY <1>7, <2>2, <3>1 DEF Range
    <3>3. PICK t \in Places(p) : s = old(t)
      BY <1>6, <3>2
    <3>4. At(p, t) = At(q, s)
      BY <1>4, <3>3
    <3>q. QED BY <3>1, <3>4, InWaiting
  <2>q. QED BY <2>1, <2>2
<1>q. QED BY <1>2, <1>3, <1>8, <1>9, <1>10, <1>11, <1>12 DEF QueueInv

\* The callbacks of a pending deferred become a tick, those led to it know where they go now.
LEMMA ResolveKeeps ==
    ASSUME NEW C, NEW T, Thenables(C, T), NEW q, QueueInv(q, C, T),
           NEW d \in Deferred, NEW th \in T, q.value[d] = Null => Final(q, th) # PromiseOf(d)
    PROVE  /\ QueueInv(Resolve(q, d, th), C, T)
           /\ Waiting(Resolve(q, d, th)) = Waiting(q)
           /\ \A x \in Deferred : Resolve(q, d, th).value[x] =
                  IF x = d /\ q.value[d] = Null THEN th ELSE q.value[x]
           /\ \A t \in T : Final(Resolve(q, d, th), t) =
                  IF Final(q, t) = PromiseOf(d) THEN Final(q, th) ELSE Final(q, t)
<1> DEFINE p == Resolve(q, d, th)
<1>1. q \in Queues(C, T)
  BY DEF QueueInv
<1>2. CASE q.value[d] # Null
  <2>1. p = q
    BY <1>2 DEF Resolve
  <2>2. ASSUME NEW t \in T PROVE Final(q, t) # PromiseOf(d)
    <3>1. \A x \in Deferred : q.value[x] \in T \cup {Null}
      BY <1>1, QueueFacts
    <3>2. Final(q, t).is = "promise" => \E e \in Deferred : Final(q, t) = PromiseOf(e) /\ q.value[e] = Null
      BY <3>1, FinalSettled DEF QueueInv, Thenables
    <3>q. QED BY <1>2, <3>2, OnePromise
  <2>q. QED BY <1>2, <2>1, <2>2
<1>3. CASE q.value[d] = Null
  <2> DEFINE moved == q.pending[d]
             flush == [is |-> "flush", callbacks |-> moved, with |-> th]
             n == Len(q.ticks)
             old(s) == IF s = <<"tick", n + 1>> THEN <<"pending", d>> ELSE s
  <2>1. moved \in Seq(C) /\ flush \in Tasks(C, T) /\ n \in Nat /\ DOMAIN q.ticks = 1 .. n
    <3>1. moved \in Seq(C) /\ n \in Nat /\ DOMAIN q.ticks = 1 .. n
      BY <1>1, QueueFacts
    <3>2. flush \in [is : {"flush"}, callbacks : Seq(C), with : T]
      BY <3>1
    <3>q. QED BY <3>1, <3>2 DEF Tasks
  <2>2. /\ p.value = [q.value EXCEPT ![d] = th] /\ p.pending = [q.pending EXCEPT ![d] = <<>>]
        /\ p.ticks = IF moved = <<>> THEN q.ticks ELSE Append(q.ticks, flush)
        /\ p = [value |-> p.value, pending |-> p.pending, ticks |-> p.ticks]
    BY <1>1, <1>3 DEF Resolve, Queues
  <2>3. /\ p.ticks \in Seq(Tasks(C, T))
        /\ \A k \in 1 .. n : k \in DOMAIN p.ticks /\ p.ticks[k] = q.ticks[k]
        /\ \A k \in DOMAIN p.ticks : k \in 1 .. n \/ (k = n + 1 /\ moved # <<>> /\ p.ticks[k] = flush)
        /\ moved # <<>> => n + 1 \in DOMAIN p.ticks /\ p.ticks[n + 1] = flush
    <3>1. q.ticks \in Seq(Tasks(C, T))
      BY <1>1, QueueFacts
    <3>2. CASE moved = <<>>
      BY <2>1, <2>2, <3>1, <3>2
    <3>3. CASE moved # <<>>
      <4> HIDE DEF flush
      <4>1. p.ticks = Append(q.ticks, flush)
        BY <2>2, <3>3
      <4>2. /\ p.ticks \in Seq(Tasks(C, T)) /\ Len(p.ticks) = n + 1 /\ p.ticks[n + 1] = flush
            /\ \A k \in 1 .. n : p.ticks[k] = q.ticks[k]
        BY <2>1, <3>1, <4>1, AppendProperties
      <4>3. DOMAIN p.ticks = 1 .. n + 1
        BY <4>2, LenProperties
      <4>q. QED BY <2>1, <3>3, <4>2, <4>3
    <3>q. QED BY <3>2, <3>3
  <2>4. /\ p.value \in [Deferred -> T \cup {Null}] /\ p.pending \in [Deferred -> Seq(C)]
        /\ \A x \in Deferred : /\ p.value[x] = IF x = d THEN th ELSE q.value[x]
                               /\ p.pending[x] = IF x = d THEN <<>> ELSE q.pending[x]
    <3>1. q.value \in [Deferred -> T \cup {Null}] /\ q.pending \in [Deferred -> Seq(C)]
      BY <1>1 DEF Queues
    <3>q. QED BY <2>2, <3>1
  <2>5. p \in Queues(C, T)
    BY <2>2, <2>3, <2>4 DEF Queues
  <2>6. Led(p.value)
    BY <1>3, <2>2, RankOnResolve DEF QueueInv, Thenables
  <2>7. \A t \in T : Final(p, t) = IF Final(q, t) = PromiseOf(d) THEN Final(q, th) ELSE Final(q, t)
    <3> SUFFICES ASSUME NEW t \in T
                 PROVE  Final(p, t) = IF Final(q, t) = PromiseOf(d) THEN Final(q, th) ELSE Final(q, t)
      OBVIOUS
    <3> HIDE DEF p
    <3>1. \A x \in Deferred : q.value[x] \in T \cup {Null}
      BY <1>1, QueueFacts
    <3>q. QED BY <1>3, <2>4, <2>6, <3>1, FinalOnResolve DEF QueueInv, Thenables
  <2>8. ASSUME NEW s \in Places(p)
        PROVE  \/ s = <<"pending", d>> /\ At(p, s) = <<>>
               \/ s # <<"pending", d>> /\ old(s) \in Places(q) /\ At(p, s) = At(q, old(s))
    <3> HIDE DEF p
    <3>1. CASE s \in {"pending"} \X Deferred
      BY <2>4, <3>1 DEF At, Places
    <3>2. CASE s \in {"tick"} \X DOMAIN p.ticks
      <4>1. s = <<"tick", s[2]>> /\ s[2] \in DOMAIN p.ticks
        BY <3>2
      <4>2. CASE s[2] \in 1 .. n
        <5>1. s[2] # n + 1
          BY <2>1, <4>2
        <5>q. QED BY <2>1, <2>3, <4>1, <4>2, <5>1 DEF At, Places
      <4>3. CASE s[2] = n + 1 /\ p.ticks[s[2]] = flush
        BY <2>1, <4>1, <4>3 DEF At, Places, Callbacks
      <4>q. QED BY <2>3, <4>1, <4>2, <4>3
    <3>q. QED BY <3>1, <3>2 DEF Places
  <2>9. ASSUME NEW s \in Places(q), At(q, s) # <<>>
        PROVE  \E t \in Places(p) : At(p, t) = At(q, s)
    <3> HIDE DEF p
    <3>1. CASE s = <<"pending", d>>
      <4>1. moved # <<>> /\ At(q, s) = moved
        BY <2>9, <3>1 DEF At
      <4>2. <<"tick", n + 1>> \in Places(p) /\ At(p, <<"tick", n + 1>>) = moved
        BY <2>3, <4>1 DEF At, Places, Callbacks
      <4>q. QED BY <4>1, <4>2
    <3>2. CASE s # <<"pending", d>>
      <4>1. s \in Places(p) /\ At(p, s) = At(q, s)
        BY <2>1, <2>3, <2>4, <3>2 DEF At, Places
      <4>q. QED BY <4>1
    <3>q. QED BY <3>1, <3>2
  <2>10. Once(p)
    <3> SUFFICES ASSUME NEW s \in Places(p), NEW t \in Places(p),
                        NEW i \in DOMAIN At(p, s), NEW j \in DOMAIN At(p, t), At(p, s)[i] = At(p, t)[j]
                 PROVE  s = t /\ i = j
      BY DEF Once
    <3> HIDE DEF p, old
    <3>1. /\ s # <<"pending", d>> /\ old(s) \in Places(q) /\ At(p, s) = At(q, old(s))
          /\ t # <<"pending", d>> /\ old(t) \in Places(q) /\ At(p, t) = At(q, old(t))
      BY <2>8
    <3>2. old(s) = old(t) /\ i = j
      BY <3>1 DEF QueueInv, Once
    <3>q. QED BY <3>1, <3>2 DEF old
  <2>11. Waiting(p) = Waiting(q)
    <3> HIDE DEF p, old
    <3>1. ASSUME NEW c \in Waiting(p) PROVE c \in Waiting(q)
      <4>1. PICK s \in Places(p) : c \in Range(At(p, s))
        BY DEF Waiting
      <4>2. s # <<"pending", d>> /\ old(s) \in Places(q) /\ At(p, s) = At(q, old(s))
        BY <2>8, <4>1 DEF Range
      <4>q. QED BY <4>1, <4>2 DEF Waiting
    <3>2. ASSUME NEW c \in Waiting(q) PROVE c \in Waiting(p)
      <4>1. PICK s \in Places(q) : c \in Range(At(q, s))
        BY DEF Waiting
      <4>2. At(q, s) # <<>>
        BY <4>1 DEF Range
      <4>q. QED BY <2>9, <4>1, <4>2 DEF Waiting
    <3>q. QED BY <3>1, <3>2
  <2>12. Placed(p)
    <3>1. ASSUME NEW x \in Deferred, NEW c \in Range(p.pending[x])
          PROVE  p.value[x] = Null /\ Final(p, c.on) = PromiseOf(x)
      <4>1. x # d /\ p.pending[x] = q.pending[x] /\ p.value[x] = q.value[x]
        BY <2>4, <3>1 DEF Range
      <4>2. c \in C
        BY <1>1, <4>1, QueueFacts, RangeOfSeq
      <4>3. q.value[x] = Null /\ Final(q, c.on) = PromiseOf(x)
        BY <4>1 DEF QueueInv, Placed
      <4>q. QED BY <2>7, <4>1, <4>2, <4>3, OnePromise DEF Thenables
    <3>2. ASSUME NEW k \in DOMAIN p.ticks
          PROVE  /\ \A c \in Range(Callbacks(p.ticks[k])) : Final(p, c.on) = Final(p, p.ticks[k].with)
                 /\ p.ticks[k].is = "call" => p.ticks[k].with.is # "promise"
      <4> HIDE DEF p
      <4>1. CASE k \in 1 .. n
        <5>1. p.ticks[k] = q.ticks[k] /\ k \in DOMAIN q.ticks /\ q.ticks[k] \in Tasks(C, T)
          BY <1>1, <2>1, <2>3, <4>1, QueueFacts
        <5>2. Range(Callbacks(q.ticks[k])) \subseteq C /\ q.ticks[k].with \in T
          BY <5>1, TaskFacts, RangeOfSeq
        <5>q. QED BY <2>7, <5>1, <5>2 DEF QueueInv, Placed, Thenables
      <4>2. CASE k = n + 1 /\ p.ticks[k] = flush
        <5>1. Callbacks(p.ticks[k]) = moved /\ p.ticks[k].with = th /\ p.ticks[k].is = "flush"
          BY <4>2 DEF Callbacks
        <5>2. ASSUME NEW c \in Range(moved) PROVE Final(p, c.on) = Final(p, th)
          <6>1. c \in C /\ Final(q, c.on) = PromiseOf(d)
            BY <2>1, RangeOfSeq DEF QueueInv, Placed
          <6>2. Final(p, c.on) = Final(q, th) /\ Final(p, th) = Final(q, th)
            BY <1>3, <2>7, <6>1 DEF Thenables
          <6>q. QED BY <6>2
        <5> HIDE DEF moved
        <5>q. QED BY <5>1, <5>2
      <4>q. QED BY <2>3, <4>1, <4>2
    <3>q. QED BY <3>1, <3>2 DEF Placed
  <2> HIDE DEF p
  <2>q. QED BY <1>3, <2>4, <2>5, <2>6, <2>7, <2>10, <2>11, <2>12 DEF QueueInv, p
<1>q. QED BY <1>2, <1>3

\* Callbacks that wait nowhere are handed on to where the thenable has come.
LEMMA HandKeeps ==
    ASSUME NEW C, NEW T, Thenables(C, T), NEW q, QueueInv(q, C, T), NEW th \in T,
           NEW callbacks \in Seq(C), Distinct(callbacks), Range(callbacks) \cap Waiting(q) = {},
           \A c \in Range(callbacks) : Final(q, c.on) = Final(q, th)
    PROVE  /\ QueueInv(Hand(q, th, callbacks), C, T)
           /\ Waiting(Hand(q, th, callbacks)) = Waiting(q) \cup Range(callbacks)
           /\ Hand(q, th, callbacks).value = q.value
<1> DEFINE p == Hand(q, th, callbacks)
           end == Final(q, th)
           m == Len(callbacks)
<1>1. q \in Queues(C, T)
  BY DEF QueueInv
<1>2. /\ end \in T /\ Thenable(end)
      /\ end.is = "promise" => \E e \in Deferred : end = PromiseOf(e) /\ q.value[e] = Null
  <2>1. \A x \in Deferred : q.value[x] \in T \cup {Null}
    BY <1>1, QueueFacts
  <2>2. /\ end \in T
        /\ end.is = "promise" => \E e \in Deferred : end = PromiseOf(e) /\ q.value[e] = Null
    <3> HIDE DEF end
    <3>q. QED BY <2>1, FinalSettled DEF QueueInv, Thenables, end
  <2>q. QED BY <2>2 DEF Thenables
<1>3. m \in Nat /\ DOMAIN callbacks = 1 .. m /\ \A i \in 1 .. m : callbacks[i] \in C
  BY LenProperties, ElementOfSeq
<1>4. \A p1 : p1.value = q.value => \A t : Final(p1, t) = Final(q, t)
  BY FinalByValue
<1>5. CASE end.is = "promise"
  <2>1. PICK e \in Deferred : end = PromiseOf(e) /\ q.value[e] = Null
    BY <1>2, <1>5
  <2> DEFINE n == Len(q.pending[e])
             here == <<"pending", e>>
  <2>2. /\ p.value = q.value /\ p.ticks = q.ticks /\ p \in Queues(C, T)
        /\ p.pending[e] = q.pending[e] \o callbacks
        /\ \A x \in Deferred : x # e => p.pending[x] = q.pending[x]
    <3>1. q.pending[e] \o callbacks \in Seq(C)
      BY <1>1, QueueFacts, ConcatProperties
    <3>2. end.of = e
      BY <2>1, OnePromise
    <3>3. p = [q EXCEPT !.pending[e] = q.pending[e] \o callbacks]
      BY <1>5, <3>2 DEF Hand
    <3>q. QED BY <1>1, <3>1, <3>3 DEF Queues
  <2>3. /\ n \in Nat /\ DOMAIN q.pending[e] = 1 .. n /\ DOMAIN p.pending[e] = 1 .. n + m
        /\ \A i \in 1 .. n + m : p.pending[e][i] = IF i <= n THEN q.pending[e][i] ELSE callbacks[i - n]
    <3>1. q.pending[e] \in Seq(C)
      BY <1>1, QueueFacts
    <3>q. QED BY <2>2, <3>1, ConcatProperties, LenProperties
  <2>4. Places(p) = Places(q) /\ here \in Places(q) /\ At(q, here) = q.pending[e] /\ At(p, here) = p.pending[e]
    BY <2>2 DEF Places, At
  <2>5. \A s \in Places(q) : s # here => At(p, s) = At(q, s)
    BY <2>2 DEF Places, At
  <2> HIDE DEF p, here, n, m
  <2>6. ASSUME NEW s \in Places(q), NEW i \in DOMAIN At(p, s)
        PROVE  \/ i \in DOMAIN At(q, s) /\ At(p, s)[i] = At(q, s)[i]
               \/ s = here /\ i \in Int /\ i - n \in 1 .. m /\ At(p, s)[i] = callbacks[i - n]
    <3>1. CASE s = here
      <4>1. i \in 1 .. n + m
        BY <2>3, <2>4, <3>1
      <4>2. CASE i <= n
        BY <2>3, <2>4, <3>1, <4>1, <4>2
      <4>3. CASE ~ (i <= n)
        <5>1. i \in Int /\ i - n \in 1 .. m
          BY <1>3, <2>3, <4>1, <4>3
        <5>q. QED BY <2>3, <2>4, <3>1, <4>1, <4>3, <5>1
      <4>q. QED BY <4>2, <4>3
    <3>2. CASE s # here
      BY <2>5, <3>2
    <3>q. QED BY <3>1, <3>2
  <2>7. ASSUME NEW s \in Places(q), NEW i \in DOMAIN At(q, s)
        PROVE  i \in DOMAIN At(p, s) /\ At(p, s)[i] = At(q, s)[i]
    <3>1. CASE s = here
      <4>1. i \in 1 .. n + m /\ i <= n
        BY <1>3, <2>3, <2>4, <3>1
      <4>q. QED BY <2>3, <2>4, <3>1, <4>1
    <3>2. CASE s # here
      BY <2>5, <3>2
    <3>q. QED BY <3>1, <3>2
  <2>8. ASSUME NEW c \in Range(callbacks) PROVE c \in Range(At(p, here))
    <3>1. PICK i \in 1 .. m : c = callbacks[i]
      BY <1>3 DEF Range
    <3>2. n + i \in 1 .. n + m /\ ~ (n + i <= n) /\ (n + i) - n = i
      BY <1>3, <2>3
    <3>3. p.pending[e][n + i] = c
      BY <2>3, <3>1, <3>2
    <3>q. QED BY <2>3, <2>4, <3>2, <3>3 DEF Range
  <2>9. Once(p)
    <3> SUFFICES ASSUME NEW s \in Places(q), NEW t \in Places(q),
                        NEW i \in DOMAIN At(p, s), NEW j \in DOMAIN At(p, t), At(p, s)[i] = At(p, t)[j]
                 PROVE  s = t /\ i = j
      BY <2>4 DEF Once
    <3>1. CASE i \in DOMAIN At(q, s) /\ At(p, s)[i] = At(q, s)[i] /\ j \in DOMAIN At(q, t) /\ At(p, t)[j] = At(q, t)[j]
      <4>1. At(q, s)[i] = At(q, t)[j]
        BY <3>1
      <4>q. QED BY <3>1, <4>1 DEF QueueInv, Once
    <3>2. CASE /\ s = here /\ i \in Int /\ i - n \in 1 .. m /\ At(p, s)[i] = callbacks[i - n]
               /\ t = here /\ j \in Int /\ j - n \in 1 .. m /\ At(p, t)[j] = callbacks[j - n]
      <4>1. i - n = j - n
        BY <1>3, <3>2 DEF Distinct
      <4>q. QED BY <2>3, <3>2, <4>1
    <3>3. CASE /\ i \in DOMAIN At(q, s) /\ At(p, s)[i] = At(q, s)[i]
               /\ j - n \in 1 .. m /\ At(p, t)[j] = callbacks[j - n]
      BY <1>3, <3>3, InWaiting DEF Range
    <3>4. CASE /\ j \in DOMAIN At(q, t) /\ At(p, t)[j] = At(q, t)[j]
               /\ i - n \in 1 .. m /\ At(p, s)[i] = callbacks[i - n]
      BY <1>3, <3>4, InWaiting DEF Range
    <3>q. QED BY <2>6, <3>1, <3>2, <3>3, <3>4
  <2>10. Waiting(p) = Waiting(q) \cup Range(callbacks)
    <3>1. ASSUME NEW c \in Waiting(p) PROVE c \in Waiting(q) \cup Range(callbacks)
      <4>1. PICK s \in Places(q) : c \in Range(At(p, s))
        BY <2>4 DEF Waiting
      <4>2. PICK i \in DOMAIN At(p, s) : c = At(p, s)[i]
        BY <4>1 DEF Range
      <4>q. QED BY <1>3, <2>6, <4>2, InWaiting DEF Range
    <3>2. ASSUME NEW c \in Waiting(q) PROVE c \in Waiting(p)
      <4>1. PICK s \in Places(q) : c \in Range(At(q, s))
        BY DEF Waiting
      <4>2. c \in Range(At(p, s))
        BY <2>7, <4>1 DEF Range
      <4>q. QED BY <2>4, <4>2 DEF Waiting
    <3>3. Range(callbacks) \subseteq Waiting(p)
      BY <2>4, <2>8 DEF Waiting
    <3>q. QED BY <3>1, <3>2, <3>3
  <2>11. Placed(p)
    <3>1. ASSUME NEW x \in Deferred, NEW c \in Range(p.pending[x])
          PROVE  p.value[x] = Null /\ Final(p, c.on) = PromiseOf(x)
      <4>1. CASE x = e
        <5>1. c \in Range(q.pending[e]) \/ c \in Range(callbacks)
          <6>1. PICK i \in 1 .. n + m : c = p.pending[e][i]
            BY <2>3, <3>1, <4>1 DEF Range
          <6>2. CASE i <= n
            BY <2>3, <6>1, <6>2 DEF Range
          <6>3. CASE ~ (i <= n)
            <7>1. i - n \in 1 .. m /\ c = callbacks[i - n]
              BY <1>3, <2>3, <6>1, <6>3
            <7>q. QED BY <1>3, <7>1 DEF Range
          <6>q. QED BY <6>2, <6>3
        <5>2. q.value[e] = Null /\ Final(q, c.on) = PromiseOf(e)
          BY <2>1, <5>1 DEF QueueInv, Placed
        <5>q. QED BY <1>4, <2>2, <4>1, <5>2
      <4>2. CASE x # e
        <5>1. q.value[x] = Null /\ Final(q, c.on) = PromiseOf(x)
          BY <2>2, <3>1, <4>2 DEF QueueInv, Placed
        <5>q. QED BY <1>4, <2>2, <5>1
      <4>q. QED BY <4>1, <4>2
    <3>2. ASSUME NEW k \in DOMAIN p.ticks
          PROVE  /\ \A c \in Range(Callbacks(p.ticks[k])) : Final(p, c.on) = Final(p, p.ticks[k].with)
                 /\ p.ticks[k].is = "call" => p.ticks[k].with.is # "promise"
      BY <1>4, <2>2 DEF QueueInv, Placed
    <3>q. QED BY <3>1, <3>2 DEF Placed
  <2>12. Led(p.value)
    BY <2>2 DEF QueueInv
  <2>q. QED BY <2>2, <2>9, <2>10, <2>11, <2>12 DEF QueueInv, p
<1>6. CASE end.is # "promise"
  <2> DEFINE calls == Calls(callbacks, end)
             n == Len(q.ticks)
  <2>1. n \in Nat /\ DOMAIN q.ticks = 1 .. n /\ q.ticks \in Seq(Tasks(C, T))
    BY <1>1, QueueFacts
  <2>2. /\ calls \in Seq(Tasks(C, T)) /\ Len(calls) = m
        /\ \A k \in 1 .. m : calls[k] = Call(callbacks[k], end)
    <3>1. \A k \in 1 .. m : Call(callbacks[k], end) \in Tasks(C, T)
      BY <1>2, <1>3 DEF Call, Tasks
    <3>2. calls = [k \in 1 .. m |-> Call(callbacks[k], end)]
      BY <1>3 DEF Calls
    <3> HIDE DEF calls, m, end
    <3>q. QED BY <1>3, <3>1, <3>2
  <2>3. /\ p.value = q.value /\ p.pending = q.pending /\ p.ticks = q.ticks \o calls /\ p \in Queues(C, T)
    <3>1. q.ticks \o calls \in Seq(Tasks(C, T))
      BY <2>1, <2>2, ConcatProperties
    <3>2. p = [q EXCEPT !.ticks = q.ticks \o calls]
      BY <1>6 DEF Hand
    <3> HIDE DEF calls, p
    <3>q. QED BY <1>1, <3>1, <3>2 DEF Queues
  <2>4. /\ DOMAIN p.ticks = 1 .. n + m
        /\ \A k \in 1 .. n + m : p.ticks[k] = IF k <= n THEN q.ticks[k] ELSE Call(callbacks[k - n], end)
    <3> HIDE DEF calls, p, n, m
    <3>1. /\ p.ticks \in Seq(Tasks(C, T)) /\ Len(p.ticks) = n + m
          /\ \A k \in 1 .. n + m : p.ticks[k] = IF k <= n THEN q.ticks[k] ELSE calls[k - n]
      <4>1. /\ q.ticks \o calls \in Seq(Tasks(C, T)) /\ Len(q.ticks \o calls) = Len(q.ticks) + Len(calls)
            /\ \A k \in 1 .. Len(q.ticks) + Len(calls) :
                  (q.ticks \o calls)[k] = IF k <= Len(q.ticks) THEN q.ticks[k] ELSE calls[k - Len(q.ticks)]
        <5>1. calls \in Seq(Tasks(C, T)) /\ q.ticks \in Seq(Tasks(C, T))
          BY <2>1, <2>2
        <5>q. QED BY <5>1, ConcatProperties
      <4>2. Len(q.ticks) = n /\ Len(calls) = m /\ p.ticks = q.ticks \o calls
        BY <2>2, <2>3 DEF n
      <4>q. QED BY <4>1, <4>2
    <3>2. DOMAIN p.ticks = 1 .. n + m
      BY <3>1, LenProperties
    <3>3. \A k \in 1 .. n + m : ~ (k <= n) => k - n \in 1 .. m
      BY <1>3, <2>1
    <3>q. QED BY <2>2, <3>1, <3>2, <3>3
  <2> HIDE DEF p, calls, n, m, end
  <2>5. ASSUME NEW s \in Places(p)
        PROVE  \/ s \in Places(q) /\ At(p, s) = At(q, s)
               \/ \E k \in 1 .. m : s = <<"tick", n + k>> /\ At(p, s) = <<callbacks[k]>>
    <3>1. CASE s \in {"pending"} \X Deferred
      BY <2>3, <3>1 DEF At, Places
    <3>2. CASE s \in {"tick"} \X DOMAIN p.ticks
      <4>1. s = <<"tick", s[2]>> /\ s[2] \in 1 .. n + m /\ At(p, s) = Callbacks(p.ticks[s[2]])
        BY <2>4, <3>2 DEF At
      <4>2. CASE s[2] <= n
        <5>1. s[2] \in 1 .. n /\ p.ticks[s[2]] = q.ticks[s[2]]
          BY <2>1, <2>4, <4>1, <4>2
        <5>q. QED BY <2>1, <4>1, <5>1 DEF At, Places
      <4>3. CASE ~ (s[2] <= n)
        <5>1. s[2] - n \in 1 .. m /\ s[2] = n + (s[2] - n) /\ p.ticks[s[2]] = Call(callbacks[s[2] - n], end)
          BY <1>3, <2>1, <2>4, <4>1, <4>3
        <5>2. At(p, s) = <<callbacks[s[2] - n]>>
          BY <4>1, <5>1 DEF Call, Callbacks
        <5>q. QED BY <4>1, <5>1, <5>2
      <4>q. QED BY <4>2, <4>3
    <3>q. QED BY <3>1, <3>2 DEF Places
  <2>6. ASSUME NEW s \in Places(q) PROVE s \in Places(p) /\ At(p, s) = At(q, s)
    <3>1. CASE s \in {"pending"} \X Deferred
      BY <2>3, <3>1 DEF At, Places
    <3>2. CASE s \in {"tick"} \X DOMAIN q.ticks
      <4>1. s = <<"tick", s[2]>> /\ s[2] \in 1 .. n + m /\ s[2] <= n
        BY <1>3, <2>1, <3>2
      <4>q. QED BY <2>4, <4>1 DEF At, Places
    <3>q. QED BY <3>1, <3>2 DEF Places
  <2>7. ASSUME NEW k \in 1 .. m
        PROVE  <<"tick", n + k>> \in Places(p) /\ At(p, <<"tick", n + k>>) = <<callbacks[k]>>
    <3>1. n + k \in 1 .. n + m /\ ~ (n + k <= n) /\ (n + k) - n = k
      BY <1>3, <2>1
    <3>2. p.ticks[n + k] = Call(callbacks[k], end)
      BY <2>4, <3>1
    <3>q. QED BY <2>4, <3>1, <3>2 DEF At, Places, Call, Callbacks
  <2>8. Once(p)
    <3> SUFFICES ASSUME NEW s \in Places(p), NEW t \in Places(p),
                        NEW i \in DOMAIN At(p, s), NEW j \in DOMAIN At(p, t), At(p, s)[i] = At(p, t)[j]
                 PROVE  s = t /\ i = j
      BY DEF Once
    <3>1. CASE s \in Places(q) /\ At(p, s) = At(q, s) /\ t \in Places(q) /\ At(p, t) = At(q, t)
      BY <3>1 DEF QueueInv, Once
    <3>2. ASSUME NEW k \in 1 .. m, s = <<"tick", n + k>> /\ At(p, s) = <<callbacks[k]>>,
                 NEW l \in 1 .. m, t = <<"tick", n + l>> /\ At(p, t) = <<callbacks[l]>>
          PROVE  s = t /\ i = j
      <4>1. i = 1 /\ j = 1 /\ callbacks[k] = callbacks[l]
        BY <3>2
      <4>2. k = l
        BY <1>3, <4>1 DEF Distinct
      <4>q. QED BY <3>2, <4>1, <4>2
    <3>3. ASSUME s \in Places(q) /\ At(p, s) = At(q, s), NEW l \in 1 .. m, At(p, t) = <<callbacks[l]>> PROVE FALSE
      <4>1. At(q, s)[i] = callbacks[l]
        BY <3>3
      <4>q. QED BY <1>3, <3>3, <4>1, InWaiting DEF Range
    <3>4. ASSUME t \in Places(q) /\ At(p, t) = At(q, t), NEW l \in 1 .. m, At(p, s) = <<callbacks[l]>> PROVE FALSE
      <4>1. At(q, t)[j] = callbacks[l]
        BY <3>4
      <4>q. QED BY <1>3, <3>4, <4>1, InWaiting DEF Range
    <3>q. QED BY <2>5, <3>1, <3>2, <3>3, <3>4
  <2>9. Waiting(p) = Waiting(q) \cup Range(callbacks)
    <3>1. ASSUME NEW c \in Waiting(p) PROVE c \in Waiting(q) \cup Range(callbacks)
      <4>1. PICK s \in Places(p) : c \in Range(At(p, s))
        BY DEF Waiting
      <4>2. CASE s \in Places(q) /\ At(p, s) = At(q, s)
        BY <4>1, <4>2 DEF Waiting
      <4>3. ASSUME NEW k \in 1 .. m, At(p, s) = <<callbacks[k]>> PROVE c \in Range(callbacks)
        BY <1>3, <4>1, <4>3 DEF Range
      <4>q. QED BY <2>5, <4>2, <4>3
    <3>2. Waiting(q) \subseteq Waiting(p)
      BY <2>6 DEF Waiting
    <3>3. ASSUME NEW c \in Range(callbacks) PROVE c \in Waiting(p)
      <4>1. PICK k \in 1 .. m : c = callbacks[k]
        BY <1>3 DEF Range
      <4>2. 1 \in DOMAIN At(p, <<"tick", n + k>>) /\ At(p, <<"tick", n + k>>)[1] = c
        BY <2>7, <4>1
      <4>q. QED BY <2>7, <4>2, InWaiting
    <3>q. QED BY <3>1, <3>2, <3>3
  <2>10. Placed(p)
    <3>1. ASSUME NEW x \in Deferred, NEW c \in Range(p.pending[x])
          PROVE  p.value[x] = Null /\ Final(p, c.on) = PromiseOf(x)
      BY <1>4, <2>3, <3>1 DEF QueueInv, Placed
    <3>2. ASSUME NEW k \in DOMAIN p.ticks
          PROVE  /\ \A c \in Range(Callbacks(p.ticks[k])) : Final(p, c.on) = Final(p, p.ticks[k].with)
                 /\ p.ticks[k].is = "call" => p.ticks[k].with.is # "promise"
      <4>1. CASE k <= n
        <5>1. k \in DOMAIN q.ticks /\ p.ticks[k] = q.ticks[k]
          BY <2>1, <2>4, <4>1
        <5>q. QED BY <1>4, <2>3, <5>1 DEF QueueInv, Placed
      <4>2. CASE ~ (k <= n)
        <5>1. k - n \in 1 .. m /\ p.ticks[k] = Call(callbacks[k - n], end)
          BY <1>3, <2>1, <2>4, <4>2
        <5>2. Callbacks(p.ticks[k]) = <<callbacks[k - n]>> /\ p.ticks[k].with = end
          BY <5>1 DEF Callbacks, Call
        <5>3. Final(q, end) = end /\ Final(q, callbacks[k - n].on) = end
          BY <1>3, <1>6, <5>1, FinalOfValue DEF Range, end
        <5>4. Final(p, end) = end /\ Final(p, callbacks[k - n].on) = end
          BY <1>4, <2>3, <5>3
        <5>q. QED BY <1>6, <5>2, <5>4 DEF Range
      <4>q. QED BY <4>1, <4>2
    <3>q. QED BY <3>1, <3>2 DEF Placed
  <2>11. Led(p.value)
    BY <2>3 DEF QueueInv
  <2>q. QED BY <2>3, <2>8, <2>9, <2>10, <2>11 DEF QueueInv, p
<1>q. QED BY <1>5, <1>6

LEMMA ThenKeeps ==
    ASSUME NEW C, NEW T, Thenables(C, T), NEW q, QueueInv(q, C, T), NEW th \in T,
           NEW c \in C, c \notin Waiting(q), c.on = th
    PROVE  /\ QueueInv(Then(q, th, c), C, T)
           /\ Waiting(Then(q, th, c)) = Waiting(q) \cup {c}
           /\ Then(q, th, c).value = q.value
<1> DEFINE one == <<c>>
<1>1. one \in Seq(C) /\ Distinct(one) /\ Range(one) = {c} /\ Then(q, th, c) = Hand(q, th, one)
  BY DEF Distinct, Range, Then
<1> HIDE DEF one
<1>2. Range(one) \cap Waiting(q) = {} /\ \A x \in Range(one) : Final(q, x.on) = Final(q, th)
  BY <1>1
<1>3. /\ QueueInv(Hand(q, th, one), C, T)
      /\ Waiting(Hand(q, th, one)) = Waiting(q) \cup Range(one)
      /\ Hand(q, th, one).value = q.value
  BY <1>1, <1>2, HandKeeps
<1>q. QED BY <1>1, <1>3

\* A flush hands its callbacks on.
LEMMA FlushKeeps ==
    ASSUME NEW C, NEW T, Thenables(C, T), NEW q, QueueInv(q, C, T), q.ticks # <<>>,
           Head(q.ticks).is = "flush"
    PROVE  /\ QueueInv(Flush(Popped(q), Head(q.ticks)), C, T)
           /\ Waiting(Flush(Popped(q), Head(q.ticks))) = Waiting(q)
           /\ Flush(Popped(q), Head(q.ticks)).value = q.value
<1> DEFINE h == Head(q.ticks)
           p == Popped(q)
<1>1. /\ QueueInv(p, C, T) /\ p.value = q.value
      /\ h = q.ticks[1] /\ 1 \in DOMAIN q.ticks /\ h \in Tasks(C, T)
      /\ Distinct(Callbacks(h)) /\ Range(Callbacks(h)) \subseteq Waiting(q)
      /\ Waiting(p) = Waiting(q) \ Range(Callbacks(h))
  BY PopKeeps
<1>2. Callbacks(h) = h.callbacks /\ h.callbacks \in Seq(C) /\ h.with \in T
  BY <1>1, TaskFacts DEF Callbacks
<1>3. \A c \in Range(h.callbacks) : Final(p, c.on) = Final(p, h.with)
  <2>1. \A c \in Range(h.callbacks) : Final(q, c.on) = Final(q, h.with)
    BY <1>1, <1>2 DEF QueueInv, Placed
  <2>q. QED BY <1>1, <2>1, FinalByValue
<1> HIDE DEF p, h
<1>4. /\ QueueInv(Hand(p, h.with, h.callbacks), C, T)
      /\ Waiting(Hand(p, h.with, h.callbacks)) = Waiting(p) \cup Range(h.callbacks)
      /\ Hand(p, h.with, h.callbacks).value = p.value
  BY <1>1, <1>2, <1>3, HandKeeps
<1>q. QED BY <1>1, <1>2, <1>4 DEF Flush, h, p

\* A call takes its callback from the queue; what it is called with is what it was added to.
LEMMA CallTaken ==
    ASSUME NEW C, NEW T, Thenables(C, T), NEW q, QueueInv(q, C, T), q.ticks # <<>>,
           Head(q.ticks).is = "call"
    PROVE  LET c == Head(q.ticks).callback
               with == Head(q.ticks).with
           IN /\ c \in C /\ with \in T /\ with.is # "promise" /\ Final(q, c.on) = with
              /\ QueueInv(Popped(q), C, T) /\ Popped(q).value = q.value
              /\ c \in Waiting(q) /\ Waiting(Popped(q)) = Waiting(q) \ {c}
<1> DEFINE h == Head(q.ticks)
<1>1. /\ QueueInv(Popped(q), C, T) /\ Popped(q).value = q.value
      /\ h = q.ticks[1] /\ 1 \in DOMAIN q.ticks /\ h \in Tasks(C, T)
      /\ Range(Callbacks(h)) \subseteq Waiting(q)
      /\ Waiting(Popped(q)) = Waiting(q) \ Range(Callbacks(h))
  BY PopKeeps
<1>2. h.callback \in C /\ h.with \in T
  BY <1>1, TaskFacts
<1>3. Range(Callbacks(h)) = {h.callback}
  BY DEF Callbacks, Range
<1>4. h.with.is # "promise" /\ Final(q, h.callback.on) = Final(q, h.with)
  BY <1>1, <1>3 DEF QueueInv, Placed
<1>5. Final(q, h.with) = h.with
  BY <1>4, FinalOfValue
<1>q. QED BY <1>1, <1>2, <1>3, <1>4, <1>5
==============================================================================
