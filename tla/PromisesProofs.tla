---------------------------- MODULE PromisesProofs ----------------------------
(* The promises of $q keep what they promise, whatever the application makes  *)
(* of them: any number of deferreds, callbacks and calls of all.              *)
EXTENDS Promises, QueueProofs

------------------------------------------------------------------------------
(* The inductive invariant.                                                   *)

Thing ==
    {ValueOf(x) : x \in {0, 1, 2}} \cup {Reject(x) : x \in {0, 1, 2}} \cup {PromiseOf(d) : d \in Chainable}
Listener ==
    [is : {"user"}, result : Chainable, on : {PromiseOf(d) : d \in Chainable}]
      \cup [is : {"all"}, group : Group, index : {1, 2}, on : {PromiseOf(d) : d \in Chainable}]

\* The callbacks that ran are over, and each ran with what its promise came to.
RanOver ==
    /\ ran \in Seq([callback : Listener, with : Thing])
    /\ \A i, j \in DOMAIN ran : ran[i].callback = ran[j].callback => i = j
    /\ \A i \in DOMAIN ran :
           /\ ran[i].callback \in chained \ Waiting(promises)
           /\ ran[i].with = Final(promises, ran[i].callback.on) /\ ran[i].with.is # "promise"

\* A callback of then waits until it runs.
NoneLost ==
    \A c \in chained :
        /\ c \in Listener /\ c.is = "user"
        /\ c \in Waiting(promises) \/ \E i \in DOMAIN ran : ran[i].callback = c

Part(g, i) == [is |-> "all", group |-> g, index |-> i, on |-> PromiseOf(joined[g].on[i])]

\* Nothing waits but what then and all added.
Known ==
    \A c \in Waiting(promises) :
        /\ c.is = "user" => c \in chained
        /\ c.is = "all" => c.group \in DOMAIN joined /\ c = Part(c.group, c.index)

\* The parts of a call of all that are not missing came to values; the others wait, but for those
\* that were rejected. Only all resolves its deferred.
Parted(g) ==
    LET j == joined[g]
        result == promises.value[j.result]
        part(i) == Final(promises, PromiseOf(j.on[i]))
    IN /\ j \in [on : Chainable \X Chainable, missing : SUBSET {1, 2}, result : Chainable]
       /\ \A c \in chained : c.result # j.result
       /\ \A h \in DOMAIN joined : h # g => joined[h].result # j.result
       /\ \A i \in {1, 2} :
              /\ i \notin j.missing => part(i).is = "value"
              /\ i \in j.missing => Part(g, i) \in Waiting(promises) \/ (part(i).is = "rejection" /\ result # Null)
       /\ result = Null => j.missing # {}
       /\ result # Null => \/ result.is = "value" /\ j.missing = {}
                           \/ result.is = "rejection" /\ \E i \in {1, 2} : part(i).is = "rejection"

PromisesInv ==
    /\ QueueInv(promises, Listener, Thing)
    /\ RanOver /\ NoneLost /\ Known
    /\ DOMAIN joined \subseteq Group /\ \A g \in DOMAIN joined : Parted(g)

LEMMA Things ==
    /\ Thenables(Listener, Thing)
    /\ \A x \in {0, 1, 2} : ValueOf(x) \in Thing /\ Reject(x) \in Thing
    /\ \A d \in Chainable : PromiseOf(d) \in Thing /\ d \in Deferred
<1>1. \A th \in Thing : Thenable(th)
  <2> SUFFICES ASSUME NEW th \in Thing PROVE Thenable(th)
    OBVIOUS
  <2>1. CASE th \in {ValueOf(x) : x \in {0, 1, 2}}
    BY <2>1, PromisesAssumption DEF Thenable, ValueOf
  <2>2. CASE th \in {Reject(x) : x \in {0, 1, 2}}
    BY <2>2, PromisesAssumption DEF Thenable, Reject
  <2>3. CASE th \in {PromiseOf(d) : d \in Chainable}
    BY <2>3, PromisesAssumption DEF Thenable
  <2>q. QED BY <2>1, <2>2, <2>3 DEF Thing
<1>2. \A c \in Listener : c.on \in Thing
  BY DEF Listener, Thing
<1>q. QED BY <1>1, <1>2, PromisesAssumption DEF Thing, Thenables

\* What something has come to that is no promise stays.
Firm(p, q) == \A t \in Thing : Final(q, t).is # "promise" => Final(p, t) = Final(q, t)

LEMMA FirmByValue ==
    ASSUME NEW p, NEW q, p.value = q.value
    PROVE  Firm(p, q)
BY FinalByValue DEF Firm

\* What ran stays over as long as nothing old is waited for again.
LEMMA RanStays ==
    ASSUME PromisesInv, Firm(promises', promises), chained \subseteq chained',
           \A c \in chained : c \in Waiting(promises') => c \in Waiting(promises)
    PROVE  \A i \in DOMAIN ran :
               /\ ran[i].callback \in chained' \ Waiting(promises')
               /\ ran[i].with = Final(promises', ran[i].callback.on) /\ ran[i].with.is # "promise"
<1> SUFFICES ASSUME NEW i \in DOMAIN ran
             PROVE  /\ ran[i].callback \in chained' \ Waiting(promises')
                    /\ ran[i].with = Final(promises', ran[i].callback.on) /\ ran[i].with.is # "promise"
  OBVIOUS
<1>1. /\ ran[i].callback \in chained \ Waiting(promises)
      /\ ran[i].with = Final(promises, ran[i].callback.on) /\ ran[i].with.is # "promise"
  BY DEF PromisesInv, RanOver
<1>2. ran[i].callback \in Listener
  BY <1>1 DEF PromisesInv, NoneLost
<1>3. Final(promises', ran[i].callback.on) = Final(promises, ran[i].callback.on)
  BY <1>1, <1>2, Things DEF Firm, Thenables
<1>q. QED BY <1>1, <1>3

LEMMA RanSame ==
    ASSUME PromisesInv, Firm(promises', promises), chained \subseteq chained', ran' = ran,
           \A c \in chained : c \in Waiting(promises') => c \in Waiting(promises)
    PROVE  RanOver'
BY RanStays DEF PromisesInv, RanOver, Listener, Thing

\* A call of all stays as it is when its deferred does, and its callbacks wait.
LEMMA PartedStays ==
    ASSUME PromisesInv, Firm(promises', promises), NEW g \in DOMAIN joined, g \in DOMAIN joined',
           joined'[g] = joined[g], promises'.value[joined[g].result] = promises.value[joined[g].result],
           \A i \in joined[g].missing : Part(g, i) \in Waiting(promises) => Part(g, i) \in Waiting(promises'),
           \A c \in chained' : c \in chained \/ c.result # joined[g].result,
           \A h \in DOMAIN joined' : h # g =>
               (h \in DOMAIN joined /\ joined'[h].result = joined[h].result) \/ joined'[h].result # joined[g].result
    PROVE  Parted(g)'
<1> DEFINE j == joined[g]
<1>1. Parted(g)
  BY DEF PromisesInv
<1>2. j \in [on : Chainable \X Chainable, missing : SUBSET {1, 2}, result : Chainable]
  BY <1>1 DEF Parted
<1>3. \A i \in {1, 2} : PromiseOf(j.on[i]) \in Thing
  BY <1>2, Things
<1>4. \A i \in {1, 2} : Final(promises, PromiseOf(j.on[i])).is # "promise" =>
          Final(promises', PromiseOf(j.on[i])) = Final(promises, PromiseOf(j.on[i]))
  BY <1>3 DEF Firm
<1>5. \A i : Part(g, i)' = Part(g, i)
  BY DEF Part, PromiseOf
<1>q. QED BY <1>1, <1>4, <1>5 DEF Parted, PromiseOf

\* A step that only moves callbacks keeps all of this.
LEMMA MovesKeep ==
    ASSUME PromisesInv, QueueInv(promises', Listener, Thing), Firm(promises', promises),
           Waiting(promises') = Waiting(promises), UNCHANGED <<chained, ran, joined>>,
           \A g \in DOMAIN joined : promises'.value[joined[g].result] = promises.value[joined[g].result]
    PROVE  PromisesInv'
<1>1. RanOver'
  BY RanSame
<1>2. NoneLost' /\ Known'
  BY DEF PromisesInv, NoneLost, Known, Part, Listener, Thing, PromiseOf
<1>3. ASSUME NEW g \in DOMAIN joined' PROVE Parted(g)'
  <2>1. g \in DOMAIN joined /\ joined' = joined /\ chained' = chained
    OBVIOUS
  <2>q. QED BY <2>1, PartedStays
<1>4. QueueInv(promises, Listener, Thing)' /\ (DOMAIN joined \subseteq Group)'
  BY DEF PromisesInv, Listener, Thing, PromiseOf
<1>q. QED BY <1>1, <1>2, <1>3, <1>4 DEF PromisesInv

\* resolve, by the application.
LEMMA SettleKeeps ==
    ASSUME PromisesInv, NEW d \in Chainable,
           NEW th \in {ValueOf(1), Reject(1)} \cup {PromiseOf(e) : e \in Chainable}, Settle(d, th)
    PROVE  PromisesInv'
<1>1. th \in Thing /\ d \in Deferred
  BY Things
<1>2. /\ d \notin Used /\ promises' = Resolve(promises, d, th) /\ Final(promises, th) # PromiseOf(d)
      /\ UNCHANGED <<chained, ran, joined>>
  BY DEF Settle, Follows
<1>3. QueueInv(promises, Listener, Thing) /\ Thenables(Listener, Thing)
  BY Things DEF PromisesInv
<1>4. /\ QueueInv(promises', Listener, Thing) /\ Waiting(promises') = Waiting(promises)
      /\ \A x \in Deferred : x # d => promises'.value[x] = promises.value[x]
      /\ \A t \in Thing : Final(promises', t) =
             IF Final(promises, t) = PromiseOf(d) THEN Final(promises, th) ELSE Final(promises, t)
  BY <1>1, <1>2, <1>3, ResolveKeeps
<1>5. Firm(promises', promises)
  BY <1>4, OnePromise DEF Firm
<1>6. \A g \in DOMAIN joined : joined[g].result \in Deferred /\ joined[g].result # d
  BY <1>2, Things DEF Used, PromisesInv, Parted
<1>q. QED BY <1>2, <1>4, <1>5, <1>6, MovesKeep

LEMMA AddThenKeeps ==
    ASSUME PromisesInv, NEW d \in Chainable, NEW r \in Chainable, AddThen(d, r)
    PROVE  PromisesInv'
<1> DEFINE c == [is |-> "user", result |-> r, on |-> PromiseOf(d)]
<1>1. /\ r \notin Used /\ promises' = Then(promises, PromiseOf(d), c)
      /\ chained' = chained \cup {c} /\ UNCHANGED <<ran, joined>>
  BY DEF AddThen, Made, Fresh
<1>2. c \in Listener /\ c \notin chained /\ c.is = "user" /\ PromiseOf(d) \in Thing
  BY <1>1, Things DEF Listener, Used
<1>3. QueueInv(promises, Listener, Thing) /\ Thenables(Listener, Thing)
  BY Things DEF PromisesInv
<1>4. c \notin Waiting(promises)
  BY <1>2 DEF PromisesInv, Known
<1>5. /\ QueueInv(promises', Listener, Thing) /\ Waiting(promises') = Waiting(promises) \cup {c}
      /\ promises'.value = promises.value
  <2>1. c.on = PromiseOf(d)
    OBVIOUS
  <2> HIDE DEF c
  <2>q. QED BY <1>1, <1>2, <1>3, <1>4, <2>1, ThenKeeps
<1>6. Firm(promises', promises)
  BY <1>5, FirmByValue
<1> HIDE DEF c
<1>7. RanOver'
  BY <1>1, <1>2, <1>5, <1>6, RanSame
<1>8. NoneLost' /\ Known'
  BY <1>1, <1>2, <1>5 DEF PromisesInv, NoneLost, Known, Part, Listener, Thing, PromiseOf
<1>9. ASSUME NEW g \in DOMAIN joined' PROVE Parted(g)'
  <2>1. g \in DOMAIN joined /\ joined' = joined
    BY <1>1
  <2>2. c.result # joined[g].result
    BY <1>1, <2>1 DEF c, Used
  <2>q. QED BY <1>1, <1>5, <1>6, <2>1, <2>2, PartedStays
<1>10. QueueInv(promises, Listener, Thing)' /\ (DOMAIN joined \subseteq Group)'
  BY <1>1, <1>5 DEF PromisesInv, Listener, Thing, PromiseOf
<1>q. QED BY <1>7, <1>8, <1>9, <1>10 DEF PromisesInv

\* A tick that hands callbacks on.
LEMMA FlushTickKeeps ==
    ASSUME PromisesInv, promises.ticks # <<>>, Head(promises.ticks).is = "flush",
           promises' = Flush(Popped(promises), Head(promises.ticks)), UNCHANGED <<chained, ran, joined>>
    PROVE  PromisesInv'
<1>1. QueueInv(promises, Listener, Thing) /\ Thenables(Listener, Thing)
  BY Things DEF PromisesInv
<1>2. /\ QueueInv(promises', Listener, Thing) /\ Waiting(promises') = Waiting(promises)
      /\ promises'.value = promises.value
  BY <1>1, FlushKeeps
<1>3. Firm(promises', promises)
  BY <1>2, FirmByValue
<1>q. QED BY <1>2, <1>3, MovesKeep

\* $q.all.
LEMMA AllKeeps ==
    ASSUME PromisesInv, NEW g \in Group, NEW d1 \in Chainable, NEW d2 \in Chainable, NEW r \in Chainable,
           All(g, d1, d2, r)
    PROVE  PromisesInv'
<1> DEFINE part(i, d) == [is |-> "all", group |-> g, index |-> i, on |-> PromiseOf(d)]
           a == part(1, d1)
           b == part(2, d2)
           p == Then(promises, PromiseOf(d1), a)
<1>1. /\ g \notin DOMAIN joined /\ r \in Fresh
      /\ joined' = [h \in DOMAIN joined \cup {g} |->
             IF h = g THEN [on |-> <<d1, d2>>, missing |-> {1, 2}, result |-> r] ELSE joined[h]]
      /\ promises' = Then(p, PromiseOf(d2), b)
      /\ UNCHANGED <<chained, ran>>
  BY DEF All, Made
<1>2. /\ a \in Listener /\ b \in Listener /\ a # b /\ a.on = PromiseOf(d1) /\ b.on = PromiseOf(d2)
      /\ PromiseOf(d1) \in Thing /\ PromiseOf(d2) \in Thing
      /\ a.is = "all" /\ b.is = "all" /\ a.group = g /\ b.group = g /\ a.index = 1 /\ b.index = 2
  BY Things DEF Listener
<1>3. QueueInv(promises, Listener, Thing) /\ Thenables(Listener, Thing)
  BY Things DEF PromisesInv
<1>4. a \notin Waiting(promises) /\ b \notin Waiting(promises)
  BY <1>1, <1>2 DEF PromisesInv, Known
<1>5. /\ QueueInv(promises', Listener, Thing) /\ Waiting(promises') = Waiting(promises) \cup {a, b}
      /\ promises'.value = promises.value
  <2> HIDE DEF a, b
  <2>1. QueueInv(p, Listener, Thing) /\ Waiting(p) = Waiting(promises) \cup {a} /\ p.value = promises.value
    BY <1>2, <1>3, <1>4, ThenKeeps
  <2> HIDE DEF p
  <2>2. b \notin Waiting(p)
    BY <1>2, <1>4, <2>1
  <2>3. /\ QueueInv(promises', Listener, Thing) /\ Waiting(promises') = Waiting(p) \cup {b}
        /\ promises'.value = p.value
    BY <1>1, <1>2, <1>3, <2>1, <2>2, ThenKeeps
  <2>q. QED BY <2>1, <2>3
<1>6. Firm(promises', promises)
  BY <1>5, FirmByValue
<1>7. \A c \in chained : c \in Waiting(promises') => c \in Waiting(promises)
  BY <1>2, <1>5 DEF PromisesInv, NoneLost
<1>8. RanOver'
  BY <1>1, <1>6, <1>7, RanSame
<1>9. NoneLost'
  BY <1>1, <1>5 DEF PromisesInv, NoneLost, Listener, PromiseOf
<1>10. /\ DOMAIN joined' = DOMAIN joined \cup {g} /\ \A h \in DOMAIN joined : joined'[h] = joined[h]
       /\ joined'[g] = [on |-> <<d1, d2>>, missing |-> {1, 2}, result |-> r]
  BY <1>1
<1>11. Part(g, 1)' = a /\ Part(g, 2)' = b
  BY <1>10 DEF Part, PromiseOf
<1>12. Known'
  <2> SUFFICES ASSUME NEW c \in Waiting(promises')
               PROVE  /\ c.is = "user" => c \in chained'
                      /\ c.is = "all" => c.group \in DOMAIN joined' /\ c = Part(c.group, c.index)'
    BY DEF Known
  <2>1. CASE c \in Waiting(promises)
    <3>1. ASSUME c.is = "all" PROVE c.group \in DOMAIN joined /\ c = Part(c.group, c.index)
      BY <2>1, <3>1 DEF PromisesInv, Known
    <3>2. ASSUME c.is = "all" PROVE Part(c.group, c.index)' = Part(c.group, c.index)
      BY <1>10, <3>1, <3>2 DEF Part, PromiseOf
    <3>q. QED BY <1>1, <1>10, <2>1, <3>1, <3>2 DEF PromisesInv, Known
  <2>2. CASE c \in {a, b}
    <3> HIDE DEF a, b
    <3>q. QED BY <1>2, <1>10, <1>11, <2>2
  <2>q. QED BY <1>5, <2>1, <2>2
<1>13. Parted(g)'
  <2> HIDE DEF a, b, p
  <2>1. promises'.value[r] = Null /\ r \notin Used
    BY <1>1, <1>5 DEF Fresh
  <2>2. <<d1, d2>> \in Chainable \X Chainable
    OBVIOUS
  <2>3. \A c \in chained' : c.result # r
    BY <1>1, <2>1 DEF Used
  <2>4. \A h \in DOMAIN joined' : h # g => joined'[h].result # r
    BY <1>10, <2>1 DEF Used
  <2>5. Part(g, 1)' \in Waiting(promises') /\ Part(g, 2)' \in Waiting(promises')
    BY <1>5, <1>11
  <2>q. QED BY <1>10, <2>1, <2>2, <2>3, <2>4, <2>5 DEF Parted, PromiseOf
<1>14. ASSUME NEW h \in DOMAIN joined PROVE Parted(h)'
  <2> HIDE DEF a, b, p
  <2>1. joined'[h] = joined[h] /\ h \in DOMAIN joined'
    BY <1>10
  <2>2. joined'[g].result # joined[h].result
    BY <1>1, <1>10 DEF Fresh, Used
  <2>q. QED BY <1>1, <1>5, <1>6, <1>10, <2>1, <2>2, PartedStays
<1>15. QueueInv(promises, Listener, Thing)' /\ (DOMAIN joined \subseteq Group)'
  BY <1>5, <1>10 DEF PromisesInv, Listener, Thing, PromiseOf
<1>q. QED BY <1>8, <1>9, <1>10, <1>12, <1>13, <1>14, <1>15 DEF PromisesInv
\* A callback of then runs.
LEMMA RunThenKeeps ==
    ASSUME PromisesInv, promises.ticks # <<>>, Head(promises.ticks).is = "call",
           Head(promises.ticks).callback.is = "user",
           RunThen(Head(promises.ticks).callback, Head(promises.ticks).with)
    PROVE  PromisesInv'
<1> DEFINE c == Head(promises.ticks).callback
           with == Head(promises.ticks).with
           p == Popped(promises)
<1>1. QueueInv(promises, Listener, Thing) /\ Thenables(Listener, Thing)
  BY Things DEF PromisesInv
<1>2. /\ c \in Listener /\ with \in Thing /\ with.is # "promise" /\ Final(promises, c.on) = with
      /\ QueueInv(p, Listener, Thing) /\ p.value = promises.value
      /\ c \in Waiting(promises) /\ Waiting(p) = Waiting(promises) \ {c}
  BY <1>1, CallTaken
<1>3. PICK th \in {with, IF with.is = "value" THEN Reject(0) ELSE ValueOf(0)}
                      \cup {PromiseOf(d) : d \in Chainable \ Used} :
          /\ ~Follows(c.result, th)
          /\ promises' = Resolve(p, c.result, th)
  BY DEF RunThen
<1>4. /\ ran' = Append(ran, [callback |-> c, with |-> with]) /\ UNCHANGED <<chained, joined>>
      /\ c.is = "user"
  BY DEF RunThen
<1> HIDE DEF c, with, p
<1>5. th \in Thing
  <2>1. ValueOf(0) \in Thing /\ Reject(0) \in Thing
    BY Things
  <2>q. QED BY <1>2, <2>1, Things
<1>6. /\ c \in chained /\ c.result \in Chainable /\ c.result \in Deferred
  BY <1>2, <1>4, Things DEF PromisesInv, Known, Listener
<1>7. Final(p, th) # PromiseOf(c.result)
  BY <1>2, <1>3, FinalByValue DEF Follows
<1>8. /\ QueueInv(promises', Listener, Thing) /\ Waiting(promises') = Waiting(p)
      /\ \A x \in Deferred : x # c.result => promises'.value[x] = promises.value[x]
      /\ \A t \in Thing : Final(promises', t) =
             IF Final(p, t) = PromiseOf(c.result) THEN Final(p, th) ELSE Final(p, t)
  BY <1>1, <1>2, <1>3, <1>5, <1>6, <1>7, ResolveKeeps
<1>9. Firm(promises', promises)
  BY <1>2, <1>8, OnePromise, FinalByValue DEF Firm
<1>10. RanOver'
  <2> DEFINE e == [callback |-> c, with |-> with]
             n == Len(ran)
  <2>1. /\ ran \in Seq([callback : Listener, with : Thing]) /\ e \in [callback : Listener, with : Thing]
        /\ e.callback = c /\ e.with = with
    BY <1>2 DEF PromisesInv, RanOver
  <2>2. ran' = Append(ran, e)
    BY <1>4
  <2> HIDE DEF e
  <2>3. /\ ran' \in Seq([callback : Listener, with : Thing]) /\ DOMAIN ran' = 1 .. n + 1
        /\ DOMAIN ran = 1 .. n /\ n \in Nat
        /\ \A i \in 1 .. n : ran'[i] = ran[i] /\ i \in DOMAIN ran
        /\ ran'[n + 1] = e
    BY <2>1, <2>2
  <2>4. \A i \in 1 .. n : /\ ran[i].callback \in chained' \ Waiting(promises')
                          /\ ran[i].with = Final(promises', ran[i].callback.on) /\ ran[i].with.is # "promise"
    BY <1>2, <1>4, <1>8, <1>9, <2>3, RanStays
  <2>5. \A i \in 1 .. n : ran[i].callback # c
    BY <1>2, <2>3 DEF PromisesInv, RanOver
  <2>6. with = Final(promises', c.on)
    BY <1>1, <1>2, <1>9 DEF Firm, Thenables
  <2>7. \A i \in 1 .. n + 1 : i \in 1 .. n \/ i = n + 1
    BY <2>3
  <2>8. \A i, j \in DOMAIN ran' : ran'[i].callback = ran'[j].callback => i = j
    <3>1. \A i, j \in 1 .. n : ran[i].callback = ran[j].callback => i = j
      BY <2>3 DEF PromisesInv, RanOver
    <3>q. QED BY <2>1, <2>3, <2>5, <2>7, <3>1
  <2>9. \A i \in DOMAIN ran' :
            /\ ran'[i].callback \in chained' \ Waiting(promises')
            /\ ran'[i].with = Final(promises', ran'[i].callback.on) /\ ran'[i].with.is # "promise"
    <3>1. c \in chained' \ Waiting(promises')
      BY <1>2, <1>4, <1>6, <1>8
    <3>q. QED BY <1>2, <2>1, <2>3, <2>4, <2>6, <2>7, <3>1
  <2>q. QED BY <2>3, <2>8, <2>9 DEF RanOver, Listener, Thing, PromiseOf
<1>11. NoneLost'
  <2>1. ran \in Seq([callback : Listener, with : Thing])
    BY DEF PromisesInv, RanOver
  <2>2. /\ \A i \in DOMAIN ran : i \in DOMAIN ran' /\ ran'[i] = ran[i]
        /\ Len(ran) + 1 \in DOMAIN ran' /\ ran'[Len(ran) + 1].callback = c
    BY <1>4, <2>1
  <2> SUFFICES ASSUME NEW b \in chained
               PROVE  /\ b \in Listener /\ b.is = "user"
                      /\ b \in Waiting(promises') \/ \E i \in DOMAIN ran' : ran'[i].callback = b
    BY <1>4 DEF NoneLost, Listener, PromiseOf
  <2>3. /\ b \in Listener /\ b.is = "user"
        /\ b \in Waiting(promises) \/ \E i \in DOMAIN ran : ran[i].callback = b
    BY DEF PromisesInv, NoneLost
  <2>q. QED BY <1>2, <1>8, <2>2, <2>3
<1>12. Known'
  BY <1>2, <1>4, <1>8 DEF PromisesInv, Known, Part, PromiseOf
<1>13. ASSUME NEW g \in DOMAIN joined' PROVE Parted(g)'
  <2>1. g \in DOMAIN joined /\ joined' = joined /\ chained' = chained
    BY <1>4
  <2>2. joined[g].result # c.result /\ joined[g].result \in Deferred
    BY <1>6, <2>1, Things DEF PromisesInv, Parted
  <2>3. \A i : Part(g, i) # c
    BY <1>4 DEF Part
  <2>q. QED BY <1>2, <1>8, <1>9, <2>1, <2>2, <2>3, PartedStays
<1>14. QueueInv(promises, Listener, Thing)' /\ (DOMAIN joined \subseteq Group)'
  BY <1>4, <1>8 DEF PromisesInv, Listener, Thing, PromiseOf
<1>q. QED BY <1>10, <1>11, <1>12, <1>13, <1>14 DEF PromisesInv
\* A callback of all runs.
LEMMA RunAllKeeps ==
    ASSUME PromisesInv, promises.ticks # <<>>, Head(promises.ticks).is = "call",
           NEW c, c = Head(promises.ticks).callback, c.is = "all",
           NEW with, with = Head(promises.ticks).with, RunAll(c, with)
    PROVE  PromisesInv'
<1> DEFINE p == Popped(promises)
           g == c.group
           j == joined[g]
           missing == j.missing \ {c.index}
           part(i) == Final(promises, PromiseOf(j.on[i]))
           result == promises.value[j.result]
<1>1. QueueInv(promises, Listener, Thing) /\ Thenables(Listener, Thing)
  BY Things DEF PromisesInv
<1>2. /\ c \in Listener /\ with \in Thing /\ with.is # "promise" /\ Final(promises, c.on) = with
      /\ QueueInv(p, Listener, Thing) /\ p.value = promises.value
      /\ c \in Waiting(promises) /\ Waiting(p) = Waiting(promises) \ {c}
  BY <1>1, CallTaken
<1>3. /\ c.is = "all" /\ UNCHANGED <<chained, ran>>
      /\ IF with.is = "rejection"
         THEN promises' = Resolve(p, j.result, with) /\ joined' = joined
         ELSE /\ joined' = [joined EXCEPT ![g].missing = missing]
              /\ promises' = IF missing = {} THEN Resolve(p, j.result, ValueOf(2)) ELSE p
  BY DEF RunAll
<1> HIDE DEF p
<1>4. g \in DOMAIN joined /\ c = Part(g, c.index) /\ c.index \in {1, 2}
  BY <1>2, <1>3 DEF PromisesInv, Known, Listener
<1>5. /\ Parted(g) /\ j.result \in Chainable /\ j.result \in Deferred
      /\ j \in [on : Chainable \X Chainable, missing : SUBSET {1, 2}, result : Chainable]
      /\ \A h \in DOMAIN joined : h # g => joined[h].result # j.result
  BY <1>4, Things DEF PromisesInv, Parted
<1>6. part(c.index) = with /\ Thenable(with)
  BY <1>1, <1>2, <1>4 DEF Part, Thenables
<1>7. /\ DOMAIN joined' = DOMAIN joined
      /\ joined'[g] = [j EXCEPT !.missing = IF with.is = "rejection" THEN j.missing ELSE missing]
      /\ \A h \in DOMAIN joined : h # g => joined'[h] = joined[h]
  BY <1>3, <1>4, <1>5
<1> HIDE DEF missing
\* The deferred is resolved, at most.
<1>8. /\ QueueInv(promises', Listener, Thing) /\ Waiting(promises') = Waiting(p)
      /\ \A x \in Deferred : x # j.result => promises'.value[x] = promises.value[x]
      /\ promises'.value[j.result] = IF result # Null THEN result
                                     ELSE IF with.is = "rejection" THEN with
                                     ELSE IF missing = {} THEN ValueOf(2) ELSE Null
      /\ Firm(promises', promises)
  <2>1. CASE with.is # "rejection" /\ missing # {}
    <3>1. promises' = p
      BY <1>3, <2>1
    <3>q. QED BY <1>2, <2>1, <3>1, FirmByValue
  <2>2. CASE with.is = "rejection" \/ missing = {}
    <3> DEFINE th == IF with.is = "rejection" THEN with ELSE ValueOf(2)
    <3>1. promises' = Resolve(p, j.result, th)
      BY <1>3, <2>2
    <3>2. th \in Thing /\ th.is # "promise"
      BY <1>2, Things, OnePromise
    <3> HIDE DEF th
    <3>3. Final(p, th) # PromiseOf(j.result)
      BY <3>2, FinalOfValue, OnePromise
    <3> DEFINE d == j.result
    <3> HIDE DEF d
    <3>4. /\ promises' = Resolve(p, d, th) /\ d \in Deferred /\ Final(p, th) # PromiseOf(d)
      BY <1>5, <3>1, <3>3 DEF d
    <3>5. /\ QueueInv(promises', Listener, Thing) /\ Waiting(promises') = Waiting(p)
          /\ \A x \in Deferred : promises'.value[x] =
                 IF x = d /\ p.value[d] = Null THEN th ELSE p.value[x]
          /\ \A t \in Thing : Final(promises', t) =
                 IF Final(p, t) = PromiseOf(d) THEN Final(p, th) ELSE Final(p, t)
      BY <1>1, <1>2, <3>2, <3>4, ResolveKeeps
    <3>6. Firm(promises', promises)
      BY <1>2, <3>5, OnePromise, FinalByValue DEF Firm
    <3>q. QED BY <1>2, <1>5, <2>2, <3>5, <3>6 DEF th, d
  <2>q. QED BY <2>1, <2>2
<1> HIDE DEF g
<1>9. RanOver'
  BY <1>2, <1>3, <1>8, RanSame
<1>10. NoneLost'
  <2>1. \A b \in chained : b # c
    BY <1>3 DEF PromisesInv, NoneLost
  <2>q. QED BY <1>2, <1>3, <1>8, <2>1 DEF PromisesInv, NoneLost, Listener, PromiseOf
<1>11. \A h \in DOMAIN joined : joined'[h].on = joined[h].on /\ joined'[h].result = joined[h].result
  BY <1>5, <1>7
<1>12. \A h \in DOMAIN joined : \A i : Part(h, i)' = Part(h, i)
  BY <1>11 DEF Part, PromiseOf
<1>13. Known'
  <2> SUFFICES ASSUME NEW b \in Waiting(promises')
               PROVE  /\ b.is = "user" => b \in chained'
                      /\ b.is = "all" => b.group \in DOMAIN joined' /\ b = Part(b.group, b.index)'
    BY DEF Known
  <2>1. b \in Waiting(promises)
    BY <1>2, <1>8
  <2>2. ASSUME b.is = "all" PROVE b.group \in DOMAIN joined /\ b = Part(b.group, b.index)
    BY <2>1, <2>2 DEF PromisesInv, Known
  <2>3. ASSUME b.is = "all" PROVE b.group \in DOMAIN joined' /\ b = Part(b.group, b.index)'
    BY <1>7, <1>12, <2>2, <2>3
  <2>q. QED BY <1>3, <2>1, <2>3 DEF PromisesInv, Known
<1>14. Parted(g)'
  <2> DEFINE j1 == joined'[g]
             part1(i) == Final(promises', PromiseOf(j1.on[i]))
             result1 == promises'.value[j1.result]
  <2>1. /\ j1 \in [on : Chainable \X Chainable, missing : SUBSET {1, 2}, result : Chainable]
        /\ j1.on = j.on /\ j1.result = j.result
        /\ j1.missing = IF with.is = "rejection" THEN j.missing ELSE missing
    BY <1>5, <1>7 DEF missing
  <2>2. /\ \A b \in chained' : b.result # j1.result
        /\ \A h \in DOMAIN joined' : h # g => joined'[h].result # j1.result
    BY <1>3, <1>5, <1>7, <2>1 DEF Parted
  <2>3. \A i \in {1, 2} : part(i).is # "promise" => part1(i) = part(i)
    <3>1. \A i \in {1, 2} : PromiseOf(j.on[i]) \in Thing
      BY <1>5, Things
    <3>q. QED BY <1>8, <2>1, <3>1 DEF Firm
  <2>4. /\ \A i \in {1, 2} : /\ i \notin j.missing => part(i).is = "value"
                             /\ i \in j.missing => Part(g, i) \in Waiting(promises)
                                                   \/ (part(i).is = "rejection" /\ result # Null)
        /\ result = Null => j.missing # {}
        /\ result # Null => \/ result.is = "value" /\ j.missing = {}
                            \/ result.is = "rejection" /\ \E i \in {1, 2} : part(i).is = "rejection"
    BY <1>5 DEF Parted
  <2>5. /\ result1 = IF result # Null THEN result ELSE IF with.is = "rejection" THEN with
                     ELSE IF missing = {} THEN ValueOf(2) ELSE Null
        /\ with.is \in {"value", "rejection"} /\ with # Null
        /\ ValueOf(2).is = "value" /\ ValueOf(2) # Null
    BY <1>2, <1>6, <1>8, <2>1, OnePromise, PromisesAssumption DEF Thenable
  <2>6. \A i \in {1, 2} : i # c.index => Part(g, i) # c
    BY <1>4 DEF Part
  <2>7. \A i \in {1, 2} : i \notin j1.missing => part1(i).is = "value"
    BY <1>6, <2>1, <2>3, <2>4, <2>5 DEF missing
  <2>8. \A i \in {1, 2} : i \in j1.missing =>
            Part(g, i)' \in Waiting(promises') \/ (part1(i).is = "rejection" /\ result1 # Null)
    <3> SUFFICES ASSUME NEW i \in {1, 2}, i \in j1.missing
                 PROVE  Part(g, i)' \in Waiting(promises') \/ (part1(i).is = "rejection" /\ result1 # Null)
      OBVIOUS
    <3>1. i \in j.missing
      BY <2>1 DEF missing
    <3>2. CASE i = c.index
      <4>1. with.is = "rejection" /\ part(i) = with
        BY <1>6, <2>1, <2>5, <3>2 DEF missing
      <4>q. QED BY <2>3, <2>5, <4>1
    <3>3. CASE i # c.index
      <4>1. CASE Part(g, i) \in Waiting(promises)
        <5>1. Part(g, i) \in Waiting(promises')
          BY <1>2, <1>8, <2>6, <3>3, <4>1
        <5>q. QED BY <1>4, <1>12, <5>1
      <4>2. CASE part(i).is = "rejection" /\ result # Null
        BY <2>3, <2>5, <4>2
      <4>q. QED BY <2>4, <3>1, <4>1, <4>2
    <3>q. QED BY <3>2, <3>3
  <2>9. result1 = Null => j1.missing # {}
    BY <2>1, <2>4, <2>5
  <2>10. result1 # Null => \/ result1.is = "value" /\ j1.missing = {}
                           \/ result1.is = "rejection" /\ \E i \in {1, 2} : part1(i).is = "rejection"
    <3>1. CASE result # Null
      BY <2>1, <2>3, <2>4, <2>5, <3>1 DEF missing
    <3>2. CASE result = Null
      BY <1>4, <1>6, <2>1, <2>3, <2>5, <3>2
    <3>q. QED BY <3>1, <3>2
  <2> HIDE DEF j1, part1, result1
  <2>q. QED BY <2>1, <2>2, <2>7, <2>8, <2>9, <2>10 DEF Parted, PromiseOf, j1, part1, result1
<1>15. ASSUME NEW h \in DOMAIN joined', h # g PROVE Parted(h)'
  <2>1. h \in DOMAIN joined /\ joined'[h] = joined[h] /\ joined[h].result # j.result
    BY <1>5, <1>7, <1>15
  <2>2. joined[h].result \in Deferred
    BY <2>1, Things DEF PromisesInv, Parted
  <2>3. \A i : Part(h, i) # c
    BY <1>4, <1>15 DEF Part
  <2>q. QED BY <1>2, <1>3, <1>7, <1>8, <1>11, <2>1, <2>2, <2>3, PartedStays
<1>16. QueueInv(promises, Listener, Thing)' /\ (DOMAIN joined \subseteq Group)'
  BY <1>7, <1>8 DEF PromisesInv, Listener, Thing, PromiseOf
<1>17. \A h \in DOMAIN joined' : Parted(h)'
  BY <1>14, <1>15
<1>q. QED BY <1>9, <1>10, <1>13, <1>16, <1>17 DEF PromisesInv

------------------------------------------------------------------------------
(* The theorem.                                                               *)

LEMMA PromisesStart == PromisesInit => PromisesInv
<1> SUFFICES ASSUME PromisesInit PROVE PromisesInv
  OBVIOUS
<1>1. promises = Unresolved(Deferred) /\ chained = {} /\ ran = <<>> /\ joined = <<>>
  BY DEF PromisesInit
<1>2. QueueInv(promises, Listener, Thing) /\ Waiting(promises) = {}
  BY <1>1, UnresolvedKeeps
<1>q. QED BY <1>1, <1>2 DEF PromisesInv, RanOver, NoneLost, Known

LEMMA PromisesStep == PromisesInv /\ [PromisesNext]_promiseVars => PromisesInv'
<1> SUFFICES ASSUME PromisesInv, [PromisesNext]_promiseVars PROVE PromisesInv'
  OBVIOUS
<1>1. CASE UNCHANGED promiseVars
  <2>1. Firm(promises', promises) /\ promises' = promises /\ UNCHANGED <<chained, ran, joined>>
    BY <1>1, FirmByValue DEF promiseVars
  <2>2. QueueInv(promises', Listener, Thing)
    BY <2>1 DEF PromisesInv
  <2>q. QED BY <2>1, <2>2, MovesKeep
<1>2. CASE \E d, r \in Chainable : AddThen(d, r)
  BY <1>2, AddThenKeeps
<1>3. CASE \E d \in Chainable :
               \E th \in {ValueOf(1), Reject(1)} \cup {PromiseOf(e) : e \in Chainable} : Settle(d, th)
  BY <1>3, SettleKeeps
<1>4. CASE \E g \in Group, d1, d2, r \in Chainable : All(g, d1, d2, r)
  BY <1>4, AllKeeps
<1>5. CASE Tick
  BY <1>5, FlushTickKeeps, RunThenKeeps, RunAllKeeps DEF Tick
<1>q. QED BY <1>1, <1>2, <1>3, <1>4, <1>5 DEF PromisesNext

\* When no tick is left, a callback waits for a deferred that is pending.
LEMMA WaitsForPending ==
    ASSUME PromisesInv, promises.ticks = <<>>, NEW c \in Waiting(promises)
    PROVE  Final(promises, c.on).is = "promise"
<1>1. PICK s \in Places(promises) : c \in Range(At(promises, s))
  BY DEF Waiting
<1>2. \E d \in Deferred : c \in Range(promises.pending[d])
  BY <1>1 DEF Places, At
<1>q. QED BY <1>2, OnePromise DEF PromisesInv, QueueInv, Placed

LEMMA PromisesMean == PromisesInv => AllDelivered
<1> SUFFICES ASSUME PromisesInv PROVE AllDelivered
  OBVIOUS
<1>1. Delivered
  <2>1. ASSUME promises.ticks = <<>>, NEW c \in chained, Final(promises, c.on).is # "promise"
        PROVE  \E i \in DOMAIN ran : ran[i].callback = c
    BY <2>1, WaitsForPending DEF PromisesInv, NoneLost
  <2>q. QED BY <2>1 DEF PromisesInv, RanOver, Delivered
<1>2. Joined
  <2> SUFFICES ASSUME promises.ticks = <<>>, NEW g \in DOMAIN joined
               PROVE  LET parts == {Final(promises, PromiseOf(joined[g].on[i])).is : i \in {1, 2}}
                          result == Final(promises, PromiseOf(joined[g].result)).is
                      IN result = IF "rejection" \in parts THEN "rejection"
                                  ELSE IF parts = {"value"} THEN "value" ELSE "promise"
    BY DEF Joined
  <2> DEFINE j == joined[g]
             part(i) == Final(promises, PromiseOf(j.on[i]))
             result == promises.value[j.result]
             end == Final(promises, PromiseOf(j.result))
  <2>1. Parted(g) /\ QueueInv(promises, Listener, Thing)
    BY DEF PromisesInv
  <2>2. j.result \in Deferred
    BY <2>1, Things DEF Parted
  <2>3. end = IF result = Null THEN PromiseOf(j.result) ELSE Final(promises, result)
    BY <2>1, <2>2, OnePromise, FinalEquation DEF QueueInv
  <2>4. \A i \in {1, 2} : Part(g, i) \in Waiting(promises) => part(i).is = "promise"
    BY WaitsForPending DEF Part
  <2>5. /\ \A i \in {1, 2} : /\ i \notin j.missing => part(i).is = "value"
                             /\ i \in j.missing => part(i).is = "promise"
                                                   \/ (part(i).is = "rejection" /\ result # Null)
        /\ result = Null => j.missing # {}
        /\ result # Null => \/ result.is = "value" /\ j.missing = {}
                            \/ result.is = "rejection" /\ \E i \in {1, 2} : part(i).is = "rejection"
        /\ j.missing \subseteq {1, 2}
    BY <2>1, <2>4 DEF Parted
  <2>6. end.is = IF result = Null THEN "promise" ELSE result.is
    BY <2>3, <2>5, FinalOfValue, OnePromise
  <2> HIDE DEF j, part, end, result
  <2>7. end.is = IF \E i \in {1, 2} : part(i).is = "rejection" THEN "rejection"
                 ELSE IF \A i \in {1, 2} : part(i).is = "value" THEN "value" ELSE "promise"
    BY <2>5, <2>6
  <2>8. {part(i).is : i \in {1, 2}} = {"value"} <=> \A i \in {1, 2} : part(i).is = "value"
    OBVIOUS
  <2>9. "rejection" \in {part(i).is : i \in {1, 2}} <=> \E i \in {1, 2} : part(i).is = "rejection"
    OBVIOUS
  <2>q. QED BY <2>7, <2>8, <2>9 DEF j, part, end
<1>q. QED BY <1>1, <1>2 DEF AllDelivered

\* What $q promises: the callback that then was given runs once, with what its promise came to
\* through whatever chain of deferreds resolved with each other, and before the digest is over; and
\* all comes to a value, to a rejection or to nothing yet as its promises did.
THEOREM PromisesDeliver == PromisesSpec => []AllDelivered
<1>1. PromisesInit => PromisesInv
  BY PromisesStart
<1>2. PromisesInv /\ [PromisesNext]_promiseVars => PromisesInv'
  BY PromisesStep
<1>3. PromisesInv => AllDelivered
  BY PromisesMean
<1>q. QED BY <1>1, <1>2, <1>3, PTL DEF PromisesSpec
==============================================================================
