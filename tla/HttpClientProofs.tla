--------------------------- MODULE HttpClientProofs ---------------------------
(* The requests of $http are counted as they are, whatever the calls, answers,  *)
(* aborts and timers, and their number.                                         *)
EXTENDS HttpClient, QueueProofs, FiniteSetTheorems

\* The cache keeps every url: that of $http does, it has no capacity of its own.
Roomy == Cardinality(Address) <= Capacity

------------------------------------------------------------------------------
(* The inductive invariant.                                                   *)

\* A request that done was called for is done with, and done throws or is over.
Ending ==
    /\ served = {} \/ \E r \in Request : served = {r}
    /\ \A r \in served \cup lost : r \in Request /\ xhr[r] = "done"
    /\ served \cap lost = {}

\* While a turn goes on, what it completes is still counted.
Counted ==
    /\ completing \in Nat /\ (phase = "idle" => completing = 0 /\ served = {})
    /\ outstanding = Cardinality(Open) + Cardinality(defers) + completing
                       + Cardinality(served) + Cardinality(lost)

\* Nothing is under way for a request that was not made.
Unsent == \A r \in Request \ called : xhr[r] = "unsent" /\ Answer(r) \notin defers

\* The cache has the promise of every open request that shares its answer: so no
\* other can be sent for that url, and the answer finds an entry to replace.
Placeheld == \A r \in Open \cap Cached : data[UrlOf[r]] = PromiseOf(Answer(r))

\* A timeout that ran or was cancelled waits no more.
TimersOver == \A t \in fired \cup canceled : Timeout(t) \notin defers

HttpInv ==
    /\ xhr \in [Request -> {"unsent", "sent", "done"}]
    /\ DOMAIN data = Address /\ IsFiniteSet(defers)
    /\ Ending /\ Counted /\ Unsent /\ TimersOver /\ (Roomy => Placeheld)
    /\ fired \cap canceled = {}

\* A promise stands for one deferred only, and a deferred has one purpose.
LEMMA Apart ==
    /\ \A r, s : PromiseOf(Answer(r)) = PromiseOf(Answer(s)) => r = s
    /\ \A r, s : Answer(r) = Answer(s) => r = s
    /\ \A t, s : Timeout(t) = Timeout(s) => t = s
    /\ \A r, t : Answer(r) # Timeout(t)
BY DEF PromiseOf, Answer, Timeout

LEMMA OpenFinite == IsFiniteSet(Open) /\ Cardinality(Open) \in Nat
<1>1. Open \subseteq Request
  BY DEF Open
<1>q. QED BY <1>1, HttpAssumption, FS_Subset, FS_CardinalityType

\* With room for every url, what is put takes nothing else out of the cache.
LEMMA PutKeeps ==
    ASSUME Roomy, NEW u \in Address, NEW x, CachePut(u, x)
    PROVE  data' = [v \in Address |-> IF v = u THEN x ELSE data[v]]
<1> DEFINE full == {v \in Address : data[v] # Null} \cup {u}
<1>1. IsFiniteSet(Address) /\ full \subseteq Address
  BY HttpAssumption
<1>2. Cardinality(full) <= Cardinality(Address) /\ Cardinality(full) \in Nat /\ Cardinality(Address) \in Nat
  BY <1>1, FS_Subset, FS_CardinalityType
<1>3. ~ (Cardinality(full) > Capacity)
  BY <1>2, HttpAssumption DEF Roomy
<1>q. QED BY <1>3 DEF CachePut

\* What is put in the cache is there, or nothing for its url, and nothing else is new.
LEMMA PutMay ==
    ASSUME NEW u \in Address, NEW x, CachePut(u, x), DOMAIN data = Address
    PROVE  DOMAIN data' = Address /\ \A v \in Address : data'[v] \in {Null, data[v]} \/ (v = u /\ data'[v] = x)
BY DEF CachePut

\* A request that is sent, or no longer open, counts one more or one less.
LEMMA OpenMore ==
    ASSUME HttpInv, NEW r \in Request, xhr[r] # "sent", xhr' = [xhr EXCEPT ![r] = "sent"]
    PROVE  Open' = Open \cup {r} /\ Cardinality(Open') = Cardinality(Open) + 1
<1>1. Open' = Open \cup {r} /\ r \notin Open
  BY DEF Open, HttpInv
<1>q. QED BY <1>1, OpenFinite, FS_AddElement

LEMMA OpenLess ==
    ASSUME HttpInv, NEW r \in Request, xhr[r] = "sent", xhr' = [xhr EXCEPT ![r] = "done"]
    PROVE  Open' = Open \ {r} /\ Cardinality(Open') = Cardinality(Open) - 1
<1>1. Open' = Open \ {r} /\ r \in Open
  BY DEF Open, HttpInv
<1>q. QED BY <1>1, OpenFinite, FS_RemoveElement

\* At most one request is at its end, and those that are lost are finitely many.
LEMMA EndingFinite ==
    ASSUME Ending
    PROVE  /\ Cardinality(served) \in Nat /\ IsFiniteSet(lost) /\ Cardinality(lost) \in Nat
           /\ Cardinality({}) = 0 /\ \A r : Cardinality({r}) = 1
           /\ Cardinality(lost \cup served) = Cardinality(lost) + Cardinality(served)
<1>1. IsFiniteSet(lost) /\ Cardinality(lost) \in Nat
  <2>1. lost \subseteq Request
    BY DEF Ending
  <2>q. QED BY <2>1, HttpAssumption, FS_Subset, FS_CardinalityType
<1>2. Cardinality({}) = 0
  BY FS_EmptySet
<1>3. ASSUME NEW r PROVE Cardinality({r}) = 1
  BY FS_Singleton
<1>4. Cardinality(lost \cup served) = Cardinality(lost) + Cardinality(served)
  <2>1. CASE served = {}
    <3>1. lost \cup served = lost
      BY <2>1
    <3>q. QED BY <1>1, <1>2, <2>1, <3>1
  <2>2. CASE \E r \in Request : served = {r}
    <3>1. PICK r \in Request : served = {r}
      BY <2>2
    <3>2. r \notin lost
      BY <3>1 DEF Ending
    <3>3. Cardinality(lost \cup {r}) = Cardinality(lost) + 1
      BY <1>1, <3>2, FS_AddElement
    <3>q. QED BY <1>3, <3>1, <3>3
  <2>q. QED BY <2>1, <2>2 DEF Ending
<1>5. Cardinality(served) \in Nat
  <2>1. CASE served = {}
    BY <1>2, <2>1
  <2>2. CASE \E r \in Request : served = {r}
    BY <1>3, <2>2
  <2>q. QED BY <2>1, <2>2 DEF Ending
<1>q. QED BY <1>1, <1>2, <1>3, <1>4, <1>5

LEMMA OpenSame ==
    ASSUME xhr' = xhr
    PROVE  Open' = Open
BY DEF Open

------------------------------------------------------------------------------
(* The steps.                                                                 *)

\* A request, made in an event or in a callback.
LEMMA RequestMade ==
    ASSUME HttpInv, NEW r \in Request, NEW p, SendReq(r, p),
           phase' = "digest", UNCHANGED <<completing, served, lost, fired, canceled>>
    PROVE  HttpInv'
<1>1. r \notin called /\ called' = called \cup {r}
  BY DEF SendReq
<1>2. UrlOf[r] \in Address /\ xhr[r] = "unsent" /\ Answer(r) \notin defers
  BY <1>1, HttpAssumption DEF HttpInv, Unsent
<1>3. CASE Entry(r) = Null
  <2>1. Send(r, Then(p, PromiseOf(Answer(r)), Removing(r, PromiseOf(Answer(r)))))
    BY <1>3 DEF SendReq
  <2>2. /\ xhr' = [xhr EXCEPT ![r] = "sent"]
        /\ defers' = IF r \in Limited THEN defers \cup {Answer(r)} ELSE defers
        /\ outstanding' = outstanding + (IF r \in Limited THEN 2 ELSE 1)
        /\ IF r \in Cached THEN CachePut(UrlOf[r], PromiseOf(Answer(r))) ELSE UNCHANGED <<data, order>>
    BY <2>1 DEF Send, cache
  <2>3. Open' = Open \cup {r} /\ Cardinality(Open') = Cardinality(Open) + 1
    BY <1>2, <2>2, OpenMore
  <2>4. IsFiniteSet(defers') /\ Cardinality(defers') = Cardinality(defers) + (IF r \in Limited THEN 1 ELSE 0)
    <3>1. IsFiniteSet(defers) /\ Answer(r) \notin defers
      BY <1>2 DEF HttpInv
    <3>2. /\ IsFiniteSet(defers \cup {Answer(r)})
          /\ Cardinality(defers \cup {Answer(r)}) = Cardinality(defers) + 1
      BY <3>1, FS_AddElement
    <3>3. Cardinality(defers) \in Nat
      BY <3>1, FS_CardinalityType
    <3>q. QED BY <2>2, <3>1, <3>2, <3>3
  <2>5. Roomy =>
          \/ r \in Cached /\ data' = [v \in Address |-> IF v = UrlOf[r] THEN PromiseOf(Answer(r)) ELSE data[v]]
          \/ r \notin Cached /\ data' = data
    <3>1. CASE r \in Cached
      BY <1>2, <2>2, <3>1, PutKeeps
    <3>2. CASE r \notin Cached
      BY <2>2, <3>2
    <3>q. QED BY <3>1, <3>2
  <2>6. ASSUME Roomy PROVE \A s \in Open \cap Cached : r \in Cached => UrlOf[s] # UrlOf[r]
    <3> SUFFICES ASSUME NEW s \in Open \cap Cached, r \in Cached, UrlOf[s] = UrlOf[r] PROVE FALSE
      OBVIOUS
    <3>1. s \in Request /\ data[UrlOf[r]] = PromiseOf(Answer(s))
      BY <2>6 DEF HttpInv, Placeheld, Open
    <3>2. PromiseOf(Answer(s)) # Null
      BY <3>1, HttpAssumption DEF Answer
    <3>q. QED BY <1>3, <3>1, <3>2 DEF Entry
  <2>7. DOMAIN data' = Address
    BY <1>2, <2>2, PutMay DEF HttpInv
  <2>8. ASSUME Roomy PROVE Placeheld'
    <3> SUFFICES ASSUME NEW s \in Open' \cap Cached PROVE data'[UrlOf[s]] = PromiseOf(Answer(s))
      BY DEF Placeheld, PromiseOf, Answer
    <3>1. CASE s = r
      BY <1>2, <2>5, <2>8, <3>1
    <3>2. CASE s # r
      <4>1. s \in Open \cap Cached /\ s \in Request /\ UrlOf[s] \in Address
        BY <2>3, <3>2, HttpAssumption DEF Open
      <4>2. data[UrlOf[s]] = PromiseOf(Answer(s))
        BY <2>8, <4>1 DEF HttpInv, Placeheld
      <4>3. r \in Cached => UrlOf[s] # UrlOf[r]
        BY <2>6, <2>8, <4>1
      <4>q. QED BY <2>5, <2>8, <4>1, <4>2, <4>3
    <3>q. QED BY <3>1, <3>2
  <2>9. Counted' /\ Ending'
    <3>1. /\ Cardinality(Open) \in Nat /\ Cardinality(defers) \in Nat
          /\ Cardinality(served) \in Nat /\ Cardinality(lost) \in Nat
      BY OpenFinite, FS_CardinalityType, EndingFinite DEF HttpInv
    <3>2. Counted'
      BY <2>2, <2>3, <2>4, <3>1 DEF HttpInv, Counted
    <3>3. Ending'
      BY <1>2, <2>2 DEF HttpInv, Ending
    <3>q. QED BY <3>2, <3>3
  <2>10. Unsent'
    BY <1>1, <2>2, Apart DEF HttpInv, Unsent, Answer
  <2>11. TimersOver' /\ (fired \cap canceled = {})'
    BY <2>2, Apart DEF HttpInv, TimersOver, Timeout, Answer
  <2>12. xhr' \in [Request -> {"unsent", "sent", "done"}]
    BY <2>2 DEF HttpInv
  <2>q. QED BY <2>4, <2>7, <2>8, <2>9, <2>10, <2>11, <2>12 DEF HttpInv
<1>4. CASE Entry(r) # Null
  <2>1. /\ UNCHANGED <<net, outstanding>>
        /\ CacheGet(UrlOf[r])
    BY <1>4 DEF SendReq
  <2>2. xhr' = xhr /\ defers' = defers /\ outstanding' = outstanding /\ data' = data
    BY <2>1 DEF net, CacheGet
  <2>3. Open' = Open
    BY <2>2, OpenSame
  <2>4. Counted' /\ Ending' /\ (Roomy => Placeheld') /\ TimersOver' /\ Unsent'
    BY <1>1, <2>2, <2>3 DEF HttpInv, Counted, Ending, Placeheld, TimersOver, Unsent, Answer, Timeout, PromiseOf
  <2>q. QED BY <2>2, <2>4 DEF HttpInv
<1>q. QED BY <1>3, <1>4

\* A timer that is over counts one less.
LEMMA DeferLess ==
    ASSUME HttpInv, NEW d \in defers, defers' = defers \ {d}
    PROVE  /\ IsFiniteSet(defers') /\ Cardinality(defers') = Cardinality(defers) - 1
           /\ Cardinality(defers) \in Nat
BY FS_RemoveElement, FS_CardinalityType DEF HttpInv

\* The answer to an open request, its own or that of its time limit: the promise
\* in the cache goes, and what is completed is counted until the end of the turn.
LEMMA AnswerCame ==
    ASSUME HttpInv, NEW r \in Request, NEW th \in {ValueOf(r), Reject(r)}, NEW timers \in {0, 1},
           phase = "idle", xhr[r] = "sent", xhr' = [xhr EXCEPT ![r] = "done"], Done(r, th, timers),
           \/ timers = 0 /\ defers' = defers
           \/ timers = 1 /\ Answer(r) \in defers /\ defers' = defers \ {Answer(r)},
           UNCHANGED <<called, fired, canceled>>
    PROVE  HttpInv'
<1>1. /\ r \in Open /\ UrlOf[r] \in Address /\ r \in called /\ xhr'[r] = "done"
      /\ r \notin lost /\ served = {} /\ completing = 0
  BY HttpAssumption DEF Open, HttpInv, Unsent, Ending, Counted
<1>2. \/ /\ r \in Cached /\ th.is # "value" /\ data[UrlOf[r]] = Null
         /\ outstanding' = outstanding - timers /\ lost' = lost \cup {r} /\ data' = data
         /\ phase' = phase /\ completing' = completing /\ served' = served
      \/ /\ outstanding' = outstanding /\ lost' = lost /\ phase' = "digest"
         /\ completing' = timers /\ served' = {r}
         /\ IF r \notin Cached THEN UNCHANGED <<data, order>>
            ELSE IF th.is = "value" THEN CachePut(UrlOf[r], th) ELSE CacheRemove(UrlOf[r])
  BY DEF Done, cache
<1>3. Open' = Open \ {r} /\ Cardinality(Open') = Cardinality(Open) - 1 /\ Cardinality(Open) \in Nat
  BY OpenLess, OpenFinite
<1>4. /\ IsFiniteSet(defers') /\ defers' \subseteq defers
      /\ Cardinality(defers') = Cardinality(defers) - timers /\ Cardinality(defers) \in Nat
  <2>1. CASE timers = 1
    BY <2>1, DeferLess
  <2>2. CASE timers = 0
    <3>1. IsFiniteSet(defers) /\ Cardinality(defers) \in Nat
      BY FS_CardinalityType DEF HttpInv
    <3>q. QED BY <2>2, <3>1
  <2>q. QED BY <2>1, <2>2
<1>5. Ending'
  BY <1>1, <1>2 DEF HttpInv, Ending
<1>6. Counted'
  <2>1. /\ Cardinality(lost) \in Nat /\ IsFiniteSet(lost)
        /\ Cardinality(served) = 0 /\ Cardinality({r}) = 1
    BY <1>1, EndingFinite DEF HttpInv
  <2>2. Cardinality(lost \cup {r}) = Cardinality(lost) + 1
    BY <1>1, <2>1, FS_AddElement
  <2>3. outstanding = Cardinality(Open) + Cardinality(defers) + Cardinality(lost)
    BY <1>1, <1>3, <1>4, <2>1 DEF HttpInv, Counted
  <2>4. CASE outstanding' = outstanding /\ served' = {r} /\ lost' = lost /\ completing' = timers /\ phase' = "digest"
    BY <1>3, <1>4, <2>1, <2>3, <2>4 DEF Counted
  <2>5. CASE /\ lost' = lost \cup {r} /\ outstanding' = outstanding - timers
             /\ served' = served /\ completing' = completing
    BY <1>1, <1>3, <1>4, <2>1, <2>2, <2>3, <2>5 DEF Counted
  <2>q. QED BY <1>2, <2>4, <2>5
<1>7. /\ DOMAIN data' = Address
      /\ Roomy => \A u \in Address : (r \in Cached => u # UrlOf[r]) => data'[u] = data[u]
  <2>1. CASE data' = data
    BY <2>1 DEF HttpInv
  <2>2. CASE CachePut(UrlOf[r], th) /\ r \in Cached
    <3>1. Roomy => data' = [v \in Address |-> IF v = UrlOf[r] THEN th ELSE data[v]]
      BY <1>1, <2>2, PutKeeps
    <3>2. DOMAIN data' = Address
      BY <1>1, <2>2, PutMay DEF HttpInv
    <3>q. QED BY <2>2, <3>1, <3>2
  <2>3. CASE CacheRemove(UrlOf[r]) /\ r \in Cached
    <3>1. data' = [data EXCEPT ![UrlOf[r]] = Null]
      BY <2>3 DEF CacheRemove
    <3>q. QED BY <2>3, <3>1 DEF HttpInv
  <2>q. QED BY <1>2, <2>1, <2>2, <2>3
<1>8. ASSUME Roomy PROVE Placeheld'
  <2> SUFFICES ASSUME NEW s \in Open' \cap Cached PROVE data'[UrlOf[s]] = PromiseOf(Answer(s))
    BY DEF Placeheld, PromiseOf, Answer
  <2>1. s \in Open \cap Cached /\ s # r /\ UrlOf[s] \in Address
    BY <1>3, HttpAssumption DEF Open
  <2>2. data[UrlOf[s]] = PromiseOf(Answer(s))
    BY <1>8, <2>1 DEF HttpInv, Placeheld
  <2>3. r \in Cached => data[UrlOf[r]] = PromiseOf(Answer(r))
    BY <1>1, <1>8 DEF HttpInv, Placeheld
  <2>4. r \in Cached => UrlOf[s] # UrlOf[r]
    BY <2>1, <2>2, <2>3, Apart
  <2>q. QED BY <1>7, <1>8, <2>1, <2>2, <2>4
<1>9. Unsent' /\ TimersOver' /\ (fired \cap canceled = {})'
  BY <1>1, <1>4 DEF HttpInv, Unsent, TimersOver, Answer, Timeout
<1>q. QED BY <1>4, <1>5, <1>6, <1>7, <1>8, <1>9 DEF HttpInv

\* What the other steps leave of the invariant, whatever they do to the counts.
LEMMA OthersKept ==
    ASSUME HttpInv, UNCHANGED <<xhr, data, called>>, defers' \subseteq defers \/
           (\E t \in Timer : t \notin fired \cup canceled /\ defers' = defers \cup {Timeout(t)}),
           IsFiniteSet(defers'), Counted', Ending', fired' \cap canceled' = {},
           \A t \in (fired' \cup canceled') \ (fired \cup canceled) : Timeout(t) \notin defers',
           fired \cup canceled \subseteq fired' \cup canceled'
    PROVE  HttpInv'
<1>1. Open' = Open
  BY OpenSame
<1>2. Unsent' /\ TimersOver'
  BY Apart DEF HttpInv, Unsent, TimersOver, Answer, Timeout
<1>3. Roomy => Placeheld'
  BY <1>1 DEF HttpInv, Placeheld, PromiseOf, Answer
<1>q. QED BY <1>2, <1>3 DEF HttpInv

LEMMA HttpInvNext == HttpInv /\ [HttpNext]_httpVars => HttpInv'
<1> SUFFICES ASSUME HttpInv, [HttpNext]_httpVars PROVE HttpInv'
  OBVIOUS
<1>1. ASSUME NEW r \in Request, CallHttp(r) PROVE HttpInv'
  BY <1>1, RequestMade DEF CallHttp, timing, ending
<1>2. ASSUME NEW r \in Request, Receive(r) PROVE HttpInv'
  <2>1. PICK th \in {ValueOf(r), Reject(r)} : Done(r, th, 0)
    BY <1>2 DEF Receive
  <2>2. /\ phase = "idle" /\ xhr[r] = "sent" /\ xhr' = [xhr EXCEPT ![r] = "done"]
        /\ 0 \in {0, 1} /\ defers' = defers /\ UNCHANGED <<called, fired, canceled>>
    BY <1>2 DEF Receive, timing
  <2>q. QED BY <2>1, <2>2, AnswerCame
<1>3. ASSUME NEW r \in Request, TimeLimit(r) PROVE HttpInv'
  <2>1. CASE xhr[r] = "sent"
    <3>1. /\ Answer(r) \in defers /\ defers' = defers \ {Answer(r)} /\ phase = "idle"
          /\ xhr' = [xhr EXCEPT ![r] = "done"] /\ Done(r, Reject(r), 1)
          /\ UNCHANGED <<called, fired, canceled>>
      BY <1>3, <2>1 DEF TimeLimit, timing
    <3>2. Reject(r) \in {ValueOf(r), Reject(r)} /\ 1 \in {0, 1}
      OBVIOUS
    <3>q. QED BY <2>1, <3>1, <3>2, AnswerCame
  <2>2. CASE xhr[r] # "sent"
    <3>1. /\ Answer(r) \in defers /\ defers' = defers \ {Answer(r)} /\ outstanding' = outstanding - 1
          /\ UNCHANGED <<xhr, data, called, fired, canceled, phase, completing, served, lost>>
      BY <1>3, <2>2 DEF TimeLimit, timing, cache, ending
    <3>2. IsFiniteSet(defers') /\ Cardinality(defers') = Cardinality(defers) - 1 /\ Cardinality(defers) \in Nat
      BY <3>1, DeferLess
    <3>3. Counted' /\ Ending'
      BY <3>1, <3>2, OpenFinite, OpenSame, EndingFinite DEF HttpInv, Counted, Ending
    <3>q. QED BY <3>1, <3>2, <3>3, OthersKept DEF HttpInv
  <2>q. QED BY <2>1, <2>2
<1>4. ASSUME NEW t \in Timer, StartTimer(t) PROVE HttpInv'
  <2>1. /\ phase = "idle" /\ phase' = "digest" /\ Timeout(t) \notin defers /\ t \notin fired \cup canceled
        /\ defers' = defers \cup {Timeout(t)} /\ outstanding' = outstanding + 1
        /\ UNCHANGED <<xhr, data, called, fired, canceled, completing, served, lost>>
    BY <1>4 DEF StartTimer, timing, Idle, cache, ending
  <2>2. /\ IsFiniteSet(defers') /\ Cardinality(defers') = Cardinality(defers) + 1 /\ Cardinality(defers) \in Nat
    BY <2>1, FS_AddElement, FS_CardinalityType DEF HttpInv
  <2>3. Counted' /\ Ending'
    BY <2>1, <2>2, OpenFinite, OpenSame, EndingFinite DEF HttpInv, Counted, Ending
  <2>q. QED BY <2>1, <2>2, <2>3, OthersKept DEF HttpInv
<1>5. ASSUME NEW t \in Timer, Fire(t) PROVE HttpInv'
  <2>1. /\ phase = "idle" /\ Timeout(t) \in defers /\ defers' = defers \ {Timeout(t)}
        /\ fired' = fired \cup {t}
        /\ IF t \in Unapplied THEN outstanding' = outstanding - 1 /\ UNCHANGED <<phase, completing>>
           ELSE phase' = "digest" /\ completing' = 1 /\ UNCHANGED outstanding
        /\ UNCHANGED <<xhr, data, called, canceled, served, lost>>
    BY <1>5 DEF Fire, Idle, cache, ending
  <2>2. IsFiniteSet(defers') /\ Cardinality(defers') = Cardinality(defers) - 1 /\ Cardinality(defers) \in Nat
    BY <2>1, DeferLess
  <2>3. Counted' /\ Ending'
    BY <2>1, <2>2, OpenFinite, OpenSame, EndingFinite DEF HttpInv, Counted, Ending
  <2>4. t \notin canceled
    BY <2>1 DEF HttpInv, TimersOver
  <2>q. QED BY <2>1, <2>2, <2>3, <2>4, OthersKept DEF HttpInv
<1>6. ASSUME NEW t \in Timer, CancelTimer(t) PROVE HttpInv'
  <2>1. /\ phase = "idle" /\ phase' = "digest" /\ Timeout(t) \in defers /\ defers' = defers \ {Timeout(t)}
        /\ outstanding' = outstanding - 1 /\ canceled' = canceled \cup {t}
        /\ UNCHANGED <<xhr, data, called, fired, completing, served, lost>>
    BY <1>6 DEF CancelTimer, Idle, cache, ending
  <2>2. IsFiniteSet(defers') /\ Cardinality(defers') = Cardinality(defers) - 1 /\ Cardinality(defers) \in Nat
    BY <2>1, DeferLess
  <2>3. Counted' /\ Ending'
    BY <2>1, <2>2, OpenFinite, OpenSame, EndingFinite DEF HttpInv, Counted, Ending
  <2>4. t \notin fired
    BY <2>1 DEF HttpInv, TimersOver
  <2>q. QED BY <2>1, <2>2, <2>3, <2>4, OthersKept DEF HttpInv
<1>7. CASE RunTick
  <2>1. phase' = "digest" /\ UNCHANGED <<completing, served, lost, fired, canceled>>
    BY <1>7 DEF RunTick, timing, ending
  <2>2. \/ \E r \in Request : SendReq(r, Popped(q))
        \/ UNCHANGED <<xhr, data, called, defers, outstanding>>
    BY <1>7 DEF RunTick, RunFlush, RunRemove, RunTransform, RunUser, cache, net
  <2>3. CASE \E r \in Request : SendReq(r, Popped(q))
    BY <2>1, <2>3, RequestMade
  <2>4. CASE UNCHANGED <<xhr, data, called, defers, outstanding>>
    <3>1. Counted' /\ Ending'
      BY <2>1, <2>4, OpenSame DEF HttpInv, Counted, Ending
    <3>q. QED BY <2>1, <2>4, <3>1, OthersKept DEF HttpInv
  <2>q. QED BY <2>2, <2>3, <2>4
<1>8. CASE EndTurn
  <2>1. /\ phase = "digest" /\ phase' = "idle" /\ completing' = 0 /\ served' = {}
        /\ UNCHANGED <<xhr, data, called, defers, fired, canceled>>
        /\ \/ outstanding' = outstanding - completing - Cardinality(served) /\ lost' = lost
           \/ outstanding' = outstanding - completing /\ lost' = lost \cup served
    BY <1>8 DEF EndTurn, Endings, timing, cache, net
  <2>2. Cardinality(defers) \in Nat
    BY FS_CardinalityType DEF HttpInv
  <2>3. /\ Cardinality(served) \in Nat /\ Cardinality(lost) \in Nat /\ Cardinality(served') = 0
        /\ Cardinality(lost \cup served) = Cardinality(lost) + Cardinality(served)
    BY <2>1, EndingFinite DEF HttpInv
  <2>4. Open' = Open /\ Cardinality(Open) \in Nat
    BY <2>1, OpenFinite, OpenSame
  <2>5. Ending'
    BY <2>1 DEF HttpInv, Ending
  <2>6. Counted'
    <3>1. /\ completing \in Nat
          /\ outstanding = Cardinality(Open) + Cardinality(defers) + completing + Cardinality(served) + Cardinality(lost)
      BY DEF HttpInv, Counted
    <3>2. CASE outstanding' = outstanding - completing - Cardinality(served) /\ lost' = lost
      <4>1. outstanding' = Cardinality(Open) + Cardinality(defers) + Cardinality(lost)
        BY <2>2, <2>3, <2>4, <3>1, <3>2
      <4>q. QED BY <2>1, <2>2, <2>3, <2>4, <3>2, <4>1 DEF Counted
    <3>3. CASE outstanding' = outstanding - completing /\ lost' = lost \cup served
      <4>1. outstanding' = Cardinality(Open) + Cardinality(defers) + Cardinality(lost')
        BY <2>2, <2>3, <2>4, <3>1, <3>3
      <4>q. QED BY <2>1, <2>2, <2>3, <2>4, <3>3, <4>1 DEF Counted
    <3>q. QED BY <2>1, <3>2, <3>3
  <2>q. QED BY <2>1, <2>5, <2>6, OthersKept DEF HttpInv
<1>9. CASE UNCHANGED httpVars
  BY <1>9 DEF httpVars, HttpInv, Counted, Ending, Unsent, Placeheld, TimersOver, Open, Answer, Timeout, PromiseOf
<1>q. QED
  BY <1>1, <1>2, <1>3, <1>4, <1>5, <1>6, <1>7, <1>8, <1>9 DEF HttpNext, Network

------------------------------------------------------------------------------

LEMMA HttpInvInit == HttpInit => HttpInv
<1> SUFFICES ASSUME HttpInit PROVE HttpInv
  OBVIOUS
<1>1. /\ Open = {} /\ defers = {} /\ fired = {} /\ canceled = {} /\ outstanding = 0 /\ completing = 0
      /\ served = {} /\ lost = {}
  BY DEF HttpInit, Open
<1>2. Cardinality({}) = 0 /\ IsFiniteSet({})
  BY FS_EmptySet
<1>q. QED BY <1>1, <1>2 DEF HttpInit, HttpInv, Ending, Counted, Unsent, Placeheld, TimersOver

LEMMA HttpInvHolds == HttpSpec => []HttpInv
BY HttpInvInit, HttpInvNext, PTL DEF HttpSpec

------------------------------------------------------------------------------
(* What the requests are answered, and who hears of it.                       *)

HttpThing ==
    {ValueOf(x) : x \in Request \cup Timer} \cup {Reject(x) : x \in Request \cup Timer \cup {"canceled", "thrown"}}
      \cup {PromiseOf(d) : d \in Deferred}
HttpListener ==
    {Removing(r, PromiseOf(Answer(s))) : r \in Request, s \in Request}
      \cup {Transform(r, PromiseOf(Answer(s))) : r \in Request, s \in Request}
      \cup {User(r) : r \in Request} \cup {Running(t) : t \in Timer}

\* Nothing is led to another promise: what a deferred was resolved with is what it came to.
Definite == \A d \in Deferred : q.value[d] # Null => q.value[d].is # "promise"

\* A request that was not made is not answered, and nothing waits for it; nor is a timer over
\* that neither ran nor was cancelled.
Unmade ==
    \A r \in Request \ called :
        /\ xhr[r] = "unsent" /\ q.value[Answer(r)] = Null /\ q.value[Response(r)] = Null
        /\ \A c \in Waiting(q) : c.of # r
Unset ==
    \A t \in Timer \ (fired \cup canceled) :
        /\ q.value[Timeout(t)] = Null
        /\ Timeout(t) \notin defers => \A c \in Waiting(q) : c.of # t

\* A request is answered when its answer has come, and with an answer of the server for
\* its url, to it or to another.
Unanswered == \A r \in Request : xhr[r] = "sent" => q.value[Answer(r)] = Null
Told ==
    \A r \in Request : q.value[Answer(r)] # Null =>
        LET o == q.value[Answer(r)].of
        IN o \in Request /\ q.value[Answer(o)] = q.value[Answer(r)] /\ UrlOf[o] = UrlOf[r]

\* The cache has answers that came, and promises of answers.
Stored ==
    \A u \in Address : data[u] # Null =>
        \E o \in called :
            /\ UrlOf[o] = u
            /\ data[u] = IF data[u].is = "promise" THEN PromiseOf(Answer(o)) ELSE q.value[Answer(o)]

\* r gets the answer of s, which is r or what was in the cache for its url: until it is
\* there both callbacks wait for it.
Serves(r, s) ==
    /\ UrlOf[s] = UrlOf[r]
    /\ s # r => q.value[Answer(r)] = Null /\ xhr[r] = "unsent"
    /\ \A c \in Waiting(q) : c.of = r =>
           \/ c.is = "user"
           \/ c \in {Removing(r, PromiseOf(Answer(k))) : k \in {r, s}}
           \/ c = Transform(r, PromiseOf(Answer(s)))
    /\ r \in pendingRequests => Removing(r, PromiseOf(Answer(s))) \in Waiting(q)
    /\ IF q.value[Response(r)] = Null
       THEN /\ Transform(r, PromiseOf(Answer(s))) \in Waiting(q)
            /\ r \in pendingRequests \/ q.value[Answer(s)] # Null
       ELSE q.value[Answer(s)] # Null /\ q.value[Response(r)] \in {q.value[Answer(s)], Reject("thrown")}
Served == \A r \in called : \E s \in Request : Serves(r, s)

\* What was heard is over, and waits for nothing.
HeardBy(list) ==
    /\ list \in Seq([to : Request \cup Timer, with : HttpThing])
    /\ \A i, j \in DOMAIN list : list[i].to = list[j].to => i = j
    /\ \A i \in DOMAIN list :
           LET x == list[i].to
           IN /\ \A c \in Waiting(q) : c.of = x => c.is # "user"
              /\ x \in Timer => x \in fired \cup canceled
              /\ x \in Request =>
                     x \in called /\ list[i].with = q.value[Response(x)] /\ q.value[Response(x)] # Null

\* The inductive invariant, first without what was heard.
AnswersDue ==
    /\ QueueInv(q, HttpListener, HttpThing)
    /\ called \subseteq Request /\ pendingRequests \subseteq called
    /\ DOMAIN xhr = Request /\ DOMAIN data = Address
    /\ Definite /\ Unmade /\ Unset /\ Unanswered /\ Told /\ Stored /\ Served
AnswerInv == AnswersDue /\ HeardBy(answers)

LEMMA HttpThings ==
    /\ Thenables(HttpListener, HttpThing)
    /\ \A x \in Request \cup Timer : ValueOf(x) \in HttpThing /\ Reject(x) \in HttpThing
    /\ Reject("canceled") \in HttpThing /\ Reject("thrown") \in HttpThing
    /\ Reject("thrown") # Null /\ Reject("thrown").is # "promise"
    /\ \A r \in Request : {Answer(r), Response(r)} \subseteq Deferred
    /\ \A t \in Timer : Timeout(t) \in Deferred
    /\ \A d \in Deferred : PromiseOf(d) \in HttpThing
<1>1. \A th \in HttpThing : Thenable(th)
  <2> SUFFICES ASSUME NEW th \in HttpThing PROVE Thenable(th)
    OBVIOUS
  <2>1. CASE th \in {ValueOf(x) : x \in Request \cup Timer}
    BY <2>1, HttpAssumption DEF Thenable, ValueOf
  <2>2. CASE th \in {Reject(x) : x \in Request \cup Timer \cup {"canceled", "thrown"}}
    BY <2>2, HttpAssumption DEF Thenable, Reject
  <2>3. CASE th \in {PromiseOf(d) : d \in Deferred}
    BY <2>3, HttpAssumption DEF Thenable
  <2>q. QED BY <2>1, <2>2, <2>3 DEF HttpThing
<1>2. \A c \in HttpListener : c.on \in HttpThing
  BY HttpAssumption DEF HttpListener, HttpThing, Removing, Transform, User, Running
<1>3. Reject("thrown") # Null /\ Reject("thrown").is # "promise"
  BY HttpAssumption, OnePromise
<1>q. QED BY <1>1, <1>2, <1>3, HttpAssumption DEF HttpThing, Thenables

LEMMA Purposes ==
    /\ \A r, s : Answer(r) # Response(s) /\ (Answer(r) = Answer(s) => r = s)
    /\ \A r, s : Response(r) = Response(s) => r = s
    /\ \A r, t : Answer(r) # Timeout(t) /\ Response(r) # Timeout(t)
    /\ \A t, s : Timeout(t) = Timeout(s) => t = s
BY DEF Answer, Response, Timeout

LEMMA CallbackFacts ==
    /\ \A r, th : Removing(r, th).is = "removePendingReq" /\ Removing(r, th).of = r /\ Removing(r, th).on = th
    /\ \A r, th : Transform(r, th).is = "transformResponse" /\ Transform(r, th).of = r /\ Transform(r, th).on = th
    /\ \A r : User(r).is = "user" /\ User(r).of = r /\ User(r).on = PromiseOf(Response(r))
    /\ \A t : Running(t).is = "user" /\ Running(t).of = t /\ Running(t).on = PromiseOf(Timeout(t))
    /\ \A r \in Request : User(r) \in HttpListener
    /\ \A t \in Timer : Running(t) \in HttpListener
    /\ \A r \in Request, s \in Request : /\ Removing(r, PromiseOf(Answer(s))) \in HttpListener
                                         /\ Transform(r, PromiseOf(Answer(s))) \in HttpListener
BY DEF Removing, Transform, User, Running, HttpListener

LEMMA ListenerFacts ==
    ASSUME NEW c \in HttpListener
    PROVE  \/ /\ c.is = "removePendingReq" /\ c.of \in Request
              /\ \E s \in Request : c = Removing(c.of, PromiseOf(Answer(s)))
           \/ /\ c.is = "transformResponse" /\ c.of \in Request
              /\ \E s \in Request : c = Transform(c.of, PromiseOf(Answer(s)))
           \/ c.is = "user" /\ c.of \in Request /\ c = User(c.of)
           \/ c.is = "user" /\ c.of \in Timer /\ c = Running(c.of)
<1>1. CASE c \in {Removing(r, PromiseOf(Answer(s))) : r \in Request, s \in Request}
  BY <1>1, CallbackFacts
<1>2. CASE c \in {Transform(r, PromiseOf(Answer(s))) : r \in Request, s \in Request}
  BY <1>2, CallbackFacts
<1>3. CASE c \in {User(r) : r \in Request}
  BY <1>3, CallbackFacts
<1>4. CASE c \in {Running(t) : t \in Timer}
  BY <1>4, CallbackFacts
<1>q. QED BY <1>1, <1>2, <1>3, <1>4 DEF HttpListener

\* What a deferred was resolved with is what its promise comes to.
LEMMA FinalDefinite ==
    ASSUME Led(q.value), Definite, NEW d \in Deferred
    PROVE  Final(q, PromiseOf(d)) = IF q.value[d] = Null THEN PromiseOf(d) ELSE q.value[d]
BY FinalEquation, OnePromise, FinalOfValue DEF Definite

\* Without ticks, what waits does so for a deferred that is not resolved.
LEMMA WaitsForPromise ==
    ASSUME NEW p, QueueInv(p, HttpListener, HttpThing), p.ticks = <<>>, NEW c \in Waiting(p)
    PROVE  Final(p, c.on).is = "promise"
<1>1. PICK s \in Places(p) : c \in Range(At(p, s))
  BY DEF Waiting
<1>2. s[1] = "pending" /\ s[2] \in Deferred
  BY <1>1 DEF Places
<1>q. QED BY <1>1, <1>2, OnePromise DEF QueueInv, Placed, At

\* What is there stays.
Lasting(new, old) == \A d \in Deferred : old.value[d] # Null => new.value[d] = old.value[d]

\* A request is served as before if nothing that concerns it changes, but for the
\* callback of the application.
LEMMA ServesStays ==
    ASSUME NEW r \in Request, NEW s \in Request, Serves(r, s), Lasting(q', q),
           q'.value[Response(r)] = q.value[Response(r)],
           s # r => q'.value[Answer(r)] = q.value[Answer(r)] /\ xhr'[r] = xhr[r],
           \A c \in Waiting(q') : c.of = r /\ c.is # "user" => c \in Waiting(q),
           \A c \in Waiting(q) : c.of = r /\ c.is # "user" => c \in Waiting(q'),
           r \in pendingRequests' <=> r \in pendingRequests
    PROVE  Serves(r, s)'
<1>1. Answer(s) \in Deferred
  BY HttpThings
<1>2. q.value[Answer(s)] # Null => q'.value[Answer(s)] = q.value[Answer(s)]
  BY <1>1 DEF Lasting
<1>q. QED BY <1>2, CallbackFacts DEF Serves

\* What was heard stays heard as long as nobody waits for it again.
LEMMA HeardStays ==
    ASSUME AnswerInv, NEW list, list = answers, Lasting(q', q), called \subseteq called',
           fired \cup canceled \subseteq fired' \cup canceled',
           \A c \in Waiting(q') : c.is = "user" =>
               c \in Waiting(q) \/ c.of \in Request \ called \/ c.of \in Timer \ (fired \cup canceled)
    PROVE  HeardBy(list)'
<1>1. /\ list \in Seq([to : Request \cup Timer, with : HttpThing])
      /\ \A i, j \in DOMAIN list : list[i].to = list[j].to => i = j
  BY DEF AnswersDue, AnswerInv, HeardBy
<1>2. ASSUME NEW i \in DOMAIN list
      PROVE  /\ \A c \in Waiting(q') : c.of = list[i].to => c.is # "user"
             /\ list[i].to \in Timer => list[i].to \in fired' \cup canceled'
             /\ list[i].to \in Request =>
                    /\ list[i].to \in called' /\ list[i].with = q'.value[Response(list[i].to)]
                    /\ q'.value[Response(list[i].to)] # Null
  <2>1. /\ \A c \in Waiting(q) : c.of = list[i].to => c.is # "user"
        /\ list[i].to \in Timer => list[i].to \in fired \cup canceled
        /\ list[i].to \in Request =>
               /\ list[i].to \in called /\ list[i].with = q.value[Response(list[i].to)]
               /\ q.value[Response(list[i].to)] # Null
    BY DEF AnswersDue, AnswerInv, HeardBy
  <2>2. \A c \in Waiting(q') : c.of = list[i].to => c.is # "user"
    BY <2>1, HttpAssumption
  <2>3. list[i].to \in Request => Response(list[i].to) \in Deferred
    BY HttpThings
  <2>q. QED BY <2>1, <2>2, <2>3 DEF Lasting
<1>3. /\ list \in Seq([to : Request \cup Timer, with : HttpThing])'
      /\ \A i, j \in DOMAIN list : list[i].to = list[j].to => i = j
  BY <1>1 DEF HttpThing
<1>q. QED BY <1>2, <1>3 DEF HeardBy

LEMMA HeardMore ==
    ASSUME NEW list, HeardBy(list)', NEW x \in Request \cup Timer, NEW with \in HttpThing,
           answers' = Append(list, [to |-> x, with |-> with]),
           \A i \in DOMAIN list : list[i].to # x,
           \A c \in Waiting(q') : c.of = x => c.is # "user",
           x \in Timer => x \in fired' \cup canceled',
           x \in Request => x \in called' /\ with = q'.value[Response(x)] /\ with # Null
    PROVE  HeardBy(answers)'
<1> DEFINE E == [to : Request \cup Timer, with : HttpThing]
           e == [to |-> x, with |-> with]
<1>1. list \in Seq(E) /\ e \in E
  BY DEF HeardBy, HttpThing
<1>2. /\ answers' \in Seq(E) /\ Len(list) \in Nat /\ DOMAIN list = 1 .. Len(list)
      /\ DOMAIN answers' = 1 .. (Len(list) + 1)
      /\ \A i \in 1 .. Len(list) : answers'[i] = list[i]
      /\ answers'[Len(list) + 1] = e
  <2> HIDE DEF E, e
  <2>q. QED BY <1>1, AppendProperties, LenProperties DEF e
<1>3. \A i \in DOMAIN answers' : (i \in DOMAIN list /\ answers'[i] = list[i]) \/ (i = Len(list) + 1 /\ answers'[i] = e)
  BY <1>2
<1>4. \A i, j \in DOMAIN answers' : answers'[i].to = answers'[j].to => i = j
  <2>1. \A i, j \in DOMAIN list : list[i].to = list[j].to => i = j
    BY DEF HeardBy
  <2>q. QED BY <1>3, <2>1
<1>5. ASSUME NEW i \in DOMAIN answers'
      PROVE  /\ \A c \in Waiting(q') : c.of = answers'[i].to => c.is # "user"
             /\ answers'[i].to \in Timer => answers'[i].to \in fired' \cup canceled'
             /\ answers'[i].to \in Request =>
                    /\ answers'[i].to \in called' /\ answers'[i].with = q'.value[Response(answers'[i].to)]
                    /\ q'.value[Response(answers'[i].to)] # Null
  <2>1. CASE i \in DOMAIN list /\ answers'[i] = list[i]
    <3>1. /\ \A c \in Waiting(q') : c.of = list[i].to => c.is # "user"
          /\ list[i].to \in Timer => list[i].to \in fired' \cup canceled'
          /\ list[i].to \in Request =>
                 /\ list[i].to \in called' /\ list[i].with = q'.value[Response(list[i].to)]
                 /\ q'.value[Response(list[i].to)] # Null
      BY <2>1 DEF HeardBy
    <3>q. QED BY <2>1, <3>1
  <2>2. CASE answers'[i] = e
    BY <2>2
  <2>q. QED BY <1>3, <2>1, <2>2
<1>6. (answers \in Seq([to : Request \cup Timer, with : HttpThing]))'
  BY <1>2 DEF HttpThing
<1>q. QED BY <1>4, <1>5, <1>6 DEF HeardBy

\* A step that answers no request leaves what is known of the answers.
LEMMA AnswersStay ==
    ASSUME AnswerInv, UNCHANGED <<xhr, data, called>>,
           \A d \in Deferred :
               \/ q'.value[d] = q.value[d]
               \/ /\ q.value[d] = Null /\ q'.value[d].is # "promise"
                  /\ \A r \in Request : d # Answer(r) /\ (d = Response(r) => r \in called),
           \A c \in Waiting(q') : c \in Waiting(q) \/ c.of \in Timer
    PROVE  /\ DOMAIN xhr' = Request /\ DOMAIN data' = Address /\ called' \subseteq Request
           /\ Definite' /\ Unmade' /\ Unanswered' /\ Told' /\ Stored' /\ Lasting(q', q)
<1>1. \A r \in Request : q'.value[Answer(r)] = q.value[Answer(r)]
  BY HttpThings
<1>2. Definite' /\ Lasting(q', q)
  BY DEF AnswersDue, AnswerInv, Definite, Lasting
<1>3. Unmade'
  <2> SUFFICES ASSUME NEW r \in Request \ called
               PROVE  /\ xhr[r] = "unsent" /\ q'.value[Answer(r)] = Null /\ q'.value[Response(r)] = Null
                      /\ \A c \in Waiting(q') : c.of # r
    BY DEF Unmade
  <2>1. /\ xhr[r] = "unsent" /\ q.value[Answer(r)] = Null /\ q.value[Response(r)] = Null
        /\ \A c \in Waiting(q) : c.of # r
    BY DEF AnswersDue, AnswerInv, Unmade
  <2>2. q'.value[Response(r)] = Null
    BY <2>1, HttpThings
  <2>q. QED BY <1>1, <2>1, <2>2, HttpAssumption
<1>4. Unanswered' /\ Told'
  BY <1>1 DEF AnswersDue, AnswerInv, Unanswered, Told
<1>5. Stored'
  BY <1>1 DEF AnswersDue, AnswerInv, Stored
<1>q. QED BY <1>2, <1>3, <1>4, <1>5 DEF AnswersDue, AnswerInv

------------------------------------------------------------------------------
(* A request.                                                                 *)

LEMMA ChainKeeps ==
    ASSUME NEW p, QueueInv(p, HttpListener, HttpThing), NEW r \in Request, NEW s \in Request,
           \A c \in Waiting(p) : c.of = r => c.is = "removePendingReq"
    PROVE  /\ QueueInv(Chain(p, PromiseOf(Answer(s)), r), HttpListener, HttpThing)
           /\ Waiting(Chain(p, PromiseOf(Answer(s)), r)) =
                Waiting(p) \cup {Transform(r, PromiseOf(Answer(s))), User(r)}
           /\ Chain(p, PromiseOf(Answer(s)), r).value = p.value
<1> DEFINE th == PromiseOf(Answer(s))
           t == Transform(r, th)
           u == User(r)
           p1 == Then(p, th, t)
<1>1. /\ th \in HttpThing /\ PromiseOf(Response(r)) \in HttpThing /\ t \in HttpListener /\ u \in HttpListener
      /\ t.on = th /\ u.on = PromiseOf(Response(r)) /\ Thenables(HttpListener, HttpThing)
  BY HttpThings, CallbackFacts
<1>2. t \notin Waiting(p) /\ u \notin Waiting(p) /\ u # t
  BY CallbackFacts
<1> HIDE DEF th, t, u
<1>3. QueueInv(p1, HttpListener, HttpThing) /\ Waiting(p1) = Waiting(p) \cup {t} /\ p1.value = p.value
  BY <1>1, <1>2, ThenKeeps
<1> HIDE DEF p1
<1>4. u \notin Waiting(p1)
  BY <1>2, <1>3
<1>5. /\ QueueInv(Then(p1, PromiseOf(Response(r)), u), HttpListener, HttpThing)
      /\ Waiting(Then(p1, PromiseOf(Response(r)), u)) = Waiting(p1) \cup {u}
      /\ Then(p1, PromiseOf(Response(r)), u).value = p1.value
  BY <1>1, <1>3, <1>4, ThenKeeps
<1>6. Chain(p, th, r) = Then(p1, PromiseOf(Response(r)), u)
  BY DEF Chain, p1, t, u
<1>q. QED BY <1>3, <1>5, <1>6 DEF th, t, u

\* What $http chains for the request r, which gets the answer of s: its own from the
\* server or the cache, or the promise in the cache.
LEMMA RequestChained ==
    ASSUME AnswerInv, NEW p, QueueInv(p, HttpListener, HttpThing), p.value = q.value,
           Waiting(p) \subseteq Waiting(q), NEW r \in Request, SendReq(r, p)
    PROVE  \E s \in Request :
             /\ UrlOf[s] = UrlOf[r]
             /\ QueueInv(q', HttpListener, HttpThing)
             /\ Waiting(q') = Waiting(p) \cup {Removing(r, PromiseOf(Answer(r))), Removing(r, PromiseOf(Answer(s))),
                                               Transform(r, PromiseOf(Answer(s))), User(r)}
             /\ \/ /\ s = r /\ q'.value = q.value /\ xhr' = [xhr EXCEPT ![r] = "sent"]
                   /\ (r \in Cached /\ CachePut(UrlOf[r], PromiseOf(Answer(r)))) \/ data' = data
                \/ q'.value = q.value /\ xhr' = xhr /\ data' = data
                \/ /\ s = r /\ xhr' = xhr /\ data' = data
                   /\ data[UrlOf[r]] # Null /\ data[UrlOf[r]].is # "promise"
                   /\ \A d \in Deferred : q'.value[d] = IF d = Answer(r) THEN data[UrlOf[r]] ELSE q.value[d]
<1> DEFINE own == PromiseOf(Answer(r))
           p1 == Then(p, own, Removing(r, own))
<1>1. r \notin called /\ (\A c \in Waiting(p) : c.of # r) /\ q.value[Answer(r)] = Null /\ UrlOf[r] \in Address
  BY HttpAssumption DEF SendReq, AnswersDue, AnswerInv, Unmade
<1>2. /\ own \in HttpThing /\ Removing(r, own) \in HttpListener /\ Removing(r, own).on = own
      /\ Removing(r, own).of = r /\ Removing(r, own).is = "removePendingReq"
      /\ Thenables(HttpListener, HttpThing) /\ Answer(r) \in Deferred
  BY HttpThings, CallbackFacts
<1>3. /\ QueueInv(p1, HttpListener, HttpThing) /\ Waiting(p1) = Waiting(p) \cup {Removing(r, own)}
      /\ p1.value = q.value
  <2> HIDE DEF own
  <2>q. QED BY <1>1, <1>2, ThenKeeps
<1>4. \A c \in Waiting(p1) : c.of = r => c = Removing(r, own)
  BY <1>1, <1>3
<1> HIDE DEF p1
<1>5. CASE Entry(r) = Null
  <2>1. q' = Chain(p1, own, r) /\ xhr' = [xhr EXCEPT ![r] = "sent"]
    BY <1>5 DEF SendReq, Send, p1
  <2>2. (r \in Cached /\ CachePut(UrlOf[r], own)) \/ data' = data
    BY <1>5 DEF SendReq, Send, cache
  <2>3. /\ QueueInv(q', HttpListener, HttpThing)
        /\ Waiting(q') = Waiting(p1) \cup {Transform(r, own), User(r)} /\ q'.value = q.value
    BY <1>2, <1>3, <1>4, <2>1, ChainKeeps
  <2>q. QED BY <1>3, <2>1, <2>2, <2>3
<1>6. CASE Entry(r) # Null /\ Entry(r).is = "promise"
  <2>1. data[UrlOf[r]] = Entry(r)
    BY <1>6 DEF Entry
  <2>2. PICK s \in called : UrlOf[s] = UrlOf[r] /\ data[UrlOf[r]] = PromiseOf(Answer(s))
    BY <1>1, <1>6, <2>1 DEF AnswersDue, AnswerInv, Stored
  <2> DEFINE th == PromiseOf(Answer(s))
             p2 == Then(p1, th, Removing(r, th))
  <2>3. s \in Request /\ s # r
    BY <1>1, <2>2 DEF AnswersDue, AnswerInv
  <2>4. q' = Chain(p2, th, r) /\ xhr' = xhr /\ data' = data
    BY <1>6, <2>1, <2>2 DEF SendReq, p1, CacheGet, net
  <2>5. /\ th \in HttpThing /\ Removing(r, th) \in HttpListener /\ Removing(r, th).on = th
        /\ Removing(r, th).of = r /\ Removing(r, th).is = "removePendingReq" /\ th # own
    BY <2>3, HttpThings, CallbackFacts, OnePromise, Purposes
  <2>6. Removing(r, th) \notin Waiting(p1)
    BY <1>2, <1>4, <2>5, CallbackFacts
  <2>7. /\ QueueInv(p2, HttpListener, HttpThing) /\ Waiting(p2) = Waiting(p1) \cup {Removing(r, th)}
        /\ p2.value = q.value
    <3> HIDE DEF th
    <3>q. QED BY <1>2, <1>3, <2>5, <2>6, ThenKeeps
  <2>8. \A c \in Waiting(p2) : c.of = r => c.is = "removePendingReq"
    BY <1>2, <1>4, <2>5, <2>7
  <2> HIDE DEF p2
  <2>9. /\ QueueInv(q', HttpListener, HttpThing)
        /\ Waiting(q') = Waiting(p2) \cup {Transform(r, th), User(r)} /\ q'.value = q.value
    BY <2>3, <2>4, <2>7, <2>8, ChainKeeps
  <2>10. Waiting(q') = Waiting(p) \cup {Removing(r, own), Removing(r, th), Transform(r, th), User(r)}
    BY <1>3, <2>7, <2>9
  <2>q. QED BY <2>2, <2>3, <2>4, <2>9, <2>10
<1>7. CASE Entry(r) # Null /\ Entry(r).is # "promise"
  <2> DEFINE th == data[UrlOf[r]]
             p2 == Resolve(p1, Answer(r), th)
  <2>1. th = Entry(r) /\ r \in Cached
    BY <1>7 DEF Entry
  <2>2. q' = Chain(p2, own, r) /\ xhr' = xhr /\ data' = data
    BY <1>7, <2>1 DEF SendReq, p1, CacheGet, net
  <2>3. th \in HttpThing
    <3>1. PICK s \in called : th = q.value[Answer(s)]
      BY <1>1, <1>7, <2>1 DEF AnswersDue, AnswerInv, Stored
    <3>2. Answer(s) \in Deferred
      BY HttpThings DEF AnswersDue, AnswerInv
    <3>3. q.value[Answer(s)] \in HttpThing \cup {Null}
      BY <3>2, QueueFacts DEF AnswersDue, AnswerInv, QueueInv
    <3>q. QED BY <1>7, <2>1, <3>1, <3>3
  <2>4. Final(p1, th) # PromiseOf(Answer(r))
    BY <1>7, <2>1, FinalOfValue, OnePromise
  <2> HIDE DEF th
  <2>5. /\ QueueInv(p2, HttpListener, HttpThing) /\ Waiting(p2) = Waiting(p1)
        /\ \A d \in Deferred : p2.value[d] = IF d = Answer(r) THEN th ELSE q.value[d]
    BY <1>1, <1>2, <1>3, <2>3, <2>4, ResolveKeeps
  <2>6. \A c \in Waiting(p2) : c.of = r => c.is = "removePendingReq"
    BY <1>2, <1>4, <2>5
  <2> HIDE DEF p2
  <2>7. /\ QueueInv(q', HttpListener, HttpThing)
        /\ Waiting(q') = Waiting(p2) \cup {Transform(r, own), User(r)} /\ q'.value = p2.value
    BY <2>2, <2>5, <2>6, ChainKeeps
  <2>8. Waiting(q') = Waiting(p) \cup {Removing(r, own), Transform(r, own), User(r)}
    BY <1>3, <2>5, <2>7
  <2>9. th # Null /\ th.is # "promise"
    BY <1>7, <2>1
  <2>q. QED BY <2>2, <2>5, <2>7, <2>8, <2>9 DEF th
<1>q. QED BY <1>5, <1>6, <1>7

LEMMA RequestServed ==
    ASSUME AnswerInv, NEW p, QueueInv(p, HttpListener, HttpThing), p.value = q.value,
           Waiting(p) \subseteq Waiting(q), \A c \in Waiting(q) : c.is # "user" => c \in Waiting(p),
           NEW r \in Request, SendReq(r, p), UNCHANGED <<fired, canceled>>, NEW list, list = answers
    PROVE  /\ AnswersDue' /\ HeardBy(list)'
           /\ r \notin called /\ called \subseteq called' /\ Lasting(q', q)
           /\ \A c \in Waiting(q') : c \in Waiting(p) \/ c.of = r
<1>1. PICK s \in Request :
        /\ UrlOf[s] = UrlOf[r]
        /\ QueueInv(q', HttpListener, HttpThing)
        /\ Waiting(q') = Waiting(p) \cup {Removing(r, PromiseOf(Answer(r))), Removing(r, PromiseOf(Answer(s))),
                                          Transform(r, PromiseOf(Answer(s))), User(r)}
        /\ \/ /\ s = r /\ q'.value = q.value /\ xhr' = [xhr EXCEPT ![r] = "sent"]
              /\ (r \in Cached /\ CachePut(UrlOf[r], PromiseOf(Answer(r)))) \/ data' = data
           \/ q'.value = q.value /\ xhr' = xhr /\ data' = data
           \/ /\ s = r /\ xhr' = xhr /\ data' = data
              /\ data[UrlOf[r]] # Null /\ data[UrlOf[r]].is # "promise"
              /\ \A d \in Deferred : q'.value[d] = IF d = Answer(r) THEN data[UrlOf[r]] ELSE q.value[d]
  BY RequestChained
<1>2. /\ r \notin called /\ called' = called \cup {r} /\ pendingRequests' = pendingRequests \cup {r}
      /\ called \subseteq Request /\ pendingRequests \subseteq called /\ DOMAIN xhr = Request
      /\ DOMAIN data = Address /\ UrlOf[r] \in Address
  BY HttpAssumption DEF SendReq, AnswersDue, AnswerInv
<1>3. /\ xhr[r] = "unsent" /\ q.value[Answer(r)] = Null /\ q.value[Response(r)] = Null
      /\ \A c \in Waiting(q) : c.of # r
  BY <1>2 DEF AnswersDue, AnswerInv, Unmade
<1>4. /\ \A c \in Waiting(q') : c \in Waiting(p) \/ c.of = r
      /\ \A c \in Waiting(q') : c.of = r => c \in {Removing(r, PromiseOf(Answer(r))), Removing(r, PromiseOf(Answer(s))),
                                                   Transform(r, PromiseOf(Answer(s))), User(r)}
  BY <1>1, <1>3, CallbackFacts
<1>5. /\ \A d \in Deferred : d # Answer(r) => q'.value[d] = q.value[d]
      /\ Lasting(q', q)
      /\ q'.value[Answer(r)] # Null =>
            /\ q'.value[Answer(r)] = data[UrlOf[r]] /\ data[UrlOf[r]] # Null /\ data[UrlOf[r]].is # "promise"
            /\ s = r /\ xhr' = xhr /\ data' = data
      /\ DOMAIN q.value = Deferred /\ DOMAIN q'.value = Deferred
  <2>1. DOMAIN q.value = Deferred /\ DOMAIN q'.value = Deferred
    BY <1>1 DEF AnswersDue, AnswerInv, QueueInv, Led
  <2>2. Answer(r) \in Deferred
    BY HttpThings
  <2>q. QED BY <1>1, <1>3, <2>1, <2>2 DEF Lasting
<1>6. \A k \in Request : k # r => q'.value[Answer(k)] = q.value[Answer(k)] /\ xhr'[k] = xhr[k]
  BY <1>1, <1>2, <1>5, HttpThings, Purposes
<1>7. /\ DOMAIN xhr' = Request /\ DOMAIN data' = Address
      /\ \A u \in Address : \/ data'[u] \in {Null, data[u]}
                            \/ u = UrlOf[r] /\ data'[u] = PromiseOf(Answer(r))
  BY <1>1, <1>2, PutMay
<1>8. Definite'
  BY <1>5 DEF AnswersDue, AnswerInv, Definite
<1>9. Unmade'
  <2> SUFFICES ASSUME NEW k \in Request \ called'
               PROVE  /\ xhr'[k] = "unsent" /\ q'.value[Answer(k)] = Null /\ q'.value[Response(k)] = Null
                      /\ \A c \in Waiting(q') : c.of # k
    BY DEF Unmade
  <2>1. k \in Request \ called /\ k # r
    BY <1>2
  <2>2. /\ xhr[k] = "unsent" /\ q.value[Answer(k)] = Null /\ q.value[Response(k)] = Null
        /\ \A c \in Waiting(q) : c.of # k
    BY <2>1 DEF AnswersDue, AnswerInv, Unmade
  <2>3. q'.value[Response(k)] = q.value[Response(k)]
    BY <1>5, HttpThings, Purposes
  <2>q. QED BY <1>4, <1>6, <2>1, <2>2, <2>3
<1>10. Unset'
  <2> SUFFICES ASSUME NEW t \in Timer \ (fired \cup canceled)
               PROVE  /\ q'.value[Timeout(t)] = Null
                      /\ Timeout(t) \notin defers' => \A c \in Waiting(q') : c.of # t
    BY DEF Unset
  <2>1. q.value[Timeout(t)] = Null /\ (Timeout(t) \notin defers => \A c \in Waiting(q) : c.of # t)
    BY DEF AnswersDue, AnswerInv, Unset
  <2>2. q'.value[Timeout(t)] = q.value[Timeout(t)]
    BY <1>5, HttpThings, Purposes
  <2>3. Timeout(t) \in defers => Timeout(t) \in defers'
    BY DEF SendReq, Send, net
  <2>q. QED BY <1>4, <2>1, <2>2, <2>3, HttpAssumption
<1>11. Unanswered'
  <2> SUFFICES ASSUME NEW k \in Request, xhr'[k] = "sent" PROVE q'.value[Answer(k)] = Null
    BY DEF Unanswered
  <2>1. CASE k = r
    BY <1>3, <1>5, <2>1
  <2>2. CASE k # r
    BY <1>6, <2>2 DEF AnswersDue, AnswerInv, Unanswered
  <2>q. QED BY <2>1, <2>2
<1>12. Told'
  <2> SUFFICES ASSUME NEW k \in Request, q'.value[Answer(k)] # Null
               PROVE  LET o == q'.value[Answer(k)].of
                      IN o \in Request /\ q'.value[Answer(o)] = q'.value[Answer(k)] /\ UrlOf[o] = UrlOf[k]
    BY DEF Told
  <2>1. PICK j \in Request : q.value[Answer(j)] # Null /\ q'.value[Answer(k)] = q.value[Answer(j)] /\ UrlOf[j] = UrlOf[k]
    <3>1. CASE k # r
      BY <1>6, <3>1
    <3>2. CASE k = r
      <4>1. PICK o \in called : UrlOf[o] = UrlOf[r] /\ data[UrlOf[r]] = q.value[Answer(o)]
        BY <1>2, <1>5, <3>2 DEF AnswersDue, AnswerInv, Stored
      <4>q. QED BY <1>2, <1>5, <3>2, <4>1
    <3>q. QED BY <3>1, <3>2
  <2> DEFINE o == q.value[Answer(j)].of
  <2>2. o \in Request /\ q.value[Answer(o)] = q.value[Answer(j)] /\ UrlOf[o] = UrlOf[j]
    BY <2>1 DEF AnswersDue, AnswerInv, Told
  <2>3. q'.value[Answer(o)] = q.value[Answer(o)]
    BY <2>1, <2>2, <1>5, HttpThings DEF Lasting
  <2>q. QED BY <2>1, <2>2, <2>3
<1>13. Stored'
  <2> SUFFICES ASSUME NEW u \in Address, data'[u] # Null
               PROVE  \E o \in called' :
                        /\ UrlOf[o] = u
                        /\ data'[u] = IF data'[u].is = "promise" THEN PromiseOf(Answer(o)) ELSE q'.value[Answer(o)]
    BY DEF Stored
  <2>1. CASE u = UrlOf[r] /\ data'[u] = PromiseOf(Answer(r))
    BY <1>2, <2>1, OnePromise
  <2>2. CASE data'[u] = data[u]
    <3>1. PICK o \in called :
            UrlOf[o] = u /\ data[u] = IF data[u].is = "promise" THEN PromiseOf(Answer(o)) ELSE q.value[Answer(o)]
      BY <2>2 DEF AnswersDue, AnswerInv, Stored
    <3>2. o \in Request /\ o # r /\ o \in called'
      BY <1>2
    <3>q. QED BY <1>6, <2>2, <3>1, <3>2
  <2>q. QED BY <1>7, <2>1, <2>2
<1>14. Served'
  <2> SUFFICES ASSUME NEW k \in called' PROVE \E o \in Request : Serves(k, o)'
    BY DEF Served
  <2>1. CASE k = r
    <3>1. UrlOf[s] = UrlOf[r]
      BY <1>1
    <3>2. s # r => q'.value[Answer(r)] = Null /\ xhr'[r] = "unsent"
      BY <1>1, <1>3, <1>5
    <3>3. q'.value[Response(r)] = Null
      BY <1>3, <1>5, HttpThings, Purposes
    <3>4. /\ Removing(r, PromiseOf(Answer(s))) \in Waiting(q') /\ Transform(r, PromiseOf(Answer(s))) \in Waiting(q')
          /\ r \in pendingRequests'
      BY <1>1, <1>2
    <3>5. \A c \in Waiting(q') : c.of = r =>
           \/ c.is = "user"
           \/ c \in {Removing(r, PromiseOf(Answer(j))) : j \in {r, s}}
           \/ c = Transform(r, PromiseOf(Answer(s)))
      BY <1>4, CallbackFacts
    <3>6. Serves(r, s)'
      BY <3>1, <3>2, <3>3, <3>4, <3>5 DEF Serves
    <3>q. QED BY <2>1, <3>6
  <2>2. CASE k # r
    <3>1. k \in called /\ k \in Request
      BY <1>2, <2>2
    <3>2. PICK o \in Request : Serves(k, o)
      BY <3>1 DEF AnswersDue, AnswerInv, Served
    <3>3. q'.value[Response(k)] = q.value[Response(k)]
      BY <1>5, <3>1, HttpThings, Purposes
    <3>4. q'.value[Answer(k)] = q.value[Answer(k)] /\ xhr'[k] = xhr[k]
      BY <1>6, <2>2, <3>1
    <3>5. /\ \A c \in Waiting(q') : c.of = k /\ c.is # "user" => c \in Waiting(q)
          /\ \A c \in Waiting(q) : c.of = k /\ c.is # "user" => c \in Waiting(q')
          /\ k \in pendingRequests' <=> k \in pendingRequests
      BY <1>1, <1>2, <1>4, <2>2
    <3>6. Serves(k, o)'
      BY <1>5, <3>1, <3>2, <3>3, <3>4, <3>5, ServesStays
    <3>q. QED BY <3>6
  <2>q. QED BY <2>1, <2>2
<1>15. HeardBy(list)'
  <2>1. \A c \in Waiting(q') : c.is = "user" =>
            c \in Waiting(q) \/ c.of \in Request \ called \/ c.of \in Timer \ (fired \cup canceled)
    BY <1>2, <1>4
  <2>q. QED BY <1>2, <1>5, <2>1, HeardStays
<1>16. (QueueInv(q, HttpListener, HttpThing))'
  BY <1>1 DEF HttpListener, HttpThing
<1>17. AnswersDue'
  BY <1>2, <1>7, <1>8, <1>9, <1>10, <1>11, <1>12, <1>13, <1>14, <1>16 DEF AnswersDue
<1>q. QED BY <1>2, <1>4, <1>5, <1>15, <1>17

------------------------------------------------------------------------------
(* An answer, a timer and the ticks.                                          *)

\* An answer is given to its request and to the cache, or it is lost (done).
LEMMA AnswerServed ==
    ASSUME AnswerInv, NEW r \in Request, NEW th \in {ValueOf(r), Reject(r)}, NEW timers,
           xhr[r] = "sent", xhr' = [xhr EXCEPT ![r] = "done"], Done(r, th, timers),
           defers' = defers \/ defers' = defers \ {Answer(r)},
           UNCHANGED <<called, pendingRequests, fired, canceled, answers>>
    PROVE  AnswerInv'
<1>1. /\ q.value[Answer(r)] = Null /\ r \in called /\ UrlOf[r] \in Address
      /\ DOMAIN data = Address /\ DOMAIN xhr = Request /\ called \subseteq Request
  BY HttpAssumption DEF AnswersDue, AnswerInv, Unanswered, Unmade
<1>2. th \in HttpThing /\ th.is # "promise" /\ th.of = r /\ th # Null /\ Answer(r) \in Deferred
  <2>1. th \in HttpThing /\ Answer(r) \in Deferred
    BY HttpThings
  <2>2. th # Null
    BY HttpAssumption
  <2>3. th.is # "promise" /\ th.of = r
    BY DEF ValueOf, Reject
  <2>q. QED BY <2>1, <2>2, <2>3
<1>3. /\ QueueInv(q', HttpListener, HttpThing) /\ Waiting(q') = Waiting(q)
      /\ \A d \in Deferred : d # Answer(r) => q'.value[d] = q.value[d]
      /\ \/ q'.value[Answer(r)] = th
         \/ q' = q /\ data' = data
  <2>1. CASE q' = Resolve(q, Answer(r), th)
    <3>1. QueueInv(q, HttpListener, HttpThing) /\ Thenables(HttpListener, HttpThing)
      BY HttpThings DEF AnswersDue, AnswerInv
    <3>2. Final(q, th) # PromiseOf(Answer(r))
      BY <1>2, FinalOfValue, OnePromise
    <3>3. /\ QueueInv(q', HttpListener, HttpThing) /\ Waiting(q') = Waiting(q)
          /\ \A d \in Deferred : q'.value[d] = IF d = Answer(r) /\ q.value[Answer(r)] = Null THEN th ELSE q.value[d]
      BY <1>2, <2>1, <3>1, <3>2, ResolveKeeps
    <3>q. QED BY <1>1, <1>2, <3>3
  <2>2. CASE q' = q /\ data' = data
    BY <2>2 DEF AnswersDue, AnswerInv
  <2>q. QED BY <2>1, <2>2 DEF Done, cache
<1>4. /\ DOMAIN data' = Address
      /\ \A u \in Address : \/ data'[u] \in {Null, data[u]}
                            \/ u = UrlOf[r] /\ data'[u] = th /\ q'.value[Answer(r)] = th
  <2>1. CASE data' = data
    BY <1>1, <2>1
  <2>2. CASE q' = Resolve(q, Answer(r), th) /\ CachePut(UrlOf[r], th)
    <3>1. q'.value[Answer(r)] = th
      BY <1>1, <1>2, <2>2 DEF Resolve, AnswersDue, AnswerInv, QueueInv, Led
    <3>q. QED BY <1>1, <2>2, <3>1, PutMay
  <2>3. CASE CacheRemove(UrlOf[r])
    BY <1>1, <2>3 DEF CacheRemove
  <2>q. QED BY <2>1, <2>2, <2>3 DEF Done, cache
<1>5. Lasting(q', q) /\ xhr'[r] = "done" /\ \A k \in Request : k # r => xhr'[k] = xhr[k]
  BY <1>1, <1>3 DEF Lasting
<1>6. \A k \in Request : k # r => q'.value[Answer(k)] = q.value[Answer(k)]
  BY <1>3, HttpThings, Purposes
<1>7. \A k \in Request : q'.value[Response(k)] = q.value[Response(k)]
  BY <1>3, HttpThings, Purposes
<1>8. Definite'
  BY <1>2, <1>3 DEF AnswersDue, AnswerInv, Definite
<1>9. Unmade'
  <2> SUFFICES ASSUME NEW k \in Request \ called
               PROVE  /\ xhr'[k] = "unsent" /\ q'.value[Answer(k)] = Null /\ q'.value[Response(k)] = Null
                      /\ \A c \in Waiting(q') : c.of # k
    BY DEF Unmade
  <2>q. QED BY <1>1, <1>3, <1>5, <1>6, <1>7 DEF AnswersDue, AnswerInv, Unmade
<1>10. Unset'
  <2> SUFFICES ASSUME NEW t \in Timer \ (fired \cup canceled)
               PROVE  /\ q'.value[Timeout(t)] = Null
                      /\ Timeout(t) \notin defers' => \A c \in Waiting(q') : c.of # t
    BY DEF Unset
  <2>1. Timeout(t) \in Deferred /\ Timeout(t) # Answer(r)
    BY HttpThings, Purposes
  <2>q. QED BY <1>3, <2>1 DEF AnswersDue, AnswerInv, Unset
<1>11. Unanswered'
  BY <1>5, <1>6 DEF AnswersDue, AnswerInv, Unanswered
<1>12. Told'
  <2> SUFFICES ASSUME NEW k \in Request, q'.value[Answer(k)] # Null
               PROVE  LET o == q'.value[Answer(k)].of
                      IN o \in Request /\ q'.value[Answer(o)] = q'.value[Answer(k)] /\ UrlOf[o] = UrlOf[k]
    BY DEF Told
  <2>1. CASE k = r
    BY <1>1, <1>2, <1>3, <2>1
  <2>2. CASE k # r
    <3> DEFINE o == q.value[Answer(k)].of
    <3>1. q'.value[Answer(k)] = q.value[Answer(k)] /\ q.value[Answer(k)] # Null
      BY <1>6, <2>2
    <3>2. o \in Request /\ q.value[Answer(o)] = q.value[Answer(k)] /\ UrlOf[o] = UrlOf[k]
      BY <3>1 DEF AnswersDue, AnswerInv, Told
    <3>3. q'.value[Answer(o)] = q.value[Answer(o)]
      BY <1>5, <3>1, <3>2, HttpThings DEF Lasting
    <3>q. QED BY <3>1, <3>2, <3>3
  <2>q. QED BY <2>1, <2>2
<1>13. Stored'
  <2> SUFFICES ASSUME NEW u \in Address, data'[u] # Null
               PROVE  \E o \in called :
                        /\ UrlOf[o] = u
                        /\ data'[u] = IF data'[u].is = "promise" THEN PromiseOf(Answer(o)) ELSE q'.value[Answer(o)]
    BY DEF Stored
  <2>1. CASE u = UrlOf[r] /\ data'[u] = th /\ q'.value[Answer(r)] = th
    BY <1>1, <1>2, <2>1
  <2>2. CASE data'[u] = data[u]
    <3>1. PICK o \in called :
            UrlOf[o] = u /\ data[u] = IF data[u].is = "promise" THEN PromiseOf(Answer(o)) ELSE q.value[Answer(o)]
      BY <2>2 DEF AnswersDue, AnswerInv, Stored
    <3>2. Answer(o) \in Deferred
      BY <1>1, HttpThings
    <3>3. data[u].is # "promise" => q'.value[Answer(o)] = q.value[Answer(o)]
      BY <1>5, <2>2, <3>1, <3>2 DEF Lasting
    <3>q. QED BY <2>2, <3>1, <3>3
  <2>q. QED BY <1>4, <2>1, <2>2
<1>14. Served'
  <2> SUFFICES ASSUME NEW k \in called PROVE \E o \in Request : Serves(k, o)'
    BY DEF Served
  <2>1. k \in Request
    BY <1>1
  <2>2. PICK o \in Request : Serves(k, o)
    BY DEF AnswersDue, AnswerInv, Served
  <2>3. o # k => k # r
    BY <2>2 DEF Serves
  <2>4. Serves(k, o)'
    BY <1>3, <1>5, <1>6, <1>7, <2>1, <2>2, <2>3, ServesStays
  <2>q. QED BY <2>4
<1>15. HeardBy(answers)'
  <2>1. \A c \in Waiting(q') : c.is = "user" =>
            c \in Waiting(q) \/ c.of \in Request \ called \/ c.of \in Timer \ (fired \cup canceled)
    BY <1>3
  <2>2. ASSUME NEW list, list = answers PROVE HeardBy(list)'
    BY <1>5, <2>1, <2>2, HeardStays
  <2>q. QED BY <2>2 DEF HeardBy
<1>16. (QueueInv(q, HttpListener, HttpThing))'
  BY <1>3 DEF HttpListener, HttpThing
<1>17. called' \subseteq Request /\ pendingRequests' \subseteq called' /\ DOMAIN xhr' = Request
  BY <1>1 DEF AnswersDue, AnswerInv
<1>q. QED
  BY <1>4, <1>8, <1>9, <1>10, <1>11, <1>12, <1>13, <1>14, <1>15, <1>16, <1>17 DEF AnswersDue, AnswerInv

\* A step that answers no request and changes nothing but the deferreds of timers.
LEMMA ServedAside ==
    ASSUME AnswerInv, UNCHANGED <<xhr, data, called, pendingRequests>>, NEW list, list = answers,
           QueueInv(q', HttpListener, HttpThing),
           \A d \in Deferred :
               \/ q'.value[d] = q.value[d]
               \/ q.value[d] = Null /\ q'.value[d].is # "promise" /\ \E t \in Timer : d = Timeout(t),
           \A c \in Waiting(q') : c \in Waiting(q) \/ c.of \in Timer \ (fired \cup canceled),
           \A c \in Waiting(q) : c.is # "user" => c \in Waiting(q'),
           fired \cup canceled \subseteq fired' \cup canceled', Unset'
    PROVE  AnswersDue' /\ HeardBy(list)'
<1>1. /\ DOMAIN xhr' = Request /\ DOMAIN data' = Address /\ called' \subseteq Request
      /\ Definite' /\ Unmade' /\ Unanswered' /\ Told' /\ Stored' /\ Lasting(q', q)
  BY AnswersStay, Purposes
<1>2. Served'
  <2> SUFFICES ASSUME NEW k \in called PROVE \E o \in Request : Serves(k, o)'
    BY DEF Served
  <2>1. k \in Request
    BY DEF AnswersDue, AnswerInv
  <2>2. PICK o \in Request : Serves(k, o)
    BY DEF AnswersDue, AnswerInv, Served
  <2>3. q'.value[Response(k)] = q.value[Response(k)] /\ q'.value[Answer(k)] = q.value[Answer(k)]
    BY <2>1, HttpThings, Purposes
  <2>4. \A c \in Waiting(q') : c.of = k /\ c.is # "user" => c \in Waiting(q)
    BY <2>1, HttpAssumption
  <2>5. Serves(k, o)'
    BY <1>1, <2>1, <2>2, <2>3, <2>4, ServesStays
  <2>q. QED BY <2>5
<1>3. HeardBy(list)'
  BY <1>1, HeardStays
<1>4. (QueueInv(q, HttpListener, HttpThing))'
  BY DEF HttpListener, HttpThing
<1>5. pendingRequests' \subseteq called'
  BY DEF AnswersDue, AnswerInv
<1>q. QED BY <1>1, <1>2, <1>3, <1>4, <1>5 DEF AnswersDue

\* A timer starts, runs or is cancelled: no request is concerned.
LEMMA TimerStarted ==
    ASSUME AnswerInv, NEW t \in Timer, StartTimer(t)
    PROVE  AnswerInv'
<1>1. /\ Timeout(t) \notin defers /\ t \notin fired \cup canceled /\ defers' = defers \cup {Timeout(t)}
      /\ q' = Then(q, PromiseOf(Timeout(t)), Running(t))
      /\ UNCHANGED <<xhr, data, called, pendingRequests, answers, fired, canceled>>
  BY DEF StartTimer, Idle, cache, timing
<1>2. /\ QueueInv(q, HttpListener, HttpThing) /\ Thenables(HttpListener, HttpThing)
      /\ PromiseOf(Timeout(t)) \in HttpThing /\ Running(t) \in HttpListener
      /\ Running(t).on = PromiseOf(Timeout(t)) /\ Running(t).of = t
  BY HttpThings, CallbackFacts DEF AnswersDue, AnswerInv
<1>3. Running(t) \notin Waiting(q)
  BY <1>1, <1>2 DEF AnswersDue, AnswerInv, Unset
<1>4. /\ QueueInv(q', HttpListener, HttpThing) /\ Waiting(q') = Waiting(q) \cup {Running(t)}
      /\ q'.value = q.value
  BY <1>1, <1>2, <1>3, ThenKeeps
<1>5. Unset'
  BY <1>1, <1>2, <1>4 DEF AnswersDue, AnswerInv, Unset
<1>6. ASSUME NEW list, list = answers PROVE AnswersDue' /\ HeardBy(list)'
  BY <1>1, <1>2, <1>4, <1>5, <1>6, ServedAside
<1>q. QED BY <1>1, <1>6 DEF AnswerInv, HeardBy

LEMMA TimerOver ==
    ASSUME AnswerInv, NEW t \in Timer, Timeout(t) \in defers, defers' = defers \ {Timeout(t)},
           NEW th \in {ValueOf(t), Reject(t), Reject("canceled")}, q' = Resolve(q, Timeout(t), th),
           fired' \cup canceled' = fired \cup canceled \cup {t},
           UNCHANGED <<xhr, data, called, pendingRequests, answers>>
    PROVE  AnswerInv'
<1>1. /\ QueueInv(q, HttpListener, HttpThing) /\ Thenables(HttpListener, HttpThing)
      /\ th \in HttpThing /\ Timeout(t) \in Deferred
  BY HttpThings DEF AnswersDue, AnswerInv
<1>2. th.is # "promise"
  BY OnePromise
<1>3. Final(q, th) # PromiseOf(Timeout(t))
  BY <1>2, FinalOfValue, OnePromise
<1>4. /\ QueueInv(q', HttpListener, HttpThing) /\ Waiting(q') = Waiting(q)
      /\ \A d \in Deferred : q'.value[d] = IF d = Timeout(t) /\ q.value[Timeout(t)] = Null THEN th ELSE q.value[d]
  BY <1>1, <1>3, ResolveKeeps
<1>5. Unset'
  <2> SUFFICES ASSUME NEW s \in Timer \ (fired' \cup canceled')
               PROVE  /\ q'.value[Timeout(s)] = Null
                      /\ Timeout(s) \notin defers' => \A c \in Waiting(q') : c.of # s
    BY DEF Unset
  <2>1. s # t /\ s \in Timer \ (fired \cup canceled) /\ Timeout(s) \in Deferred /\ Timeout(s) # Timeout(t)
    BY HttpThings, Purposes
  <2>q. QED BY <1>4, <2>1 DEF AnswersDue, AnswerInv, Unset
<1>6. ASSUME NEW list, list = answers PROVE AnswersDue' /\ HeardBy(list)'
  BY <1>2, <1>4, <1>5, <1>6, ServedAside
<1>q. QED BY <1>6 DEF AnswerInv, HeardBy

\* Nothing moves but the timers of requests and what is counted.
LEMMA AnswersRest ==
    ASSUME AnswerInv, UNCHANGED <<q, xhr, data, called, pendingRequests, answers, fired, canceled>>,
           \A t \in Timer : Timeout(t) \in defers => Timeout(t) \in defers'
    PROVE  AnswerInv'
<1>1. QueueInv(q', HttpListener, HttpThing) /\ Unset'
  BY DEF AnswersDue, AnswerInv, Unset
<1>2. ASSUME NEW list, list = answers PROVE AnswersDue' /\ HeardBy(list)'
  BY <1>1, <1>2, ServedAside
<1>q. QED BY <1>2 DEF AnswerInv, HeardBy

LEMMA FlushServed ==
    ASSUME AnswerInv, q.ticks # <<>>, RunFlush(Head(q.ticks)), UNCHANGED <<fired, canceled>>
    PROVE  AnswerInv'
<1> DEFINE h == Head(q.ticks)
<1>1. /\ h.is = "flush" /\ q' = Flush(Popped(q), h)
      /\ UNCHANGED <<xhr, data, defers, called, pendingRequests, answers>>
  BY DEF RunFlush, cache, net
<1>2. QueueInv(q, HttpListener, HttpThing) /\ Thenables(HttpListener, HttpThing)
  BY HttpThings DEF AnswersDue, AnswerInv
<1>3. QueueInv(q', HttpListener, HttpThing) /\ Waiting(q') = Waiting(q) /\ q'.value = q.value
  BY <1>1, <1>2, FlushKeeps
<1>4. Unset'
  BY <1>1, <1>3 DEF AnswersDue, AnswerInv, Unset
<1>5. ASSUME NEW list, list = answers PROVE AnswersDue' /\ HeardBy(list)'
  BY <1>1, <1>3, <1>4, <1>5, ServedAside
<1>q. QED BY <1>1, <1>5 DEF AnswerInv, HeardBy

\* The callback of a tick is called with what its promise came to.
LEMMA Called ==
    ASSUME AnswerInv, q.ticks # <<>>, Head(q.ticks).is = "call"
    PROVE  LET c == Head(q.ticks).callback
               with == Head(q.ticks).with
           IN /\ c \in HttpListener /\ with \in HttpThing /\ with # Null /\ with.is # "promise"
              /\ c \in Waiting(q) /\ Waiting(Popped(q)) = Waiting(q) \ {c}
              /\ QueueInv(Popped(q), HttpListener, HttpThing) /\ Popped(q).value = q.value
              /\ \A d \in Deferred : c.on = PromiseOf(d) => with = q.value[d]
<1> DEFINE c == Head(q.ticks).callback
           with == Head(q.ticks).with
<1>1. QueueInv(q, HttpListener, HttpThing) /\ Thenables(HttpListener, HttpThing) /\ Definite
  BY HttpThings DEF AnswersDue, AnswerInv
<1>2. /\ c \in HttpListener /\ with \in HttpThing /\ with.is # "promise" /\ Final(q, c.on) = with
      /\ QueueInv(Popped(q), HttpListener, HttpThing) /\ Popped(q).value = q.value
      /\ c \in Waiting(q) /\ Waiting(Popped(q)) = Waiting(q) \ {c}
  BY <1>1, CallTaken
<1>3. with # Null
  BY <1>1, <1>2 DEF Thenables, Thenable
<1>4. ASSUME NEW d \in Deferred, c.on = PromiseOf(d) PROVE with = q.value[d]
  <2>1. with = IF q.value[d] = Null THEN PromiseOf(d) ELSE q.value[d]
    BY <1>1, <1>2, <1>4, FinalDefinite DEF QueueInv
  <2>q. QED BY <1>2, <2>1, OnePromise
<1>q. QED BY <1>2, <1>3, <1>4

LEMMA RemoveServed ==
    ASSUME AnswerInv, q.ticks # <<>>, RunRemove(Head(q.ticks)), UNCHANGED <<fired, canceled>>
    PROVE  AnswerInv'
<1> DEFINE h == Head(q.ticks)
           c == h.callback
<1>1. /\ h.is = "call" /\ c.is = "removePendingReq" /\ q' = Popped(q)
      /\ pendingRequests' = pendingRequests \ {c.of} /\ UNCHANGED <<xhr, data, defers, called, answers>>
  BY DEF RunRemove, cache, net
<1>2. /\ c \in HttpListener /\ h.with # Null /\ c \in Waiting(q) /\ Waiting(q') = Waiting(q) \ {c}
      /\ QueueInv(q', HttpListener, HttpThing) /\ q'.value = q.value
      /\ \A d \in Deferred : c.on = PromiseOf(d) => h.with = q.value[d]
  BY <1>1, Called
<1> HIDE DEF h, c
<1>3. PICK r \in Request : c.of = r /\ c.is = "removePendingReq"
  BY <1>1, <1>2, ListenerFacts
<1>4. r \in called
  BY <1>2, <1>3 DEF AnswersDue, AnswerInv, Unmade
<1>5. /\ DOMAIN xhr' = Request /\ DOMAIN data' = Address /\ called' \subseteq Request
      /\ Definite' /\ Unmade' /\ Unanswered' /\ Told' /\ Stored' /\ Lasting(q', q)
  BY <1>1, <1>2, AnswersStay
<1>6. PICK s \in Request : Serves(r, s)
  BY <1>4 DEF AnswersDue, AnswerInv, Served
<1>7. q.value[Answer(s)] # Null
  <2>1. PICK j \in {r, s} : c = Removing(r, PromiseOf(Answer(j)))
    BY <1>2, <1>3, <1>6, CallbackFacts DEF Serves
  <2>2. q.value[Answer(j)] # Null
    BY <1>2, <1>3, <2>1, CallbackFacts, HttpThings
  <2>3. s # r => q.value[Answer(r)] = Null
    BY <1>6 DEF Serves
  <2>q. QED BY <2>2, <2>3
<1>8. Serves(r, s)'
  <2>1. r \notin pendingRequests'
    BY <1>1, <1>3
  <2>2. q.value[Response(r)] = Null => Transform(r, PromiseOf(Answer(s))) \in Waiting(q')
    BY <1>2, <1>3, <1>6, CallbackFacts DEF Serves
  <2>q. QED BY <1>1, <1>2, <1>3, <1>6, <1>7, <2>1, <2>2 DEF Serves
<1>9. Served'
  <2> SUFFICES ASSUME NEW k \in called PROVE \E o \in Request : Serves(k, o)'
    BY <1>1 DEF Served
  <2>1. CASE k = r
    BY <1>6, <1>8, <2>1
  <2>2. CASE k # r
    <3>1. PICK o \in Request : Serves(k, o)
      BY DEF AnswersDue, AnswerInv, Served
    <3>2. k \in Request
      BY DEF AnswersDue, AnswerInv
    <3>3. Serves(k, o)'
      BY <1>1, <1>2, <1>3, <1>5, <2>2, <3>1, <3>2, ServesStays
    <3>q. QED BY <3>3
  <2>q. QED BY <2>1, <2>2
<1>10. Unset'
  BY <1>1, <1>2 DEF AnswersDue, AnswerInv, Unset
<1>11. HeardBy(answers)'
  <2>1. ASSUME NEW list, list = answers PROVE HeardBy(list)'
    BY <1>1, <1>2, <1>5, <2>1, HeardStays
  <2>q. QED BY <1>1, <2>1 DEF HeardBy
<1>12. (QueueInv(q, HttpListener, HttpThing))' /\ pendingRequests' \subseteq called'
  <2>1. (QueueInv(q, HttpListener, HttpThing))'
    BY <1>2 DEF HttpListener, HttpThing
  <2>q. QED BY <1>1, <2>1 DEF AnswersDue, AnswerInv
<1>q. QED BY <1>5, <1>9, <1>10, <1>11, <1>12 DEF AnswersDue, AnswerInv

LEMMA TransformServed ==
    ASSUME AnswerInv, q.ticks # <<>>, RunTransform(Head(q.ticks)), UNCHANGED <<fired, canceled>>
    PROVE  AnswerInv'
<1> DEFINE h == Head(q.ticks)
           c == h.callback
           p == Popped(q)
<1>1. /\ h.is = "call" /\ c.is = "transformResponse"
      /\ UNCHANGED <<xhr, data, defers, called, pendingRequests, answers>>
      /\ \E x \in {h.with, Reject("thrown")} : q' = Resolve(p, Response(c.of), x)
  BY DEF RunTransform, cache, net
<1>o. PICK th \in {h.with, Reject("thrown")} : q' = Resolve(p, Response(c.of), th)
  BY <1>1
<1>2. /\ c \in HttpListener /\ h.with \in HttpThing /\ h.with # Null /\ h.with.is # "promise"
      /\ c \in Waiting(q) /\ Waiting(p) = Waiting(q) \ {c}
      /\ QueueInv(p, HttpListener, HttpThing) /\ p.value = q.value
      /\ \A d \in Deferred : c.on = PromiseOf(d) => h.with = q.value[d]
  BY <1>1, Called
<1>w. th \in HttpThing /\ th # Null /\ th.is # "promise"
  <2>1. h.with.is # "promise"
    BY <1>1, Called
  <2>q. QED BY <1>2, <2>1, HttpThings
<1> HIDE DEF h, c, p
<1>3. PICK r \in Request : c.of = r /\ c.is = "transformResponse" /\ Response(r) \in Deferred
  BY <1>1, <1>2, ListenerFacts, HttpThings
<1>4. r \in called
  BY <1>2, <1>3 DEF AnswersDue, AnswerInv, Unmade
<1>5. /\ QueueInv(q', HttpListener, HttpThing) /\ Waiting(q') = Waiting(q) \ {c}
      /\ \A d \in Deferred : q'.value[d] =
             IF d = Response(r) /\ q.value[Response(r)] = Null THEN th ELSE q.value[d]
  <2>1. Thenables(HttpListener, HttpThing) /\ Final(p, th) # PromiseOf(Response(r))
    BY <1>w, HttpThings, FinalOfValue, OnePromise
  <2>q. QED BY <1>o, <1>w, <1>2, <1>3, <2>1, ResolveKeeps
<1>6. /\ DOMAIN xhr' = Request /\ DOMAIN data' = Address /\ called' \subseteq Request
      /\ Definite' /\ Unmade' /\ Unanswered' /\ Told' /\ Stored' /\ Lasting(q', q)
  BY <1>1, <1>2, <1>w, <1>3, <1>4, <1>5, AnswersStay, Purposes
<1>7. PICK s \in Request : Serves(r, s)
  BY <1>4 DEF AnswersDue, AnswerInv, Served
<1>8. h.with = q.value[Answer(s)] /\ q'.value[Answer(s)] = q.value[Answer(s)]
  <2>1. c = Transform(r, PromiseOf(Answer(s)))
    BY <1>2, <1>3, <1>7, CallbackFacts DEF Serves
  <2>q. QED BY <1>2, <1>5, <2>1, CallbackFacts, HttpThings, Purposes
<1>9. /\ q'.value[Answer(s)] # Null /\ q'.value[Response(r)] # Null
      /\ q'.value[Response(r)] \in {q'.value[Answer(s)], Reject("thrown")}
  BY <1>2, <1>w, <1>3, <1>5, <1>7, <1>8 DEF Serves
<1>10. Serves(r, s)'
  <2>1. r \in pendingRequests' => Removing(r, PromiseOf(Answer(s))) \in Waiting(q')
    BY <1>1, <1>3, <1>5, <1>7, CallbackFacts DEF Serves
  <2>2. q'.value[Answer(r)] = q.value[Answer(r)]
    BY <1>3, <1>5, HttpThings, Purposes
  <2>q. QED BY <1>1, <1>3, <1>5, <1>7, <1>9, <2>1, <2>2 DEF Serves
<1>11. Served'
  <2> SUFFICES ASSUME NEW k \in called PROVE \E o \in Request : Serves(k, o)'
    BY <1>1 DEF Served
  <2>1. CASE k = r
    BY <1>7, <1>10, <2>1
  <2>2. CASE k # r
    <3>1. PICK o \in Request : Serves(k, o)
      BY DEF AnswersDue, AnswerInv, Served
    <3>2. k \in Request
      BY DEF AnswersDue, AnswerInv
    <3>3. q'.value[Response(k)] = q.value[Response(k)] /\ q'.value[Answer(k)] = q.value[Answer(k)]
      BY <1>5, <2>2, <3>2, HttpThings, Purposes
    <3>4. Serves(k, o)'
      BY <1>1, <1>3, <1>5, <1>6, <2>2, <3>1, <3>2, <3>3, ServesStays
    <3>q. QED BY <3>4
  <2>q. QED BY <2>1, <2>2
<1>12. Unset'
  <2>1. \A t \in Timer : q'.value[Timeout(t)] = q.value[Timeout(t)]
    BY <1>5, HttpThings, Purposes
  <2>q. QED BY <1>1, <1>5, <2>1 DEF AnswersDue, AnswerInv, Unset
<1>13. HeardBy(answers)'
  <2>1. ASSUME NEW list, list = answers PROVE HeardBy(list)'
    BY <1>1, <1>5, <1>6, <2>1, HeardStays
  <2>q. QED BY <1>1, <2>1 DEF HeardBy
<1>14. (QueueInv(q, HttpListener, HttpThing))' /\ pendingRequests' \subseteq called'
  <2>1. (QueueInv(q, HttpListener, HttpThing))'
    BY <1>5 DEF HttpListener, HttpThing
  <2>q. QED BY <1>1, <2>1 DEF AnswersDue, AnswerInv
<1>q. QED BY <1>6, <1>11, <1>12, <1>13, <1>14 DEF AnswersDue, AnswerInv

\* The application hears of what it has not heard of yet, and may ask again.
LEMMA UserServed ==
    ASSUME AnswerInv, q.ticks # <<>>, RunUser(Head(q.ticks)), UNCHANGED <<fired, canceled>>
    PROVE  AnswerInv'
<1> DEFINE h == Head(q.ticks)
           c == h.callback
           x == c.of
           p == Popped(q)
<1>1. /\ h.is = "call" /\ c.is = "user" /\ answers' = Append(answers, [to |-> x, with |-> h.with])
      /\ \/ q' = p /\ UNCHANGED <<xhr, data, defers, called, pendingRequests>>
         \/ \E r \in Request : SendReq(r, p)
  BY DEF RunUser, cache, net
<1>2. /\ c \in HttpListener /\ h.with \in HttpThing /\ h.with # Null
      /\ c \in Waiting(q) /\ Waiting(p) = Waiting(q) \ {c}
      /\ QueueInv(p, HttpListener, HttpThing) /\ p.value = q.value
      /\ \A d \in Deferred : c.on = PromiseOf(d) => h.with = q.value[d]
  BY <1>1, Called
<1> HIDE DEF h, c, p
<1>3. \/ x \in Request /\ x \notin Timer /\ c = User(x) /\ h.with = q.value[Response(x)]
      \/ x \in Timer /\ x \notin Request /\ c = Running(x) /\ h.with = q.value[Timeout(x)]
  <2>1. \/ x \in Request /\ c = User(x)
        \/ x \in Timer /\ c = Running(x)
    BY <1>1, <1>2, ListenerFacts
  <2>q. QED BY <1>2, <2>1, CallbackFacts, HttpThings, HttpAssumption
<1>4. x \in Request => x \in called
  BY <1>2 DEF AnswersDue, AnswerInv, Unmade
<1>5. x \in Timer => x \in fired \cup canceled
  BY <1>2, <1>3 DEF AnswersDue, AnswerInv, Unset
<1>6. \A i \in DOMAIN answers : answers[i].to # x
  BY <1>1, <1>2 DEF AnswersDue, AnswerInv, HeardBy
<1>7. \A k \in Waiting(p) : k.of = x => k.is # "user"
  <2> SUFFICES ASSUME NEW k \in Waiting(p), k.of = x, k.is = "user" PROVE FALSE
    OBVIOUS
  <2>1. k \in HttpListener /\ k # c
    BY <1>2, QueueFacts DEF QueueInv
  <2>q. QED BY <1>3, <2>1, ListenerFacts
<1>8. \E list : list = answers
  OBVIOUS
<1>9. PICK list : list = answers
  BY <1>8
<1>10. answers' = Append(list, [to |-> x, with |-> h.with]) /\ \A i \in DOMAIN list : list[i].to # x
  BY <1>1, <1>6, <1>9
<1>11. CASE q' = p /\ UNCHANGED <<xhr, data, defers, called, pendingRequests>>
  <2>1. Unset'
    BY <1>2, <1>11 DEF AnswersDue, AnswerInv, Unset
  <2>2. AnswersDue' /\ HeardBy(list)'
    BY <1>1, <1>2, <1>9, <1>11, <2>1, ServedAside
  <2>3. HeardBy(answers)'
    BY <1>2, <1>3, <1>4, <1>5, <1>7, <1>10, <1>11, <2>2, HeardMore
  <2>q. QED BY <2>2, <2>3 DEF AnswerInv
<1>12. ASSUME NEW r \in Request, SendReq(r, p) PROVE AnswerInv'
  <2>1. /\ AnswersDue' /\ HeardBy(list)'
        /\ r \notin called /\ called \subseteq called' /\ Lasting(q', q)
        /\ \A k \in Waiting(q') : k \in Waiting(p) \/ k.of = r
    BY <1>1, <1>2, <1>9, <1>12, RequestServed
  <2>2. \A k \in Waiting(q') : k.of = x => k.is # "user"
    BY <1>3, <1>4, <1>7, <2>1
  <2>3. x \in Request => h.with = q'.value[Response(x)]
    BY <1>2, <1>3, <2>1, HttpThings DEF Lasting
  <2>4. HeardBy(answers)'
    BY <1>2, <1>3, <1>4, <1>5, <1>10, <2>1, <2>2, <2>3, HeardMore
  <2>q. QED BY <2>1, <2>4 DEF AnswerInv
<1>q. QED BY <1>1, <1>11, <1>12

LEMMA AnswerInvNext == AnswerInv /\ [HttpNext]_httpVars => AnswerInv'
<1> SUFFICES ASSUME AnswerInv, [HttpNext]_httpVars PROVE AnswerInv'
  OBVIOUS
<1>1. ASSUME NEW r \in Request, CallHttp(r) PROVE AnswerInv'
  <2>1. SendReq(r, q) /\ UNCHANGED <<answers, fired, canceled>>
    BY <1>1 DEF CallHttp, timing
  <2>2. QueueInv(q, HttpListener, HttpThing)
    BY DEF AnswersDue, AnswerInv
  <2>3. ASSUME NEW list, list = answers PROVE AnswersDue' /\ HeardBy(list)'
    BY <2>1, <2>2, <2>3, RequestServed
  <2>q. QED BY <2>1, <2>3 DEF AnswerInv, HeardBy
<1>2. ASSUME NEW r \in Request, Receive(r) PROVE AnswerInv'
  BY <1>2, AnswerServed DEF Receive, timing
<1>3. ASSUME NEW r \in Request, TimeLimit(r) PROVE AnswerInv'
  <2>1. CASE xhr[r] = "sent"
    <3>1. /\ defers' = defers \ {Answer(r)} /\ xhr' = [xhr EXCEPT ![r] = "done"] /\ Done(r, Reject(r), 1)
          /\ UNCHANGED <<called, pendingRequests, fired, canceled, answers>>
      BY <1>3, <2>1 DEF TimeLimit, timing
    <3>2. Reject(r) \in {ValueOf(r), Reject(r)}
      OBVIOUS
    <3>q. QED BY <2>1, <3>1, <3>2, AnswerServed
  <2>2. CASE xhr[r] # "sent"
    <3>1. /\ defers' = defers \ {Answer(r)}
          /\ UNCHANGED <<q, xhr, data, called, pendingRequests, answers, fired, canceled>>
      BY <1>3, <2>2 DEF TimeLimit, timing, cache
    <3>q. QED BY <3>1, AnswersRest, Purposes
  <2>q. QED BY <2>1, <2>2
<1>4. ASSUME NEW t \in Timer, StartTimer(t) PROVE AnswerInv'
  BY <1>4, TimerStarted
<1>5. ASSUME NEW t \in Timer, Fire(t) PROVE AnswerInv'
  BY <1>5, TimerOver DEF Fire, Idle, cache
<1>6. ASSUME NEW t \in Timer, CancelTimer(t) PROVE AnswerInv'
  BY <1>6, TimerOver DEF CancelTimer, Idle, cache
<1>7. CASE RunTick
  <2>1. /\ q.ticks # <<>> /\ UNCHANGED <<fired, canceled>>
        /\ \/ RunFlush(Head(q.ticks)) \/ RunRemove(Head(q.ticks))
           \/ RunTransform(Head(q.ticks)) \/ RunUser(Head(q.ticks))
    BY <1>7 DEF RunTick, timing
  <2>q. QED BY <2>1, FlushServed, RemoveServed, TransformServed, UserServed
<1>8. CASE EndTurn
  BY <1>8, AnswersRest DEF EndTurn, Endings, cache, net, timing
<1>9. CASE UNCHANGED httpVars
  BY <1>9, AnswersRest DEF httpVars
<1>q. QED
  BY <1>1, <1>2, <1>3, <1>4, <1>5, <1>6, <1>7, <1>8, <1>9 DEF HttpNext, Network

LEMMA AnswerInvInit == HttpInit => AnswerInv
<1> SUFFICES ASSUME HttpInit PROVE AnswerInv
  OBVIOUS
<1>1. /\ q = [value |-> [d \in Deferred |-> Null], pending |-> [d \in Deferred |-> <<>>], ticks |-> <<>>]
      /\ called = {} /\ pendingRequests = {} /\ answers = <<>> /\ fired = {} /\ canceled = {}
      /\ DOMAIN xhr = Request /\ DOMAIN data = Address /\ (\A r \in Request : xhr[r] = "unsent")
      /\ \A u \in Address : data[u] = Null
  BY DEF HttpInit, Unresolved
<1>2. QueueInv(q, HttpListener, HttpThing) /\ Waiting(q) = {}
  BY <1>1, UnresolvedKeeps, HttpThings DEF Unresolved
<1>3. \A d \in Deferred : q.value[d] = Null
  BY <1>1
<1>4. Definite /\ Unmade /\ Unset /\ Unanswered /\ Told /\ Stored /\ Served
  BY <1>1, <1>2, <1>3, HttpThings DEF Definite, Unmade, Unset, Unanswered, Told, Stored, Served
<1>5. HeardBy(answers)
  <2>1. answers \in Seq([to : Request \cup Timer, with : HttpThing]) /\ DOMAIN answers = {}
    BY <1>1
  <2>q. QED BY <2>1 DEF HeardBy
<1>q. QED BY <1>1, <1>2, <1>4, <1>5 DEF AnswersDue, AnswerInv

LEMMA AnswersHold == AnswerInv => PendingExact /\ HeardOnce
<1> SUFFICES ASSUME AnswerInv PROVE PendingExact /\ HeardOnce
  OBVIOUS
<1>1. /\ QueueInv(q, HttpListener, HttpThing) /\ Led(q.value) /\ Definite
      /\ called \subseteq Request /\ pendingRequests \subseteq called
  BY DEF AnswersDue, AnswerInv, QueueInv
<1>2. PendingExact
  <2> SUFFICES ASSUME q.ticks = <<>>
               PROVE  pendingRequests = {r \in called : Final(q, PromiseOf(Response(r))).is = "promise"}
    BY DEF PendingExact
  <2>1. ASSUME NEW r \in called PROVE r \in pendingRequests <=> Final(q, PromiseOf(Response(r))).is = "promise"
    <3>1. r \in Request /\ Response(r) \in Deferred
      BY <1>1, HttpThings
    <3>2. Final(q, PromiseOf(Response(r))).is = "promise" <=> q.value[Response(r)] = Null
      BY <1>1, <3>1, FinalDefinite, OnePromise DEF Definite
    <3>3. PICK s \in Request : Serves(r, s)
      BY DEF AnswersDue, AnswerInv, Served
    <3>4. ASSUME NEW c \in Waiting(q), c.on = PromiseOf(Answer(s)) PROVE q.value[Answer(s)] = Null
      <4>1. Answer(s) \in Deferred
        BY HttpThings
      <4>2. Final(q, PromiseOf(Answer(s))).is = "promise"
        BY <1>1, <3>4, WaitsForPromise
      <4>q. QED BY <1>1, <4>1, <4>2, FinalDefinite DEF Definite
    <3>5. r \in pendingRequests => q.value[Answer(s)] = Null
      BY <3>3, <3>4, CallbackFacts DEF Serves
    <3>6. q.value[Response(r)] = Null => r \in pendingRequests
      BY <3>3, <3>4, CallbackFacts DEF Serves
    <3>7. r \in pendingRequests => q.value[Response(r)] = Null
      BY <3>3, <3>5 DEF Serves
    <3>q. QED BY <3>2, <3>6, <3>7
  <2>q. QED BY <1>1, <2>1
<1>3. HeardOnce
  <2>1. \A i, j \in DOMAIN answers : answers[i].to = answers[j].to => i = j
    BY DEF AnswerInv, HeardBy
  <2>2. ASSUME NEW i \in DOMAIN answers, answers[i].to \in Request
        PROVE  \/ answers[i].with = Reject("thrown")
               \/ /\ Final(q, PromiseOf(Answer(answers[i].with.of))) = answers[i].with
                  /\ UrlOf[answers[i].with.of] = UrlOf[answers[i].to]
    <3> DEFINE r == answers[i].to
               o == answers[i].with.of
    <3>1. r \in called /\ r \in Request /\ answers[i].with = q.value[Response(r)] /\ q.value[Response(r)] # Null
      BY <2>2 DEF AnswerInv, HeardBy
    <3>2. PICK s \in Request : Serves(r, s)
      BY <3>1 DEF AnswersDue, AnswerInv, Served
    <3> SUFFICES ASSUME answers[i].with # Reject("thrown")
                 PROVE  /\ Final(q, PromiseOf(Answer(o))) = answers[i].with
                        /\ UrlOf[o] = UrlOf[r]
      OBVIOUS
    <3>3. answers[i].with = q.value[Answer(s)] /\ q.value[Answer(s)] # Null /\ UrlOf[s] = UrlOf[r]
      BY <3>1, <3>2 DEF Serves
    <3>4. o \in Request /\ q.value[Answer(o)] = q.value[Answer(s)] /\ UrlOf[o] = UrlOf[s]
      BY <3>3 DEF AnswersDue, AnswerInv, Told
    <3>5. Answer(o) \in Deferred
      BY <3>4, HttpThings
    <3>6. Final(q, PromiseOf(Answer(o))) = q.value[Answer(o)]
      BY <1>1, <3>3, <3>4, <3>5, FinalDefinite
    <3>q. QED BY <3>3, <3>4, <3>6
  <2>q. QED BY <2>1, <2>2 DEF HeardOnce
<1>q. QED BY <1>2, <1>3

LEMMA AnswerInvHolds == HttpSpec => []AnswerInv
BY AnswerInvInit, AnswerInvNext, PTL DEF HttpSpec

------------------------------------------------------------------------------
(* The theorems.                                                              *)

LEMMA CountsHold == HttpInv => OutstandingExact
<1> SUFFICES ASSUME HttpInv PROVE OutstandingExact
  OBVIOUS
<1>1. /\ Cardinality(Open) \in Nat /\ Cardinality(defers) \in Nat /\ Cardinality(lost) \in Nat
      /\ Cardinality({}) = 0
  BY OpenFinite, FS_CardinalityType, EndingFinite DEF HttpInv
<1>q. QED BY <1>1 DEF HttpInv, Counted, OutstandingExact

\* Between two events outstandingRequestCount of $browser is what is outstanding and the
\* requests whose done threw; between two digests $http.pendingRequests holds the requests
\* without an answer; and the application hears of every request and timeout at most once,
\* of an answer of the server for its url or of what its transformResponse threw, whatever
\* the cache has room for and whichever digest throws (sendReq, done, transformResponse,
\* $timeout, completeRequest).
THEOREM AnswersHeardOnce == HttpSpec => [](OutstandingExact /\ PendingExact /\ HeardOnce)
BY HttpInvHolds, AnswerInvHolds, CountsHold, AnswersHold, PTL

\* With a cache that has room for every url, moreover, no two requests that share answers
\* ask for a url at once, and no cancelled timeout runs (sendReq, done, $httpBackend,
\* $browser.defer).
THEOREM RequestsStayAccounted == ASSUME Roomy PROVE HttpSpec => []RequestsAccounted
<1>1. HttpInv /\ AnswerInv => RequestsAccounted
  <2> SUFFICES ASSUME HttpInv, AnswerInv PROVE RequestsAccounted
    OBVIOUS
  <2>1. OneInFlight
    <3> SUFFICES ASSUME NEW r \in Open \cap Cached, NEW s \in Open \cap Cached, UrlOf[r] = UrlOf[s] PROVE r = s
      BY DEF OneInFlight
    <3>q. QED BY Apart DEF HttpInv, Placeheld
  <2>q. QED BY <2>1, CountsHold, AnswersHold DEF HttpInv, RequestsAccounted
<1>q. QED BY <1>1, HttpInvHolds, AnswerInvHolds, PTL
===============================================================================
