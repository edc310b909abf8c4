----------------------------- MODULE HttpClient -----------------------------
(* $http, $httpBackend, $timeout, $browser.defer and the cache of             *)
(* $cacheFactory in angular-1.0.0.js.  JavaScript runs one event at a time:   *)
(* an event starts a turn, whose $apply runs the ticks of the promises until   *)
(* none is left, and only then can the next answer or timer come.             *)
EXTENDS PromiseQueue, FiniteSets

CONSTANTS
    Request,    \* calls of $http
    Address, UrlOf, \* the urls, and that of every request
    Cached,     \* the requests with config.cache: GETs that share an answer
    Limited,    \* the requests with config.timeout
    Throwing,   \* those with a transformResponse that may throw
    Unstable,   \* those after whose answer the digest may throw at its limit
    Timer,      \* calls of $timeout
    Unapplied,  \* those with invokeApply = false
    Capacity    \* of the cache

Answer(r) == <<r, "answer">>
Response(r) == <<r, "response">>
Timeout(t) == <<t, "timeout">>

\* There are so many calls; each has its deferreds, and what stands for nothing is
\* nothing that a deferred is resolved with.
ASSUME HttpAssumption ==
    /\ IsFiniteSet(Request) /\ IsFiniteSet(Address) /\ IsFiniteSet(Timer)
    /\ Request \cap Timer = {}
    /\ UrlOf \in [Request -> Address] /\ Capacity \in Nat
    /\ \A r \in Request : {Answer(r), Response(r)} \subseteq Deferred
    /\ \A t \in Timer : Timeout(t) \in Deferred
    /\ \A d \in Deferred : Null # PromiseOf(d)
    /\ \A x \in Request \cup Timer \cup {"canceled", "thrown"} : Null \notin {ValueOf(x), Reject(x)}

VARIABLES
    q,            \* the promises
    phase,        \* "idle", or "digest" in the $apply of an event
    called,       \* the requests made
    pendingRequests,
    data, order,  \* the cache: its entries, and their urls from stale to fresh
    xhr,          \* "unsent", "sent" or "done"
    defers,       \* the timers of $browser.defer that wait
    outstanding,  \* outstandingRequestCount
    completing,   \* 1 in the turn of a timer, which is counted until its function is over
    served,       \* the request whose done is the turn: counted until done returns
    lost,         \* the requests whose done threw: counted for good
    answers,      \* the calls of the application's callbacks
    fired, canceled  \* the timers whose function ran, or that were cancelled

httpVars == <<q, phase, called, pendingRequests, data, order, xhr, defers, outstanding,
              completing, served, lost, answers, fired, canceled>>
ending == <<completing, served, lost>>
net == <<xhr, defers>>
cache == <<data, order>>
timing == <<fired, canceled>>

HttpInit ==
    /\ q = Unresolved(Deferred) /\ phase = "idle" /\ called = {} /\ pendingRequests = {}
    /\ data = [u \in Address |-> Null] /\ order = <<>>
    /\ xhr = [r \in Request |-> "unsent"] /\ defers = {} /\ outstanding = 0
    /\ completing = 0 /\ served = {} /\ lost = {}
    /\ answers = <<>> /\ fired = {} /\ canceled = {}

------------------------------------------------------------------------------
(* $cacheFactory: the least recently used entry goes when there are too many. *)

Refresh(o, u) == Append(SelectSeq(o, LAMBDA v : v # u), u)

CachePut(u, x) ==
    LET o == Refresh(order, u)
        over == Cardinality({v \in Address : data[v] # Null} \cup {u}) > Capacity
    IN /\ order' = IF over THEN Tail(o) ELSE o
       /\ data' = [v \in Address |-> IF over /\ v = Head(o) THEN Null
                                 ELSE IF v = u THEN x ELSE data[v]]

CacheGet(u) ==
    /\ order' = IF data[u] = Null THEN order ELSE Refresh(order, u)
    /\ UNCHANGED data

CacheRemove(u) ==
    /\ order' = SelectSeq(order, LAMBDA v : v # u)
    /\ data' = [data EXCEPT ![u] = Null]

------------------------------------------------------------------------------
(* $http: the promise of the answer takes the request off pendingRequests; the *)
(* promise that the application gets transforms the answer.                    *)

Removing(r, th) == [is |-> "removePendingReq", of |-> r, on |-> th]
Transform(r, th) == [is |-> "transformResponse", of |-> r, on |-> th]
User(r) == [is |-> "user", of |-> r, on |-> PromiseOf(Response(r))]

\* The callbacks that $http and the application chain to the promise th.
Chain(p, th, r) == Then(Then(p, th, Transform(r, th)), PromiseOf(Response(r)), User(r))

Entry(r) == IF r \in Cached THEN data[UrlOf[r]] ELSE Null

Send(r, p) ==
    /\ xhr' = [xhr EXCEPT ![r] = "sent"]
    /\ defers' = IF r \in Limited THEN defers \cup {Answer(r)} ELSE defers
    /\ outstanding' = outstanding + (IF r \in Limited THEN 2 ELSE 1)
    /\ q' = Chain(p, PromiseOf(Answer(r)), r)
    /\ IF r \in Cached THEN CachePut(UrlOf[r], PromiseOf(Answer(r))) ELSE UNCHANGED cache

\* p: the promises, without the tick that makes the request.
SendReq(r, p) ==
    LET p1 == Then(p, PromiseOf(Answer(r)), Removing(r, PromiseOf(Answer(r))))
    IN /\ r \notin called /\ called' = called \cup {r}
       /\ pendingRequests' = pendingRequests \cup {r}
       /\ CASE Entry(r) = Null -> Send(r, p1)
            [] Entry(r) # Null /\ Entry(r).is = "promise" ->
                 /\ q' = Chain(Then(p1, Entry(r), Removing(r, Entry(r))), Entry(r), r)
                 /\ CacheGet(UrlOf[r]) /\ UNCHANGED <<net, outstanding>>
            [] OTHER ->
                 /\ q' = Chain(Resolve(p1, Answer(r), Entry(r)), PromiseOf(Answer(r)), r)
                 /\ CacheGet(UrlOf[r]) /\ UNCHANGED <<net, outstanding>>

\* An event handler of the page: it runs in $apply.
CallHttp(r) ==
    /\ phase = "idle" /\ phase' = "digest" /\ SendReq(r, q)
    /\ UNCHANGED <<ending, answers, timing>>

------------------------------------------------------------------------------
(* $httpBackend.  completeRequest calls done, whose $apply is the whole turn,  *)
(* and takes one off the outstanding requests after it.                       *)

\* done, in the turn of as many timers: the answer goes to the cache and to the
\* promise.  Without an entry to remove, cache.remove throws: the promise is never
\* resolved, and completeRequest does not take the request off the outstanding ones.
Done(r, th, timers) ==
    IF r \in Cached /\ th.is = "rejection" /\ data[UrlOf[r]] = Null
    THEN /\ outstanding' = outstanding - timers /\ lost' = lost \cup {r}
         /\ UNCHANGED <<q, cache, phase, completing, served>>
    ELSE /\ q' = Resolve(q, Answer(r), th) /\ UNCHANGED outstanding
         /\ IF r \notin Cached THEN UNCHANGED cache
            ELSE IF th.is = "value" THEN CachePut(UrlOf[r], th) ELSE CacheRemove(UrlOf[r])
         /\ phase' = "digest" /\ completing' = timers /\ served' = {r} /\ UNCHANGED lost

\* onreadystatechange: an answer, good or bad, or no connection.
Receive(r) ==
    /\ phase = "idle" /\ xhr[r] = "sent" /\ xhr' = [xhr EXCEPT ![r] = "done"]
    /\ \E th \in {ValueOf(r), Reject(r)} : Done(r, th, 0)
    /\ UNCHANGED <<called, pendingRequests, defers, answers, timing>>

\* Mutant: the abort of an open request answers nobody.
TimeLimitSilent(r) ==
    /\ phase = "idle" /\ Answer(r) \in defers /\ defers' = defers \ {Answer(r)}
    /\ IF xhr[r] = "sent" THEN xhr' = [xhr EXCEPT ![r] = "done"] /\ outstanding' = outstanding - 2
                          ELSE outstanding' = outstanding - 1 /\ UNCHANGED xhr
    /\ UNCHANGED <<q, cache, phase, ending, called, pendingRequests, answers, timing>>

\* The timer of config.timeout: the abort of a request that is still open answers
\* it at once with status -1, of another it does nothing.
TimeLimit(r) ==
    /\ phase = "idle" /\ Answer(r) \in defers /\ defers' = defers \ {Answer(r)}
    /\ IF xhr[r] = "sent"
       THEN xhr' = [xhr EXCEPT ![r] = "done"] /\ Done(r, Reject(r), 1)
       ELSE /\ outstanding' = outstanding - 1
            /\ UNCHANGED <<q, xhr, cache, phase, ending>>
    /\ UNCHANGED <<called, pendingRequests, answers, timing>>

------------------------------------------------------------------------------
(* $timeout.                                                                  *)

Running(t) == [is |-> "user", of |-> t, on |-> PromiseOf(Timeout(t))]
Idle == <<called, pendingRequests, cache, xhr, answers>>

StartTimer(t) ==
    /\ phase = "idle" /\ phase' = "digest" /\ Timeout(t) \notin defers
    /\ t \notin fired \cup canceled
    /\ defers' = defers \cup {Timeout(t)} /\ outstanding' = outstanding + 1
    /\ q' = Then(q, PromiseOf(Timeout(t)), Running(t))
    /\ UNCHANGED <<Idle, ending, timing>>

\* The function of the application returns or throws; without $apply the promise
\* waits for the digest of another event.
Fire(t) ==
    /\ phase = "idle" /\ Timeout(t) \in defers /\ defers' = defers \ {Timeout(t)}
    /\ \E th \in {ValueOf(t), Reject(t)} : q' = Resolve(q, Timeout(t), th)
    /\ fired' = fired \cup {t}
    /\ IF t \in Unapplied
       THEN outstanding' = outstanding - 1 /\ UNCHANGED <<phase, ending>>
       ELSE phase' = "digest" /\ completing' = 1 /\ UNCHANGED <<outstanding, served, lost>>
    /\ UNCHANGED <<Idle, canceled>>

CancelTimer(t) ==
    /\ phase = "idle" /\ phase' = "digest"
    /\ Timeout(t) \in defers /\ defers' = defers \ {Timeout(t)}
    /\ outstanding' = outstanding - 1
    /\ q' = Resolve(q, Timeout(t), Reject("canceled")) /\ canceled' = canceled \cup {t}
    /\ UNCHANGED <<Idle, ending, fired>>

------------------------------------------------------------------------------
(* The digest of a turn.                                                      *)

RunFlush(t) ==
    /\ t.is = "flush" /\ q' = Flush(Popped(q), t)
    /\ UNCHANGED <<called, pendingRequests, cache, net, outstanding, answers>>

RunRemove(t) ==
    /\ t.is = "call" /\ t.callback.is = "removePendingReq"
    /\ q' = Popped(q) /\ pendingRequests' = pendingRequests \ {t.callback.of}
    /\ UNCHANGED <<called, cache, net, outstanding, answers>>

\* transformResponse is given to both sides: a failure stays a rejection.  One of the
\* functions of config.transformResponse may throw: the promise is rejected with that.
RunTransform(t) ==
    /\ t.is = "call" /\ t.callback.is = "transformResponse"
    /\ \/ q' = Resolve(Popped(q), Response(t.callback.of), t.with)
       \/ /\ t.callback.of \in Throwing
          /\ q' = Resolve(Popped(q), Response(t.callback.of), Reject("thrown"))
    /\ UNCHANGED <<called, pendingRequests, cache, net, outstanding, answers>>

\* success or error, and what follows a timeout; it may make another request.
RunUser(t) ==
    /\ t.is = "call" /\ t.callback.is = "user"
    /\ answers' = Append(answers, [to |-> t.callback.of, with |-> t.with])
    /\ \/ q' = Popped(q)
          /\ UNCHANGED <<called, pendingRequests, cache, net, outstanding>>
       \/ \E r \in Request : SendReq(r, Popped(q))

RunTick ==
    /\ phase = "digest" /\ q.ticks # <<>>
    /\ LET t == Head(q.ticks) IN RunFlush(t) \/ RunRemove(t) \/ RunTransform(t) \/ RunUser(t)
    /\ UNCHANGED <<phase, ending, timing>>

\* The digest is over.  If it threw, at its limit, so does done, and completeRequest
\* takes nothing off; a timer is taken off in any case.
Endings ==
    /\ phase = "digest" /\ q.ticks = <<>> /\ phase' = "idle" /\ completing' = 0 /\ served' = {}
    /\ UNCHANGED <<q, called, pendingRequests, cache, net, answers, timing>>

\* Mutant: the request and the timer that aborted it count as one.
EndTurnOnce ==
    /\ Endings /\ UNCHANGED lost
    /\ outstanding' = IF completing = 1 THEN outstanding - 1 ELSE outstanding - Cardinality(served)

\* $$completeOutstandingRequest of what started the turn.
EndTurn ==
    /\ Endings
    /\ \/ outstanding' = outstanding - completing - Cardinality(served) /\ UNCHANGED lost
       \/ /\ served \cap Unstable # {}
          /\ outstanding' = outstanding - completing /\ lost' = lost \cup served

Network(r) == Receive(r) \/ TimeLimit(r)

HttpNext ==
    \/ \E r \in Request : CallHttp(r) \/ Network(r)
    \/ \E t \in Timer : StartTimer(t) \/ Fire(t) \/ CancelTimer(t)
    \/ RunTick \/ EndTurn

HttpSpec == HttpInit /\ [][HttpNext]_httpVars

------------------------------------------------------------------------------
(* Properties.                                                                *)

Open == {r \in Request : xhr[r] = "sent"}

\* Between two events outstandingRequestCount is what is really outstanding, also
\* when an abort completes a request inside the timer that aborted it, and besides
\* that nothing but the requests whose done threw.
OutstandingExact ==
    phase = "idle" =>
        outstanding = Cardinality(Open) + Cardinality(defers) + Cardinality(lost)

\* Requests that share a cache never ask for a url twice at the same time.
OneInFlight ==
    \A r, s \in Open \cap Cached : r # s => UrlOf[r] # UrlOf[s]

\* $http.pendingRequests holds the requests without an answer, whether they were
\* sent, share the answer of another or found one in the cache.
PendingExact ==
    phase = "idle" /\ q.ticks = <<>> =>
        pendingRequests = {r \in called : Final(q, PromiseOf(Response(r))).is = "promise"}

\* The application hears of every request and timeout at most once: what the
\* request it shares was answered, or what transformResponse threw.
HeardOnce ==
    /\ \A i, j \in DOMAIN answers : answers[i].to = answers[j].to => i = j
    /\ \A i \in DOMAIN answers : answers[i].to \in Request =>
           LET s == answers[i].with.of
           IN \/ answers[i].with = Reject("thrown")
              \/ /\ Final(q, PromiseOf(Answer(s))) = answers[i].with
                 /\ UrlOf[s] = UrlOf[answers[i].to]

\* What is outstanding is counted, nothing is asked for twice at once, a cancelled timeout
\* never runs its function, and every request is pending until it is answered, once.
RequestsAccounted ==
    OutstandingExact /\ OneInFlight /\ fired \cap canceled = {} /\ PendingExact /\ HeardOnce

\* The application has not heard of the request yet.
Waits(r) == r \in called /\ \A i \in DOMAIN answers : answers[i].to # r
=============================================================================
