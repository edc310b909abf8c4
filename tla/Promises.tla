------------------------------ MODULE Promises ------------------------------
(* $q with an arbitrary application: deferreds are resolved with values,      *)
(* rejections and promises of each other, callbacks are added before and      *)
(* after, return values or promises, or throw, and promises are joined.       *)
EXTENDS PromiseQueue, FiniteSets

CONSTANTS
    Chainable, \* the deferreds of the application, and those that then and all make for it
    Group,     \* identities of calls of $q.all
    MaxLinks   \* bound: calls of then and $q.all

\* A deferred that was resolved is not pending.
ASSUME PromisesAssumption ==
    /\ Chainable \subseteq Deferred
    /\ \A d \in Deferred : Null # PromiseOf(d)
    /\ \A x \in {0, 1, 2} : Null \notin {ValueOf(x), Reject(x)}

VARIABLES
    promises,
    chained,  \* the callbacks added by then
    ran,      \* callback -> what it was called with, at each of its calls
    joined    \* calls of $q.all: the promises, the results still missing and the deferred

promiseVars == <<promises, chained, ran, joined>>

PromisesInit ==
    /\ promises = Unresolved(Deferred) /\ chained = {} /\ ran = <<>> /\ joined = <<>>

\* The deferred that a then or an all returns is one that nothing refers to yet.
Used == {c.result : c \in chained} \cup {joined[g].result : g \in DOMAIN joined}
Fresh == {d \in Chainable \ Used : promises.value[d] = Null /\ promises.pending[d] = <<>>}
\* It is a new one: which of the fresh ones stands for it makes no difference.
Made(S) == LET F == Fresh \ S IN IF F = {} THEN {} ELSE {CHOOSE d \in F : TRUE}

Chains == Cardinality(Used)

\* Waiting for oneself is a programming error: resolve and then would recurse for ever.
Follows(d, th) == Final(promises, th) = PromiseOf(d)

AddThen(d, r) ==
    /\ r \in Made({d}) /\ Chains < MaxLinks
    /\ LET c == [is |-> "user", result |-> r, on |-> PromiseOf(d)]
       IN /\ promises' = Then(promises, PromiseOf(d), c)
          /\ chained' = chained \cup {c}
    /\ UNCHANGED <<ran, joined>>

\* Only the application's own deferreds: the others belong to then and all.
Settle(d, th) ==
    /\ d \notin Used /\ promises.value[d] = Null /\ ~Follows(d, th)
    /\ promises' = Resolve(promises, d, th)
    /\ UNCHANGED <<chained, ran, joined>>

\* $q.all([d1, d2]).
All(g, d1, d2, r) ==
    /\ g \notin DOMAIN joined /\ Chains < MaxLinks /\ r \in Made({d1, d2}) /\ d1 # d2
    /\ joined' = [h \in DOMAIN joined \cup {g} |->
           IF h = g THEN [on |-> <<d1, d2>>, missing |-> {1, 2}, result |-> r] ELSE joined[h]]
    /\ LET part(i, d) == [is |-> "all", group |-> g, index |-> i, on |-> PromiseOf(d)]
       IN promises' = Then(Then(promises, PromiseOf(d1), part(1, d1)), PromiseOf(d2), part(2, d2))
    /\ UNCHANGED <<chained, ran>>

\* A callback of then: it returns a value or a promise, throws, or is missing, so
\* that values and rejections pass through.
RunThen(c, with) ==
    /\ \E th \in {with, IF with.is = "value" THEN Reject(0) ELSE ValueOf(0)}
                  \cup {PromiseOf(d) : d \in Chainable \ Used} :
           /\ ~Follows(c.result, th)
           /\ promises' = Resolve(Popped(promises), c.result, th)
    /\ ran' = Append(ran, [callback |-> c, with |-> with])
    /\ UNCHANGED <<chained, joined>>

RunAll(c, with) ==
    LET j == joined[c.group]
        missing == j.missing \ {c.index}
    IN /\ IF with.is = "rejection"
          THEN promises' = Resolve(Popped(promises), j.result, with) /\ UNCHANGED joined
          ELSE /\ joined' = [joined EXCEPT ![c.group].missing = missing]
               /\ promises' = IF missing = {} THEN Resolve(Popped(promises), j.result, ValueOf(2))
                                              ELSE Popped(promises)
       /\ UNCHANGED <<chained, ran>>

Tick ==
    /\ promises.ticks # <<>>
    /\ LET t == Head(promises.ticks)
       IN \/ /\ t.is = "flush" /\ promises' = Flush(Popped(promises), t)
             /\ UNCHANGED <<chained, ran, joined>>
          \/ t.is = "call" /\ t.callback.is = "user" /\ RunThen(t.callback, t.with)
          \/ t.is = "call" /\ t.callback.is = "all" /\ RunAll(t.callback, t.with)

PromisesNext ==
    \/ \E d, r \in Chainable : AddThen(d, r)
    \/ \E d \in Chainable :
           \E th \in {ValueOf(1), Reject(1)} \cup {PromiseOf(e) : e \in Chainable} : Settle(d, th)
    \/ \E g \in Group, d1, d2, r \in Chainable : All(g, d1, d2, r)
    \/ Tick

PromisesSpec == PromisesInit /\ [][PromisesNext]_promiseVars

------------------------------------------------------------------------------
(* Properties.                                                                *)

\* No callback is lost, called twice or called with anything but what its promise
\* has come to, through any chain of deferreds resolved with each other, in
\* whatever order they were resolved and callbacks added.
Delivered ==
    /\ \A i, j \in DOMAIN ran : ran[i].callback = ran[j].callback => i = j
    /\ \A i \in DOMAIN ran : ran[i].with = Final(promises, ran[i].callback.on)
    /\ promises.ticks = <<>> =>
           \A c \in chained : Final(promises, c.on).is # "promise" =>
               \E i \in DOMAIN ran : ran[i].callback = c

\* $q.all comes to a value when all its promises did, to a rejection as soon as
\* one did, and to nothing before.
Joined ==
    promises.ticks = <<>> =>
        \A g \in DOMAIN joined :
            LET parts == {Final(promises, PromiseOf(joined[g].on[i])).is : i \in {1, 2}}
                result == Final(promises, PromiseOf(joined[g].result)).is
            IN result = IF "rejection" \in parts THEN "rejection"
                        ELSE IF parts = {"value"} THEN "value" ELSE "promise"

AllDelivered == Delivered /\ Joined
=============================================================================
