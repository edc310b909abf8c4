-------------------------------- MODULE Vaadin --------------------------------
(* VaadinOSGiManager.java: http services and factories of applications come and *)
(* go, each pair of them has a servlet, and the servlets make and dispose the    *)
(* instances of the applications. What is done under the lock is one action; the *)
(* servlets are closed outside of it, step by step.                              *)
EXTENDS Integers, SequencesExt

CONSTANTS
    Http,         \* registrations of http services
    Factory,      \* registrations of component factories
    AliasOf,      \* getAlias of the properties of a factory
    MaxCalls,     \* bound: the services that come and the requests for instances, together
    Null

VARIABLES
    service,    \* of each http service and factory: whether it is there
    https,      \* https: of each http service its servlets by alias
    apps,       \* apps: an entry for each factory, the keys being distinct objects
    registered, \* external: the servlets of each http service by alias
    servlets,   \* of each servlet that was made: open, its instances and who asks for one
    closers     \* the calls that close servlets: those to do and the one they are at

vaadinVars == <<service, https, apps, registered, servlets, closers>>

Spent == Cardinality({s \in Http \cup Factory : service[s] # "away"})
           + MapThenSumSet(LAMBDA s : servlets[s].made + servlets[s].asking, DOMAIN servlets)

\* Every factory has this one, in an instance where that is enough.
OneAlias == [f \in Factory |-> "alias"]

Put(map, key, value) == [k \in DOMAIN map \cup {key} |-> IF k = key THEN value ELSE map[k]]
RemoveAll(map, keys) == [k \in DOMAIN map \ keys |-> map[k]]
Nothing == [k \in {} |-> Null]

\* Instances are numbered as they are put: those left to close, and those disposed, with how often.
NewServlet == [open |-> TRUE, reached |-> FALSE, asking |-> 0, made |-> 0, instances |-> {},
               early |-> {}, left |-> {}, disposed |-> <<>>, ended |-> FALSE]

VaadinInit ==
    /\ service = [s \in Http \cup Factory |-> "away"]
    /\ https = Nothing /\ apps = {} /\ servlets = Nothing /\ closers = {}
    /\ registered = [h \in Http |-> Nothing]

------------------------------------------------------------------------------
(* The references of the component.                                           *)

\* register, of the pairs in this order. The first n are registered, under aliases that are
\* free; registerServlet throws for the next, if there is one, since its alias is taken, by
\* this bundle or another, or is none, or its init throws: it is in the map by then.
Register(pairs, n, maps) ==
    LET alias(i) == AliasOf[pairs[i][2]]
        tried == {i \in DOMAIN pairs : i <= n + 1}
        done == {i \in DOMAIN pairs : i <= n}
        In(h, I) == {i \in I : pairs[i][1] = h}
        Named(h, a, I) == {i \in In(h, I) : alias(i) = a}
        Over(map, h, I) == [a \in DOMAIN map \cup {alias(i) : i \in In(h, I)} |->
                               IF Named(h, a, I) = {} THEN map[a]
                               ELSE pairs[CHOOSE i \in Named(h, a, I) : \A j \in Named(h, a, I) : j <= i]]
    IN /\ \A i \in done :
             /\ alias(i) \notin DOMAIN registered[pairs[i][1]]
             /\ \A j \in 1 .. i - 1 : pairs[j][1] = pairs[i][1] => alias(j) # alias(i)
       /\ https' = [h \in DOMAIN maps |-> Over(maps[h], h, tried)]
       /\ registered' = [h \in Http |-> Over(registered[h], h, done)]
       /\ servlets' = [s \in DOMAIN servlets \cup {pairs[i] : i \in tried} |->
                          IF s \in DOMAIN servlets THEN servlets[s]
                          ELSE [NewServlet EXCEPT !.reached = \E i \in done : pairs[i] = s]]

\* The maps are walked in an order of their own.
Orders(S) == SetToSeqs(S)

SetHttp(h) ==
    /\ service[h] = "away" /\ Spent < MaxCalls
    /\ service' = [service EXCEPT ![h] = "here"]
    /\ \E pairs \in Orders({<<h, f>> : f \in apps}) :
          \E n \in 0 .. Len(pairs) : Register(pairs, n, Put(https, h, Nothing))
    /\ UNCHANGED <<apps, closers>>

\* configure throws: the alias of the resources is taken.
ConfigureThrows(h) ==
    /\ service[h] = "away" /\ Spent < MaxCalls
    /\ service' = [service EXCEPT ![h] = "here"]
    /\ UNCHANGED <<https, apps, registered, servlets, closers>>

AddApplication(f) ==
    /\ service[f] = "away" /\ Spent < MaxCalls
    /\ service' = [service EXCEPT ![f] = "here"]
    /\ apps' = apps \cup {f}
    /\ \E pairs \in Orders({<<h, f>> : h \in DOMAIN https}) :
          \E n \in 0 .. Len(pairs) : Register(pairs, n, https)
    /\ UNCHANGED closers

Closer(todo) == IF todo = {} THEN {} ELSE {[todo |-> todo, at |-> Null]}

\* The servlets of an http service that is unregistered; remove gives none, which throws, for
\* one that could not be configured.
ServletsOf(h) == IF h \in DOMAIN https THEN {https[h][a] : a \in DOMAIN https[h]} ELSE {}

\* Mutant: an http service that goes stays in the shadow registry.
UnsetHttpKept(h) ==
    /\ service[h] = "here"
    /\ service' = [service EXCEPT ![h] = "gone"]
    /\ registered' = [registered EXCEPT ![h] = Nothing]
    /\ closers' = closers \cup Closer(ServletsOf(h))
    /\ UNCHANGED <<https, apps, servlets>>

\* The http service drops its own registrations.
UnsetHttp(h) ==
    /\ service[h] = "here"
    /\ service' = [service EXCEPT ![h] = "gone"]
    /\ registered' = [registered EXCEPT ![h] = Nothing]
    /\ https' = RemoveAll(https, {h})
    /\ closers' = closers \cup Closer(ServletsOf(h))
    /\ UNCHANGED <<apps, servlets>>

\* unregister throws where the alias is not registered: the rest is left, and nothing closed.
RemoveApplication(f) ==
    /\ service[f] = "here"
    /\ service' = [service EXCEPT ![f] = "gone"]
    /\ \E order \in Orders(DOMAIN https) :
          LET Missing(h) == AliasOf[f] \notin DOMAIN registered[h]
              reached == {order[i] : i \in {k \in DOMAIN order : \A j \in 1 .. k : ~ Missing(order[j])}}
          IN /\ registered' = [h \in Http |->
                    IF h \in reached THEN RemoveAll(registered[h], {AliasOf[f]}) ELSE registered[h]]
             /\ https' = [h \in DOMAIN https |->
                    IF h \in reached THEN RemoveAll(https[h], {AliasOf[f]}) ELSE https[h]]
             /\ closers' = closers \cup (IF reached = DOMAIN https
                                         THEN Closer({https[h][AliasOf[f]] : h \in reached}) ELSE {})
    /\ UNCHANGED <<apps, servlets>>

------------------------------------------------------------------------------
(* ApplicationServlet.                                                        *)

\* getNewApplication finds the servlet open ...
GetNewApplication(s) ==
    /\ servlets[s].reached /\ servlets[s].open /\ Spent < MaxCalls
    /\ servlets' = [servlets EXCEPT ![s].asking = @ + 1]
    /\ UNCHANGED <<service, https, apps, registered, closers>>

\* ... and puts the instance that the factory makes. A close in another thread may be at the
\* same map, which is not locked there: it finds the instance or not.
PutInstance(s) ==
    LET n == servlets[s].made + 1
    IN /\ servlets[s].asking > 0
       /\ \E found \in BOOLEAN :
             /\ found => \E c \in closers : c.at = s
             /\ servlets' = [servlets EXCEPT ![s].asking = @ - 1, ![s].made = n, ![s].instances = @ \cup {n},
                                 ![s].early = IF servlets[s].open THEN @ \cup {n} ELSE @,
                                 ![s].left = IF found THEN @ \cup {n} ELSE @,
                                 ![s].disposed = Append(@, 0)]
       /\ UNCHANGED <<service, https, apps, registered, closers>>

\* newInstance throws.
MakeThrows(s) ==
    /\ servlets[s].asking > 0
    /\ servlets' = [servlets EXCEPT ![s].asking = @ - 1]
    /\ UNCHANGED <<service, https, apps, registered, closers>>

\* close: one that is open is closed, and its instances are walked.
Close(c) ==
    /\ c.at = Null
    /\ \E s \in c.todo :
          /\ servlets' = IF servlets[s].open
                         THEN [servlets EXCEPT ![s].open = FALSE, ![s].left = servlets[s].instances] ELSE servlets
          /\ closers' = (closers \ {c}) \cup
                            (IF servlets[s].open THEN {[todo |-> c.todo \ {s}, at |-> s]} ELSE Closer(c.todo \ {s}))
    /\ UNCHANGED <<service, https, apps, registered>>

Dispose(c) ==
    /\ c.at # Null
    /\ \E n \in servlets[c.at].left :
          servlets' = [servlets EXCEPT ![c.at].left = @ \ {n}, ![c.at].disposed[n] = @ + 1]
    /\ UNCHANGED <<service, https, apps, registered, closers>>

\* The close of an application throws, or the walk as the map was changed: nothing more is closed.
CloseThrows(c) ==
    /\ c.at # Null /\ servlets[c.at].left # {}
    /\ closers' = closers \ {c}
    /\ UNCHANGED <<service, https, apps, registered, servlets>>

Clear(c) ==
    /\ c.at # Null /\ servlets[c.at].left = {}
    /\ servlets' = [servlets EXCEPT ![c.at].instances = {}, ![c.at].ended = TRUE]
    /\ closers' = (closers \ {c}) \cup Closer(c.todo)
    /\ UNCHANGED <<service, https, apps, registered>>

VaadinNext ==
    \/ \E h \in Http : SetHttp(h) \/ ConfigureThrows(h) \/ UnsetHttp(h)
    \/ \E f \in Factory : AddApplication(f) \/ RemoveApplication(f)
    \/ \E s \in DOMAIN servlets : GetNewApplication(s) \/ PutInstance(s) \/ MakeThrows(s)
    \/ \E c \in closers : Close(c) \/ Dispose(c) \/ CloseThrows(c) \/ Clear(c)

VaadinSpec == VaadinInit /\ [][VaadinNext]_vaadinVars

------------------------------------------------------------------------------

Here == {s \in Http \cup Factory : service[s] = "here"}

\* The class doc calls https a shadow registry: it has every alias that an http service has
\* of this bundle, and what it has besides are servlets that could not be registered.
Shadowed ==
    /\ DOMAIN https \subseteq Here \cap Http
    /\ \A h \in Http : registered[h] # Nothing => h \in DOMAIN https
    /\ \A h \in DOMAIN https :
          /\ DOMAIN registered[h] \subseteq DOMAIN https[h]
          /\ \A a \in DOMAIN https[h] :
                servlets[https[h][a]].reached => a \in DOMAIN registered[h] /\ registered[h][a] = https[h][a]

\* registerServlet has thrown with this http service, or for a factory of this alias.
Excused(h, a) == \E s \in DOMAIN servlets : ~servlets[s].reached /\ (s[1] = h \/ AliasOf[s[2]] = a)

\* A factory is served by every http service that could be configured, whatever other
\* factories and services come and go, unless a registration has thrown with this service
\* or for its alias.
Served ==
    \A h \in DOMAIN https, f \in Here \cap Factory :
        \/ AliasOf[f] \in DOMAIN registered[h] /\ registered[h][AliasOf[f]] = <<h, f>>
        \/ Excused(h, AliasOf[f])

\* No servlet is closed, or about to be, while requests still reach it.
OpenWhileServed ==
    \A h \in Http : \A a \in DOMAIN registered[h] :
        LET s == registered[h][a]
        IN servlets[s].open /\ \A c \in closers : s \notin c.todo /\ s # c.at

\* A servlet that has ended has disposed every instance it had put before, none twice.
Disposed ==
    \A s \in DOMAIN servlets :
        /\ \A n \in DOMAIN servlets[s].disposed : servlets[s].disposed[n] <= 1
        /\ servlets[s].ended => \A n \in servlets[s].early : servlets[s].disposed[n] = 1

ServicesHold == Shadowed /\ Served /\ OpenWhileServed /\ Disposed

\* What the class doc says: when factories or http services are unregistered, the data
\* structures are cleaned up. No servlet of a factory that is gone is registered.
CleanedUp == \A h \in Http : \A a \in DOMAIN registered[h] : service[registered[h][a][2]] = "here"
===============================================================================
