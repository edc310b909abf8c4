------------------------------ MODULE Injector ------------------------------
(* The module loader and the injector of angular-1.0.0.js.  Modules require   *)
(* services, cyclic ones too; a factory may throw, and the application goes   *)
(* on and asks again.                                                         *)
EXTENDS Naturals, FiniteSets, SequencesExt

CONSTANTS
    Module, Service, Null,
    Order,      \* a sequence of all modules, and one of all services: the order
    DepOrder,   \* in which a list names them
    RequireGraphs, Declarations, InjectGraphs,  \* what requires, declares and inject may be
    Gets        \* bound: how often the application asks

VARIABLES
    requires,   \* module -> the modules it requires
    declares,   \* service -> the module whose queue declares its provider
    inject,     \* service -> the services its $get is injected with
    stage,      \* "load", "run", or "ready"
    loaded,     \* loadedModules, in the order in which their queues were invoked
    runBlocks,  \* modules in the order of their run blocks
    cache,      \* instanceCache: Null, "INSTANTIATING" or "instance"
    built,      \* the instances in the order of their making
    asked,      \* how often the application has asked
    answer      \* what was asked last, the cache at that time, the service whose
                \* $get throws at that time, or Null, and what was thrown

injectorVars == <<requires, declares, inject, stage, loaded, runBlocks, cache, built,
                  asked, answer>>
graph == <<requires, declares, inject>>

Init ==
    /\ requires \in RequireGraphs /\ declares \in Declarations /\ inject \in InjectGraphs
    /\ stage = "load" /\ loaded = <<>> /\ runBlocks = <<>>
    /\ cache = [s \in Service |-> Null] /\ built = <<>> /\ asked = 0 /\ answer = Null

InOrder(order, S) == SelectSeq(order, LAMBDA x : x \in S)

------------------------------------------------------------------------------
(* loadModules: a module is marked before its requirements are loaded, so that *)
(* a cycle ends; its queue is invoked, and its run blocks come, after theirs.  *)

RECURSIVE LoadModules(_, _)
LoadModules(names, state) ==
    FoldLeft(LAMBDA acc, m :
                 IF m \in acc.marked THEN acc
                 ELSE LET below == LoadModules(InOrder(Order, requires[m]),
                                               [acc EXCEPT !.marked = @ \cup {m}])
                      IN [below EXCEPT !.loaded = Append(@, m), !.runBlocks = Append(@, m)],
             state, names)

\* createInjector for the module that is first in Order.
Load ==
    /\ stage = "load" /\ stage' = "run"
    /\ LET end == LoadModules(<<Head(Order)>>, [marked |-> {}, loaded |-> <<>>, runBlocks |-> <<>>])
       IN loaded' = end.loaded /\ runBlocks' = end.runBlocks
    /\ UNCHANGED <<graph, cache, built, asked, answer>>

------------------------------------------------------------------------------
(* getService and invoke.                                                     *)

HasProvider(s) == declares[s] \in ToSet(loaded)

\* Mutant: what is thrown for one argument does not keep the service from being made.
RECURSIVE GetServiceAnyway(_, _)
GetServiceAnyway(s, state) ==
    IF state.cache[s] = "INSTANTIATING" THEN [state EXCEPT !.thrown = "Circular dependency"]
    ELSE IF state.cache[s] = "instance" THEN state
    ELSE LET args == FoldLeft(LAMBDA acc, d : GetServiceAnyway(d, acc),
                              [state EXCEPT !.cache[s] = "INSTANTIATING"], InOrder(DepOrder, inject[s]))
         IN IF ~HasProvider(s) THEN [args EXCEPT !.thrown = "Unknown provider"]
            ELSE IF s = state.faulty THEN [args EXCEPT !.thrown = "factory"]
            ELSE [args EXCEPT !.cache[s] = "instance", !.built = Append(@, s)]

\* What is thrown goes up through every getService on the way, and leaves
\* INSTANTIATING behind in the cache at each of them.
RECURSIVE GetService(_, _)
GetService(s, state) ==
    IF state.thrown # Null THEN state
    ELSE IF state.cache[s] = "INSTANTIATING" THEN [state EXCEPT !.thrown = "Circular dependency"]
    ELSE IF state.cache[s] = "instance" THEN state
    ELSE LET marked == [state EXCEPT !.cache[s] = "INSTANTIATING"]
             args == FoldLeft(LAMBDA acc, d : GetService(d, acc), marked,
                              InOrder(DepOrder, inject[s]))
         IN IF ~HasProvider(s) THEN [marked EXCEPT !.thrown = "Unknown provider"]
            ELSE IF args.thrown # Null THEN args
            ELSE IF s = state.faulty THEN [args EXCEPT !.thrown = "factory"]
            ELSE [args EXCEPT !.cache[s] = "instance", !.built = Append(@, s)]

Ask(s) ==
    \E faulty \in Service \cup {Null} :
        LET end == GetService(s, [cache |-> cache, built |-> built, faulty |-> faulty,
                                  thrown |-> Null])
        IN /\ cache' = end.cache /\ built' = end.built
           /\ answer' = [for |-> s, before |-> cache, faulty |-> faulty, thrown |-> end.thrown]

\* The run block of the next module may ask for any service; what it lets through
\* ends createInjector.
RunBlock ==
    /\ stage = "run" /\ runBlocks # <<>> /\ runBlocks' = Tail(runBlocks)
    /\ \/ UNCHANGED <<stage, cache, built, answer>>
       \/ \E s \in Service :
              Ask(s) /\ stage' = IF answer'.thrown = Null THEN "run" ELSE "failed"
    /\ UNCHANGED <<graph, loaded, asked>>

Ready ==
    /\ stage = "run" /\ runBlocks = <<>> /\ stage' = "ready"
    /\ UNCHANGED <<graph, loaded, runBlocks, cache, built, asked, answer>>

Get(s) ==
    /\ stage = "ready" /\ asked < Gets /\ asked' = asked + 1 /\ Ask(s)
    /\ UNCHANGED <<graph, stage, loaded, runBlocks>>

Next == Load \/ RunBlock \/ Ready \/ \E s \in Service : Get(s)

Spec == Init /\ [][Next]_injectorVars

------------------------------------------------------------------------------
(* Properties.                                                                *)

Reachable(edges, from) ==
    LET R[n \in Nat] == IF n = 0 THEN {from}
                        ELSE R[n - 1] \cup UNION {edges[x] : x \in R[n - 1]}
    IN R[Cardinality(DOMAIN edges)]

OnCycle(s) == \E d \in inject[s] : s \in Reachable(inject, d)

Position(seq, x) == CHOOSE i \in DOMAIN seq : seq[i] = x

\* Exactly the modules that the first one needs are loaded, once each, and after
\* those they require unless these require them too.
ModulesInOrder ==
    stage # "load" =>
        /\ ToSet(loaded) = Reachable(requires, Head(Order))
        /\ IsInjective(loaded)
        /\ \A m \in ToSet(loaded) : \A r \in requires[m] :
               m \in Reachable(requires, r) \/ Position(loaded, r) < Position(loaded, m)

\* A service is made once, after those it is injected with, and a get returns it
\* exactly when what it needs and what was not made before has a provider, no cycle
\* and a $get that returns, and did not fail in an earlier get either: one failure is
\* for ever, and 'Circular dependency' is then said of services without a cycle.
InstancesInOrder ==
    /\ IsInjective(built)
    /\ ToSet(built) = {s \in Service : cache[s] = "instance"}
    /\ \A i \in DOMAIN built : \A d \in inject[built[i]] :
           \E j \in 1..(i - 1) : built[j] = d
    /\ answer # Null =>
           LET needed == Reachable(inject, answer.for)
               missing == {s \in needed : answer.before[s] # "instance"}
           IN /\ answer.thrown = Null <=>
                     \A s \in missing : /\ HasProvider(s) /\ ~OnCycle(s)
                                        /\ s # answer.faulty /\ answer.before[s] = Null
              /\ answer.thrown = "Circular dependency" =>
                     \E s \in missing : OnCycle(s) \/ answer.before[s] = "INSTANTIATING"
=============================================================================
