------------------------------- MODULE JqLite --------------------------------
(* jqLite of angular-1.0.0.js: the elements of a document, the data and event *)
(* handlers that jqCache keeps for them, and the operations that move, take   *)
(* out and replace elements. A handler may unbind itself while it runs.       *)
EXTENDS Integers, FiniteSets, SequencesExt

CONSTANTS
    Element, Root,   \* the elements there are and the one the page starts with
    Plain, Once,     \* handlers: those that do nothing and those that unbind themselves
    Bindings,        \* who may bind which handler to what: <<element, type, handler>>
    MaxHandles,      \* bound: stores that are made
    Null

Fn == Plain \cup Once
Type == {"click", "$destroy"}

VARIABLES
    childNodes,  \* element -> sequence of elements
    jqCache,     \* element -> its expando store [handle, data], or Null
    events,      \* handle -> type -> sequence of handlers
    listening,   \* what addEventListener has: [elem, handle]
    made,        \* handles made
    told,        \* the elements whose $destroy handlers the last step ran
    lastEvent    \* what the last step ran, if it was an event: [bound, ran], or Null

jqVars == <<childNodes, jqCache, events, listening, made, told, lastEvent>>

NoEvents == [type \in {} |-> <<>>]

Init ==
    /\ childNodes = [e \in Element |-> <<>>]
    /\ jqCache = [e \in Element |-> Null]
    /\ events = [h \in 1 .. MaxHandles |-> NoEvents]
    /\ listening = {} /\ made = 0
    /\ told = {} /\ lastEvent = Null

Parent(e) == {p \in Element : e \in ToSet(childNodes[p])}

Quiet == told' = {} /\ lastEvent' = Null

RECURSIVE Subtree(_)
Subtree(e) == {e} \cup UNION {Subtree(c) : c \in ToSet(childNodes[e])}

------------------------------------------------------------------------------
(* Data and handlers.                                                         *)

\* JQLiteData with a value: makes the store.
SetData(e) ==
    /\ jqCache' = [jqCache EXCEPT ![e] = IF @ = Null THEN [handle |-> Null, data |-> TRUE]
                                         ELSE [@ EXCEPT !.data = TRUE]]
    /\ Quiet /\ UNCHANGED <<childNodes, events, listening, made>>

\* bind: the handle is made with the first handler, a listener is added with every type.
Bind(e, type, fn) ==
    LET old == IF jqCache[e] = Null THEN Null ELSE jqCache[e].handle
        handle == IF old = Null THEN made + 1 ELSE old
        fns == IF type \in DOMAIN events[handle] THEN events[handle][type] ELSE <<>>
    IN /\ <<e, type, fn>> \in Bindings /\ handle <= MaxHandles /\ fn \notin ToSet(fns)
       /\ made' = IF old = Null THEN handle ELSE made
       /\ jqCache' = [jqCache EXCEPT ![e] = [handle |-> handle, data |-> @ # Null /\ @.data]]
       /\ events' = [events EXCEPT ![handle] =
                        [t \in DOMAIN @ \cup {type} |-> IF t = type THEN Append(fns, fn) ELSE @[t]]]
       /\ listening' = listening \cup {[elem |-> e, handle |-> handle, type |-> type]}
       /\ Quiet /\ UNCHANGED childNodes

\* unbind of a handler, and of all of a type, which removes nothing from the element: it
\* passes the handlers where removeEventListener needs the handle.
Unbind(e, type, fn) ==
    /\ jqCache[e] # Null /\ jqCache[e].handle # Null
    /\ type \in DOMAIN events[jqCache[e].handle]
    /\ events' = [events EXCEPT ![jqCache[e].handle] =
                     IF fn = Null THEN [t \in DOMAIN @ \ {type} |-> @[t]]
                     ELSE [@ EXCEPT ![type] = SelectSeq(@, LAMBDA f : f # fn)]]
    /\ Quiet /\ UNCHANGED <<childNodes, jqCache, listening, made>>

\* createEventHandler: the handlers in turn, by place, while the list shrinks under them.
RECURSIVE Run(_, _, _)
Run(fns, i, ran) ==
    IF i > Len(fns) THEN [ran |-> ran, fns |-> fns]
    ELSE Run(IF fns[i] \in Once THEN RemoveAt(fns, i) ELSE fns, i + 1, Append(ran, fns[i]))

\* An event on the element reaches every handle that listens, those of stores long gone
\* as well.
Click(e) ==
    LET handles == {l.handle : l \in {m \in listening : m.elem = e /\ m.type = "click"}}
        Fns(h) == IF "click" \in DOMAIN events[h] THEN events[h]["click"] ELSE <<>>
        Of(f) == FlattenSeq([i \in 1 .. MaxHandles |-> IF i \in handles THEN f[i] ELSE <<>>])
    IN /\ handles # {}
       /\ lastEvent' = [bound |-> Of([h \in 1 .. MaxHandles |-> Fns(h)]),
                        ran |-> Of([h \in 1 .. MaxHandles |-> Run(Fns(h), 1, <<>>).ran]), elem |-> e]
       /\ events' = [h \in 1 .. MaxHandles |->
                        IF h \in handles /\ "click" \in DOMAIN events[h]
                        THEN [events[h] EXCEPT !["click"] = Run(@, 1, <<>>).fns] ELSE events[h]]
       /\ told' = {} /\ UNCHANGED <<childNodes, jqCache, listening, made>>

------------------------------------------------------------------------------
(* Elements that go, with JQLiteDealoc, and elements that move.               *)

\* JQLiteDealoc: for every element below, $destroy is told, all handlers are unbound and
\* the store goes.
Dealoc(gone) ==
    LET handles == {jqCache[e].handle : e \in {x \in gone : jqCache[x] # Null}} \ {Null}
    IN /\ told' = {e \in gone : /\ jqCache[e] # Null /\ jqCache[e].handle # Null
                               /\ "$destroy" \in DOMAIN events[jqCache[e].handle]}
       /\ events' = [h \in 1 .. MaxHandles |-> IF h \in handles THEN NoEvents ELSE events[h]]
       /\ jqCache' = [e \in Element |-> IF e \in gone THEN Null ELSE jqCache[e]]
       /\ lastEvent' = Null /\ UNCHANGED <<listening, made>>

Without(nodes, e) == SelectSeq(nodes, LAMBDA c : c # e)
Moved(e) == [p \in Element |-> Without(childNodes[p], e)]  \* the DOM takes e from where it is

RemoveElement(e) ==
    /\ Dealoc(Subtree(e))
    /\ childNodes' = Moved(e)

\* html: the children are cleaned, then replaced, here by nothing.
Html(e) ==
    /\ childNodes[e] # <<>>
    /\ Dealoc(Subtree(e) \ {e})
    /\ childNodes' = [childNodes EXCEPT ![e] = <<>>]

Place(nodes, e) == CHOOSE i \in DOMAIN nodes : nodes[i] = e
Till(nodes, i) == SubSeq(nodes, 1, i)
After(nodes, i) == SubSeq(nodes, i + 1, Len(nodes))

\* Nodes that are not in a tree yet, to be put below p.
Loose(nodes, p) == \A n \in ToSet(nodes) : Parent(n) = {} /\ p \notin Subtree(n) /\ n # Root

\* The first node takes the element's place, the next ones follow it.
ReplaceWith(e, nodes) ==
    \E p \in Parent(e) :
        LET i == Place(childNodes[p], e)
        IN /\ Loose(nodes, p)
           /\ Dealoc(Subtree(e))
           /\ childNodes' = [childNodes EXCEPT ![p] = Till(@, i - 1) \o nodes \o After(@, i)]

Stay == Quiet /\ UNCHANGED <<jqCache, events, listening, made>>

AddLast(p, nodes) ==
    /\ Loose(nodes, p)
    /\ childNodes' = [childNodes EXCEPT ![p] = @ \o nodes] /\ Stay

\* Each node goes before what was first; where nothing was, the first node becomes that.
AddFirst(p, nodes) ==
    /\ Loose(nodes, p)
    /\ childNodes' = [childNodes EXCEPT ![p] =
           IF @ = <<>> THEN Tail(nodes) \o <<Head(nodes)>> ELSE nodes \o @]
    /\ Stay

AddAfter(e, nodes) ==
    \E p \in Parent(e) :
        LET i == Place(childNodes[p], e)
        IN /\ Loose(nodes, p)
           /\ childNodes' = [childNodes EXCEPT ![p] = Till(@, i) \o nodes \o After(@, i)]
           /\ Stay

\* wrap: the wrapper takes the element's place, with the element as its last child.
Wrap(e, wrapper) ==
    /\ Loose(<<wrapper>>, e) /\ e # wrapper
    /\ childNodes' = [p \in Element |->
           IF p = wrapper THEN Append(childNodes[p], e)
           ELSE [i \in DOMAIN childNodes[p] |-> IF childNodes[p][i] = e THEN wrapper ELSE childNodes[p][i]]]
    /\ Stay

Next ==
    \/ \E e \in Element : SetData(e) \/ Click(e) \/ Html(e) \/ (e # Root /\ RemoveElement(e))
    \/ \E e \in Element, type \in Type, fn \in Fn : Bind(e, type, fn)
    \/ \E e \in Element, fn \in Fn \cup {Null} : Unbind(e, "click", fn)
    \/ \E e, n, m \in Element : LET nodes == IF n = m THEN <<n>> ELSE <<n, m>> IN
           \/ AddLast(e, nodes) \/ AddFirst(e, nodes) \/ AddAfter(e, nodes)
           \/ ReplaceWith(e, nodes)
    \/ \E e, wrapper \in Element : e # Root /\ Wrap(e, wrapper)

Spec == Init /\ [][Next]_jqVars

------------------------------------------------------------------------------
(* Properties.                                                                *)

\* The elements of the page, in document order.
RECURSIVE Document(_, _)
Document(nodes, e) == <<e>> \o FlattenSeq([i \in DOMAIN nodes[e] |-> Document(nodes, nodes[e][i])])

\* What leaves a document leaves nothing behind: its store is gone, and so is that of all
\* below it; whoever listens for its end is told; no one else's store is touched; and what
\* stays keeps its place to the others.
LeavesNothing ==
    \E was \in {Document(childNodes, Root)} : \E is \in {Document(childNodes', Root)} :
    LET gone == ToSet(was) \ ToSet(is)
        stay == ToSet(was) \cap ToSet(is)
        toTell == {e \in gone : /\ jqCache[e] # Null /\ jqCache[e].handle # Null
                                /\ "$destroy" \in DOMAIN events[jqCache[e].handle]}
    IN /\ \A e \in gone : jqCache'[e] = Null
       /\ \A e \in stay : jqCache[e] # Null => jqCache'[e] # Null
       /\ toTell \subseteq told' /\ told' \cap stay = {}
       /\ SelectSeq(was, LAMBDA e : e \in stay) = SelectSeq(is, LAMBDA e : e \in stay)

\* An event runs no handler twice and none that is not bound to the element then, whatever
\* stores the element had before; one is passed over only where the one before it went.
HeardOnce ==
    lastEvent # Null =>
        LET bound == lastEvent.bound
        IN /\ IsInjective(lastEvent.ran) /\ ToSet(lastEvent.ran) \subseteq ToSet(bound)
           /\ \A i \in DOMAIN bound :
                  bound[i] \in ToSet(lastEvent.ran) \/ (i > 1 /\ bound[i - 1] \in Once)

\* A handle that no store holds any more runs nothing, though its listener is still there.
StaleSilent ==
    \A l \in listening :
        (jqCache[l.elem] = Null \/ jqCache[l.elem].handle # l.handle) => DOMAIN events[l.handle] = {}
=============================================================================
