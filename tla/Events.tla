-------------------------------- MODULE Events --------------------------------
(* The events of raphael.js. eve: a tree of names with wildcards, listeners with *)
(* a z-index, stop, events within events, unbind and once. Dragging on a touch   *)
(* device: drag and undrag of elements, the handlers that the document has while *)
(* something is dragged, and what the fingers do. A path is the sequence of the  *)
(* parts of a name; a finger stands on an element, or on Null.                   *)
EXTENDS Integers, FiniteSets, SequencesExt

CONSTANTS
    Null,
    Path,       \* the names that are listened to; "*" is the wildcard
    Event,      \* the names that happen
    Handler,    \* name -> [z: its z-index or Null, does: "plain", "stop", "once" or "raise";
                \*          raises: the event that it raises]
    MaxCalls,   \* bound: how often on, unbind and eve are called
    Element,
    Finger,     \* 1 .. n, in the order of their touches
    Places,
    MaxDrag,    \* bound on the list, which only grows when the document has lost its handlers
    MaxTimes    \* bound: how often drag() is called for an element that stays draggable

VARIABLES
    f,          \* path -> the handlers of its node
    called,     \* what the last event called, as <<event, handler>>
    calls,
    fingers,    \* finger -> [el, x, times: the start handlers that it called], or Null
    draggable,  \* element -> how many start handlers it has
    hears,      \* the elements whose handlers eve knows
    held,       \* el._drag: [x, finger], Null before a start, or Forgotten
    drag,       \* what is dragged
    heard,      \* dragMove and dragUp are handlers of the document
    told,       \* what the last event told the page: <<element, "start", "move" or "end", how far>>
    thrown,     \* the last call ended in an error
    cut         \* the document's handlers went, but what is dragged stayed in the list

eveVars == <<f, called, calls>>

EveInit == f = [p \in Path |-> <<>>] /\ called = <<>> /\ calls = 0

\* eve.listeners: level by level, at each of them the wildcard first.
Nodes(name) ==
    FoldLeft(LAMBDA levels, part :
                 Append(levels, FlattenSeq([i \in DOMAIN Last(levels) |->
                     <<Append(Last(levels)[i], "*"), Append(Last(levels)[i], part)>>])),
             <<<<<<>>>>>>, name)
Listeners(g, name) ==
    LET paths == FlattenSeq(Nodes(name))
    IN FlattenSeq([i \in DOMAIN paths |-> IF paths[i] \in Path THEN g[paths[i]] ELSE <<>>])

\* The order in which the listeners with the z-indexes zs are called, as positions in zs:
\* the negative ones, then in the order of the list, but one with a z-index waits in the
\* queue until those with a smaller one were called. The queue has one place for a z-index.
Order(zs) ==
    LET has == {i \in DOMAIN zs : zs[i] # Null}
        indexed == SortSeq(SelectSeq(zs, LAMBDA z : z # Null), LAMBDA a, b : a < b)
        below == Len(SelectSeq(indexed, LAMBDA z : z < 0))
        Latest(z) == CHOOSE i \in has : zs[i] = z /\ \A j \in has : zs[j] = z => j <= i
        Waiting(queue, from) ==
            CHOOSE n \in 0 .. Len(indexed) :
                /\ \A k \in from .. from + n - 1 : k <= Len(indexed) /\ \E i \in queue : zs[i] = indexed[k]
                /\ ~(from + n <= Len(indexed) /\ \E i \in queue : zs[i] = indexed[from + n])
        Newest(queue, z) == CHOOSE i \in queue : zs[i] = z /\ \A j \in queue : zs[j] = z => j <= i
        Called(s, i) ==
            LET n == Waiting(s.queue, s.z + 1)
            IN IF zs[i] = Null THEN [s EXCEPT !.out = Append(@, i)]
               ELSE IF s.z > Len(indexed) \/ zs[i] # indexed[s.z] THEN [s EXCEPT !.queue = @ \cup {i}]
               ELSE [s EXCEPT !.out = Append(@, i) \o [k \in 1 .. n |-> Newest(s.queue, indexed[s.z + k])],
                              !.z = @ + n + 1]
    IN FoldLeft(Called, [z |-> below + 1, queue |-> {i \in has : zs[i] < 0},
                         out |-> [k \in 1 .. below |-> Latest(indexed[k])]], [i \in DOMAIN zs |-> i]).out

\* The handlers of an event, in the order in which they are called.
Sequence(g, name) ==
    LET l == Listeners(g, name)
        order == Order([i \in DOMAIN l |-> Handler[l[i]].z])
    IN [k \in DOMAIN order |-> l[order[k]]]

\* eve.unbind: a wildcard stands for all parts, the wildcard too; the nodes of the name and
\* the children of these lose the handler, or all of them.
Named(name, p) == Len(p) = Len(name) /\ \A i \in DOMAIN p : name[i] \in {p[i], "*"}
WithoutOne(s, h) == LET i == SelectInSeq(s, LAMBDA x : x = h) IN IF i = 0 THEN s ELSE RemoveAt(s, i)
Unbound(g, name, h) ==
    [p \in Path |-> IF ~(Named(name, p) \/ (Len(p) > 1 /\ Named(name, Front(p)))) THEN g[p]
                    ELSE IF h = Null THEN <<>> ELSE WithoutOne(g[p], h)]

\* eve: the listeners are those at its start; s is [f, stop, called]. The stop of an event
\* within another ends with it.
RECURSIVE Eve(_, _)
Eve(s, name) ==
    LET Call(t, h) ==
            LET happens == [t EXCEPT !.called = Append(@, <<name, h>>)]
                does == Handler[h].does
            IN IF t.stop THEN t
               ELSE IF does = "stop" THEN [happens EXCEPT !.stop = TRUE]
               ELSE IF does = "once"
                 THEN [happens EXCEPT !.f = IF \E p \in Path : h \in ToSet(@[p])
                                            THEN Unbound(@, CHOOSE p \in Path : h \in ToSet(@[p]), h) ELSE @]
               ELSE IF does = "raise" THEN Eve(happens, Handler[h].raises) ELSE happens
    IN [FoldLeft(Call, [s EXCEPT !.stop = FALSE], Sequence(s.f, name)) EXCEPT !.stop = s.stop]

------------------------------------------------------------------------------

Count == calls < MaxCalls /\ calls' = calls + 1

\* eve.on and eve.once; a handler that is there stays where it is. What raises an event
\* does not listen to it, and what listens once has one path.
on(p, h) ==
    /\ Count
    /\ Handler[h].does = "once" => \A q \in Path : h \notin ToSet(f[q])
    /\ Handler[h].does = "raise" => p \notin ToSet(FlattenSeq(Nodes(Handler[h].raises)))
    /\ f' = [f EXCEPT ![p] = IF h \in ToSet(@) THEN @ ELSE Append(@, h)]
    /\ called' = <<>>

unbind(p, h) == Count /\ f' = Unbound(f, p, h) /\ called' = <<>>

eve(name) ==
    /\ Count
    /\ \E s \in {Eve([f |-> f, stop |-> FALSE, called |-> <<>>], name)} : f' = s.f /\ called' = s.called

EveNext ==
    \/ \E p \in Path : unbind(p, Null) \/ \E h \in DOMAIN Handler : on(p, h) \/ unbind(p, h)
    \/ \E name \in Event : eve(name)

------------------------------------------------------------------------------
(* Dragging.                                                                  *)

dragVars == <<fingers, draggable, hears, held, drag, heard, told, thrown, cut>>

DragInit ==
    /\ fingers = [g \in Finger |-> Null] /\ draggable = [el \in Element |-> 0] /\ hears = {} /\ held = [el \in Element |-> Null]
    /\ drag = <<>> /\ heard = FALSE /\ told = <<>> /\ thrown = FALSE /\ cut = FALSE

\* What drag() leaves of el._drag while el is dragged: an object without a place.
Forgotten == [x |-> Null, finger |-> Null]

\* start, once for each call of drag(): the touch is the first one on the element, and the
\* document gets its handlers when nothing is dragged yet. (What the page does when it is
\* told of a start or a move is an action of its own after this one.)
Start(el, touches) ==
    LET theirs == {g \in Finger : touches[g] # Null /\ touches[g].el = el}
        first == CHOOSE g \in theirs : \A h \in theirs : g <= h
    IN /\ held' = [held EXCEPT ![el] = [x |-> touches[first].x, finger |-> first]]
       /\ drag' = drag \o [i \in 1 .. draggable[el] |-> el]
       /\ heard' = (heard \/ drag = <<>>) /\ hears' = hears \cup {el}
       /\ told' = [i \in 1 .. draggable[el] |-> <<el, "start", touches[first].x>>]

Press(g, el, x) ==
    LET times == IF el = Null THEN 0 ELSE draggable[el]
    IN /\ fingers[g] = Null /\ Len(drag) + times <= MaxDrag
       /\ fingers' = [fingers EXCEPT ![g] = [el |-> el, x |-> x, times |-> times]]
       /\ IF times > 0 THEN Start(el, fingers') ELSE told' = <<>> /\ UNCHANGED <<held, drag, heard, hears>>
       /\ thrown' = FALSE /\ UNCHANGED <<draggable, cut>>

\* dragMove: from the last that is dragged to the first, each with the place of its touch.
Move(g, x) ==
    LET Way(el) == IF held[el] = Forgotten THEN Null ELSE fingers'[held[el].finger].x - held[el].x
        Told(el) == IF el \in hears THEN <<<<el, "move", Way(el)>>>> ELSE <<>>
    IN /\ fingers[g] # Null /\ fingers[g].x # x /\ fingers' = [fingers EXCEPT ![g].x = x]
       /\ told' = IF heard THEN FlattenSeq([i \in DOMAIN drag |-> Told(Reverse(drag)[i])]) ELSE <<>>
       /\ thrown' = FALSE /\ UNCHANGED <<draggable, hears, held, drag, heard, cut>>

\* What drag() and undrag() do to s, which has the variables that they write.
Dragged(s, el) ==
    [s EXCEPT !.draggable[el] = @ + 1, !.held[el] = IF @ = Null THEN Null ELSE Forgotten]
Undragged(s, el) ==
    [s EXCEPT !.draggable[el] = 0, !.hears = IF s.draggable[el] > 0 THEN @ \ {el} ELSE @]
Draggables(d) == {el \in Element : d[el] > 0}

\* What the page does when it is told of an end. An undrag() of the last one throws, since
\* the document has lost its handlers at that time.
Answers == [does : {"nothing", "throw"}] \cup [does : {"drag", "undrag"}, el : Element]
Answered(s, answer) ==
    CASE answer.does = "nothing" -> s
      [] answer.does = "throw" -> [s EXCEPT !.thrown = TRUE]
      [] answer.does = "drag" -> Dragged(s, answer.el)
      [] answer.does = "undrag" ->
           [Undragged(s, answer.el) EXCEPT !.thrown = Draggables(Undragged(s, answer.el).draggable) = {}]

\* The walk of dragUp, which ends where something throws.
Ended(answers) ==
    FoldLeft(LAMBDA s, i :
                 IF s.thrown THEN s
                 ELSE LET el == drag[i]
                          now == [s EXCEPT !.held[el] = Null]
                      IN IF el \notin s.hears THEN now
                         ELSE Answered([now EXCEPT !.told = Append(@, <<el, "end", 0>>)], answers[i]),
             [draggable |-> draggable, hears |-> hears, held |-> held, told |-> <<>>, thrown |-> FALSE],
             Reverse([i \in DOMAIN drag |-> i]))

\* dragUp: the end of one touch ends them all. The handlers go, the ends are told, and only
\* then, unless this throws, the list is emptied; rest is what is left of it.
dragUp(rest) ==
    IF ~heard THEN told' = <<>> /\ thrown' = FALSE /\ UNCHANGED <<draggable, hears, held, drag, heard, cut>>
    ELSE \E answers \in [DOMAIN drag -> Answers] : \E s \in {Ended(answers)} :
            /\ \A el \in Element : s.draggable[el] <= MaxTimes
            /\ draggable' = s.draggable /\ hears' = s.hears /\ held' = s.held /\ told' = s.told
            /\ heard' = FALSE /\ thrown' = s.thrown
            /\ IF s.thrown THEN cut' = TRUE /\ UNCHANGED drag ELSE drag' = rest /\ UNCHANGED cut

\* Mutant: the last in the list stays there.
LiftKeepsLast(g) == fingers[g] # Null /\ fingers' = [fingers EXCEPT ![g] = Null] /\ dragUp(Tail(drag))

Lift(g) == fingers[g] # Null /\ fingers' = [fingers EXCEPT ![g] = Null] /\ dragUp(<<>>)

dragOn(el) ==
    /\ draggable[el] < MaxTimes
    /\ \E s \in {Dragged([draggable |-> draggable, held |-> held], el)} : draggable' = s.draggable /\ held' = s.held
    /\ thrown' = FALSE /\ told' = <<>> /\ UNCHANGED <<fingers, hears, drag, heard, cut>>

\* undrag: the last one takes the handlers of the document, and throws when there are none.
undrag(el) ==
    /\ \E s \in {Undragged([draggable |-> draggable, hears |-> hears], el)} :
           draggable' = s.draggable /\ hears' = s.hears
    /\ LET last == Draggables(draggable') = {}
       IN heard' = (heard /\ ~last) /\ thrown' = (~heard /\ last) /\ cut' = (cut \/ (heard /\ last))
    /\ told' = <<>> /\ UNCHANGED <<fingers, held, drag>>

DragNext ==
    \/ \E g \in Finger :
           \/ Lift(g)
           \/ \E x \in Places : Move(g, x) \/ \E el \in Element \cup {Null} : Press(g, el, x)
    \/ \E el \in Element : dragOn(el) \/ undrag(el)

------------------------------------------------------------------------------
(* What eve promises.                                                         *)

\* If no two z-indexes are the same, every listener is called once, those with a z-index
\* in its order, the negative ones before all others, and the others in theirs.
Ordered(zs) ==
    LET order == Order(zs)
        Place(i) == CHOOSE k \in DOMAIN order : order[k] = i
        has == {i \in DOMAIN zs : zs[i] # Null}
    IN (\A i, j \in has : zs[i] = zs[j] => i = j) =>
           /\ Len(order) = Len(zs) /\ ToSet(order) = DOMAIN zs
           /\ \A i, j \in DOMAIN zs :
                  /\ {i, j} \subseteq has /\ zs[i] < zs[j] => Place(i) < Place(j)
                  /\ i \in has /\ zs[i] < 0 /\ j \notin has => Place(i) < Place(j)
                  /\ {i, j} \cap has = {} /\ i < j => Place(i) < Place(j)

\* An event calls its listeners up to the one that stops it, whatever the events do that
\* these raise; and one that listens once is called once.
Heard ==
    called' # <<>> =>
        LET name == called'[1][1]
            got == SelectSeq(called', LAMBDA c : c[1] = name)
            all == Sequence(f, name)
            stops == {i \in DOMAIN all : Handler[all[i]].does = "stop"}
            n == IF stops = {} THEN Len(all) ELSE CHOOSE i \in stops : \A j \in stops : i <= j
        IN /\ [i \in DOMAIN got |-> got[i][2]] = SubSeq(all, 1, n)
           /\ \A i \in DOMAIN called' : Handler[called'[i][2]].does = "once" =>
                  \A p \in Path : called'[i][2] \notin ToSet(f'[p])

------------------------------------------------------------------------------
(* What dragging promises.                                                    *)

\* Something is dragged as long as the document listens, and only with a finger on it that
\* was set down when it was draggable: it stands in the list as often as these fingers
\* started it, at most. Unless undrag took the handlers meanwhile, or the page threw or took
\* the last draggable away when it was told of an end: then the list is never empty again,
\* and nothing can be dragged any more.
DragsEnd ==
    /\ ~cut =>
        /\ heard <=> drag # <<>>
        /\ \A i \in DOMAIN drag : held[drag[i]] # Null
        /\ \A el \in Element :
               Len(SelectSeq(drag, LAMBDA d : d = el)) <=
                   MapThenSumSet(LAMBDA g : fingers[g].times,
                                              {g \in Finger : fingers[g] # Null /\ fingers[g].el = el})
    /\ cut => ~heard /\ drag # <<>>
===============================================================================
