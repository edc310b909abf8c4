-------------------------------- MODULE XRay ---------------------------------
(* X-Ray: the page of state.js, which asks the plugin for the state of the     *)
(* framework every five seconds and draws what is answered. The plugin reads   *)
(* the framework, and the listeners it is told of, while they change; requests *)
(* overtake each other, and answers are lost. What XRayWebPlugin.java builds of *)
(* the framework comes first: its services and the cells they are drawn in.    *)
EXTENDS Arrays

CONSTANTS
    Name,        \* the names of services, in their order
    Frameworks,  \* the states of the framework: [bundles, leds, references, listening];
    First,       \* the first of them
    MaxChanges,  \* bound: how often it changes
    MaxOpen,     \* bound: the requests that are open at once
    MaxLost      \* bound: the answers that are lost

------------------------------------------------------------------------------
(* The state that the plugin builds.                                          *)

\* The names that have a listener or a reference (build).
Names(listeners, references) ==
    SelectSeq(Name, LAMBDA n : n \in DOMAIN listeners \/ \E i \in DOMAIN references : references[i].name = n)

\* listeners.get(name): the listeners whose bundle has gone are removed.
Present(listeners, bundles) ==
    [n \in DOMAIN listeners |-> SelectSeq(listeners[n], LAMBDA b : b \in ToSet(bundles))]

\* The services: who listens for (l), registers (r) and gets (g) each.
Services(listeners, references, bundles) ==
    LET Of(n) == SelectSeq(references, LAMBDA reference : reference.name = n)
    IN [n \in ToSet(Names(listeners, references)) |->
           [l |-> IF n \in DOMAIN listeners THEN Present(listeners, bundles)[n] ELSE <<>>,
            r |-> [i \in DOMAIN Of(n) |-> Of(n)[i].bundle],
            g |-> FlattenSeq([i \in DOMAIN Of(n) |-> Of(n)[i].using])]]

IsOrphan(service) == Len(service.r) <= 1 /\ service.g = <<>> /\ Len(service.l) <= 1

------------------------------------------------------------------------------
(* layoutBundleFirst.                                                         *)

Index(s, e) == CHOOSE i \in DOMAIN s : s[i] = e
Distinct(s) == SelectSeq([i \in DOMAIN s |-> i], LAMBDA i : \A j \in 1 .. i - 1 : s[j] # s[i])

\* The bundles in the order of their rows, and the row and column of each service: the
\* services of a bundle stand on its row, and the bundles that share one of them follow.
RECURSIVE Rows(_, _, _, _, _)
Rows(names, services, bs, order, cells) ==
    IF bs = <<>> THEN [order |-> order, cells |-> cells]
    ELSE LET bd == Head(bs)
             mine == SelectSeq(names, LAMBDA n :
                         n \notin DOMAIN cells /\ bd \in ToSet(services[n].r \o services[n].l))
             Shares(n) == IF bd \in ToSet(services[n].r) THEN services[n].l \o services[n].g \o services[n].r ELSE <<>>
             all == FlattenSeq([i \in DOMAIN mine |-> Shares(mine[i])])
             related == SelectSeq([i \in DOMAIN Distinct(all) |-> all[Distinct(all)[i]]],
                                  LAMBDA b : b \in ToSet(Tail(bs)))
             Alike(n) == SelectSeq(mine, LAMBDA m : IsOrphan(services[m]) <=> IsOrphan(services[n]))
             HowMany(S, P(_)) == Cardinality({n \in S : P(n)})
             start(n) == IF IsOrphan(services[n])
                         THEN HowMany(ToSet(names), LAMBDA m : ~ IsOrphan(services[m]))
                         ELSE HowMany(DOMAIN cells, LAMBDA m : ~ IsOrphan(services[m]))
             Cell(n) == [row |-> Len(order), column |-> start(n) + Index(Alike(n), n) - 1]
         IN With([n \in DOMAIN cells \cup ToSet(mine) |-> IF n \in DOMAIN cells THEN cells[n] ELSE Cell(n)],
                 LAMBDA placed : Rows(names, services,
                     Reverse(related) \o SelectSeq(Tail(bs), LAMBDA b : b \notin ToSet(related)),
                     Append(order, bd), placed))

\* The services are moved halfway down to the last bundle they have to do with.
Halfway(services, layout) ==
    [n \in DOMAIN layout.cells |->
        LET RowOf(b) == Index(layout.order, b) - 1
            row == layout.cells[n].row
            all == ToSet(services[n].r \o services[n].l \o services[n].g)
            last == Max({row} \cup {RowOf(b) : b \in all})
        IN [layout.cells[n] EXCEPT !.row = row + (last - row + 1) \div 2]]

\* Mutant: an icon stays where it is, whether that is occupied or not.
OccupyAnyway(names, i, cells, rows) == cells

\* ... and further down, past the rows that are occupied, except in the first column.
RECURSIVE Occupy(_, _, _, _)
Occupy(names, i, cells, rows) ==
    IF i > Len(names) THEN cells
    ELSE LET cell == cells[names[i]]
             taken == {cells[names[j]] : j \in 1 .. i - 1}
             free == {row \in cell.row .. rows : [cell EXCEPT !.row = row] \notin taken}
         IN IF cell.column = 0 THEN Occupy(names, i + 1, cells, rows)
            ELSE IF free = {} THEN Null
            ELSE Occupy(names, i + 1, [cells EXCEPT ![names[i]].row = Min(free)], rows)

\* build, of the bundles that getBundles gave: the state, or Null for an exception, where a
\* reference has a bundle that came later, a service has no bundle at all, or the last rows
\* of a column are full.
Build(bundles, listeners, references) ==
    LET names == Names(listeners, references)
        Known(services) == \A n \in DOMAIN services :
            /\ ToSet(services[n].r \o services[n].g) \subseteq ToSet(bundles)
            /\ services[n].r \o services[n].l # <<>>
        State(services, layout, cells) ==
            IF cells = Null THEN Null
            ELSE [bundles |-> [i \in DOMAIN bundles |->
                                  [id |-> bundles[i], row |-> Index(layout.order, bundles[i]) - 1]],
                  services |-> [i \in DOMAIN names |->
                                   [name |-> names[i], cell |-> cells[names[i]],
                                    registering |-> services[names[i]].r, getting |-> services[names[i]].g,
                                    listening |-> services[names[i]].l]]]
        Placed(services) ==
            With(Rows(names, services, bundles, <<>>, [n \in {} |-> Null]), LAMBDA layout :
                With(Halfway(services, layout), LAMBDA cells :
                    With(Occupy(names, 1, cells, Len(bundles)), LAMBDA free : State(services, layout, free))))
    IN With(Services(listeners, references, bundles), LAMBDA services :
           IF Known(services) THEN Placed(services) ELSE Null)

------------------------------------------------------------------------------

VARIABLES
    framework,
    listeners,   \* the plugin's: name -> its bundles
    stage,       \* of each request: "none", or "asked", "read", "answered"
    held,        \* what it has come to: what was read, [bundles, leds], or the answer
    page,        \* what is drawn: [wires, bundles, services], sequences of elements
    shown,       \* ghost: the last state that was drawn, or Null
    missed,      \* ghost: <<name, bundle>> where the plugin has dropped a listener that is there
    changes, lost

xrayVars == <<framework, listeners, stage, held, page, shown, missed, changes, lost>>

NoPage == [wires |-> <<>>, bundles |-> <<>>, services |-> <<>>]

\* The page is loaded, and has asked once.
Init ==
    /\ framework = First /\ listeners = First.listening
    /\ stage = [k \in 1 .. MaxOpen |-> IF k = 1 THEN "asked" ELSE "none"]
    /\ held = [k \in 1 .. MaxOpen |-> Null]
    /\ page = NoPage /\ shown = Null /\ missed = {} /\ changes = 0 /\ lost = 0

------------------------------------------------------------------------------
(* The plugin.                                                                *)

ListenersOf(map, name) == IF name \in DOMAIN map THEN map[name] ELSE <<>>

\* addListenerInfo and removeListenerInfo. A name whose last listener is removed is too.
Told(old, new) ==
    LET of == [n \in DOMAIN listeners \cup DOMAIN new |->
                  SelectSeq(ListenersOf(listeners, n), LAMBDA b :
                      b \notin ToSet(ListenersOf(old, n)) \ ToSet(ListenersOf(new, n)))
                  \o SelectSeq(ListenersOf(new, n), LAMBDA b : b \notin ToSet(ListenersOf(old, n)))]
        Emptied(n) == of[n] = <<>> /\ ~ ToSet(ListenersOf(old, n)) \subseteq ToSet(ListenersOf(new, n))
    IN [n \in {m \in DOMAIN of : ~ Emptied(m)} |-> of[n]]

\* Bundles come and go, register and get services, and listen for them.
Change ==
    /\ changes < MaxChanges /\ changes' = changes + 1
    /\ framework' \in Frameworks \ {framework}
    /\ listeners' = Told(framework.listening, framework'.listening)
    /\ missed' = {m \in missed : m[2] \in ToSet(ListenersOf(framework'.listening, m[1]))}
    /\ UNCHANGED <<stage, held, page, shown, lost>>

\* build: getBundles, and the components of each.
GetBundles(k) ==
    /\ stage[k] = "asked" /\ stage' = [stage EXCEPT ![k] = "read"]
    /\ held' = [held EXCEPT ![k] = [bundles |-> framework.bundles, leds |-> framework.leds]]
    /\ UNCHANGED <<framework, listeners, page, shown, missed, changes, lost>>

\* build, the rest of it, and what getState answers: the state, or nothing after an exception.
Answer(k) ==
    /\ stage[k] = "read" /\ stage' = [stage EXCEPT ![k] = "answered"]
    /\ LET read == held[k]
           WithLeds(bundle) == [id |-> bundle.id, row |-> bundle.row, components |-> read.leds[bundle.id]]
           Result(state) == [bundles |-> [i \in DOMAIN state.bundles |-> WithLeds(state.bundles[i])],
                             services |-> state.services]
       IN /\ held' = [held EXCEPT ![k] = With(Build(read.bundles, listeners, framework.references), LAMBDA state :
                                             IF state = Null THEN Null ELSE Result(state))]
          /\ listeners' = Present(listeners, read.bundles)
          /\ missed' = missed \cup UNION {{n} \X (ToSet(listeners[n]) \ ToSet(read.bundles)) : n \in DOMAIN listeners}
    /\ UNCHANGED <<framework, page, shown, changes, lost>>

------------------------------------------------------------------------------
(* The wires.                                                                 *)

Sign(n) == IF n > 0 THEN 1 ELSE IF n < 0 THEN -1 ELSE 0
At(x, y) == <<x, y>>

\* split: n of the way from one point to another, along an axis; not a number where they are one.
Split(from, to, n) == At(n * Sign(to[1] - from[1]), n * Sign(to[2] - from[2]))

\* join: to n before the one point, and on to n behind it, on the way to the other.
Turn(points, p1, p2, n) ==
    LET from == Split(Last(points), p1, n)
        to == Split(p1, p2, n)
    IN points \o <<At(p1[1] - from[1], p1[2] - from[2]), At(p1[1] + to[1], p1[2] + to[2])>>

BundleAt(bundle) == At(44, 40 + 40 * bundle.row)
IconAt(cell) == At(120 + cell.column * 40, 30 + cell.row * 40)

\* From the port of a bundle over the port of a service to its icon.
WireTo(bundle, service, kind) ==
    LET start == At(BundleAt(bundle)[1] + 40, BundleAt(bundle)[2] + 10)
        icon == IconAt(service.cell)
        port == At(icon[1] + (CASE kind = "r" -> -15 [] kind = "g" -> 15 [] kind = "l" -> 0), icon[2])
        corner == Turn(<<start>>, At(port[1], start[2]), port, 4)
    IN [id |-> <<kind, service.name, bundle.id>>,
        d |-> Append(IF kind = "l" THEN corner ELSE Turn(corner, port, icon, 4), icon)]

\* The wires of a state, in the order update makes them.
Wires(state) ==
    LET Bundle(id) == CHOOSE b \in ToSet(state.bundles) : b.id = id
        Of(service, kind, ids) == [i \in DOMAIN ids |-> WireTo(Bundle(ids[i]), service, kind)]
    IN FlattenSeq([i \in DOMAIN state.services |->
           LET service == state.services[i]
           IN Of(service, "r", service.registering) \o Of(service, "g", service.getting)
                \o Of(service, "l", service.listening)])

------------------------------------------------------------------------------
(* The page.                                                                  *)

\* The elements after data(data, key): those that have data are set to them, those that
\* exit are removed, and those that enter are appended. Set(element, datum) is what the
\* drawing makes of a datum, for the element it has or for Null.
Drawn(elements, data, Key(_), Set(_, _)) ==
    LET join == Join([i \in DOMAIN elements |-> Key(elements[i])], [k \in DOMAIN data |-> Key(data[k])])
        DatumOf(i) == {k \in DOMAIN data : join.update[k] = i}
        stay == SelectSeq([i \in DOMAIN elements |-> i], LAMBDA i : i \notin join.exit)
        enter == SelectSeq([k \in DOMAIN data |-> k], LAMBDA k : join.update[k] = 0)
    IN [p \in DOMAIN stay |-> IF DatumOf(stay[p]) = {} THEN elements[stay[p]]
                              ELSE Set(elements[stay[p]], data[CHOOSE k \in DatumOf(stay[p]) : TRUE])]
         \o [e \in DOMAIN enter |-> Set(Null, data[enter[e]])]

\* A led keeps the name it was made with; it is red where its component is unsatisfied.
SetComponent(led, component) ==
    [id |-> component.id, title |-> IF led = Null THEN component.name ELSE led.title,
     class |-> IF component.unsatisfied THEN "ledred" ELSE "ledgreen"]

SetBundle(element, bundle) ==
    [id |-> bundle.id, at |-> BundleAt(bundle),
     leds |-> Drawn(IF element = Null THEN <<>> ELSE element.leds, bundle.components,
                    LAMBDA led : led.id, SetComponent)]

SetService(element, service) ==
    [name |-> service.name, at |-> IconAt(service.cell),
     class |-> IF service.registering = <<>> THEN "absent" ELSE IF service.getting = <<>> THEN "orphan" ELSE "normal"]

Update(old, state) ==
    [wires |-> Drawn(old.wires, Wires(state), LAMBDA wire : wire.id, LAMBDA element, wire : wire),
     bundles |-> Drawn(old.bundles, state.bundles, LAMBDA bundle : bundle.id, SetBundle),
     services |-> Drawn(old.services, state.services, LAMBDA service : service.name, SetService)]

\* The answer to a request comes, and is drawn, whatever was drawn in the meantime; without
\* a state it is not.
Deliver(k) ==
    /\ stage[k] = "answered" /\ stage' = [stage EXCEPT ![k] = "none"]
    /\ held' = [held EXCEPT ![k] = Null]
    /\ IF held[k] = Null THEN UNCHANGED <<page, shown>>
       ELSE page' = Update(page, held[k]) /\ shown' = held[k]
    /\ UNCHANGED <<framework, listeners, missed, changes, lost>>

\* It does not come: callback(null).
Lose(k) ==
    /\ stage[k] # "none" /\ stage' = [stage EXCEPT ![k] = "none"]
    /\ held' = [held EXCEPT ![k] = Null]
    /\ lost < MaxLost /\ lost' = lost + 1
    /\ UNCHANGED <<framework, listeners, page, shown, missed, changes>>

\* Mutant: the timer is set when an answer has come.
AskBack == lost = 0 /\ stage[1] = "none" /\ stage' = [stage EXCEPT ![1] = "asked"]

\* repeat: every five seconds a request, whatever became of the others.
Ask ==
    \E k \in 1 .. MaxOpen :
        /\ stage[k] = "none" /\ \A j \in 1 .. k - 1 : stage[j] # "none"
        /\ stage' = [stage EXCEPT ![k] = "asked"]
Repeat == Ask /\ UNCHANGED <<framework, listeners, held, page, shown, missed, changes, lost>>

Next ==
    \/ Change \/ Repeat
    \/ \E k \in 1 .. MaxOpen : GetBundles(k) \/ Answer(k) \/ Deliver(k) \/ Lose(k)

\* The plugin serves every request, its answer comes or is lost, and the timer of the page
\* goes on.
Progress(k) ==
    /\ stage[k] # "none"
    /\ stage' = [stage EXCEPT ![k] = CASE stage[k] = "asked" -> "read" [] stage[k] = "read" -> "answered"
                                       [] stage[k] = "answered" -> "none"]

------------------------------------------------------------------------------
(* Properties.                                                                *)

\* The page shows one state, as a whole: its bundles with their components, its services,
\* each in a place of its own unless in the first column, and its wires, whatever was drawn
\* before; but a wire may be drawn twice.
ShowsOneState ==
    shown # Null =>
        LET fresh == Update(NoPage, shown)
            Untitled(bundle) == [bundle EXCEPT !.leds = {[id |-> led.id, class |-> led.class] : led \in ToSet(@)}]
            BundlesOf(drawn) == {Untitled(b) : b \in ToSet(drawn.bundles)}
        IN /\ BundlesOf(page) = BundlesOf(fresh) /\ Len(page.bundles) = Len(shown.bundles)
           /\ ToSet(page.services) = ToSet(fresh.services) /\ Len(page.services) = Len(shown.services)
           /\ ToSet(fresh.wires) \subseteq ToSet(page.wires)
           /\ \A wire \in ToSet(page.wires) : \E other \in ToSet(fresh.wires) : wire.id = other.id

\* No two icons stand in the same place, unless in the first column, whatever services
\* there are (and three bundles at most: four may fill the last rows).
Apart(bundles, listening, references) ==
    With(Build(bundles, listening, references), LAMBDA state :
        /\ state # Null
        /\ \A s, t \in ToSet(state.services) : s.cell = t.cell => s = t \/ s.cell.column = 0)

\* No wire turns back on its way.
Readable ==
    shown # Null =>
        \A wire \in ToSet(Wires(shown)) : \A i \in 2 .. Len(wire.d) - 1 :
            LET Step(j, axis) == wire.d[j + 1][axis] - wire.d[j][axis]
            IN /\ Step(i, 1) # 0 \/ Step(i, 2) # 0
               /\ Step(i, 1) * Step(i - 1, 1) >= 0 /\ Step(i, 2) * Step(i - 1, 2) >= 0

\* The page shows the framework as it is, every wire once, but for the wires of the
\* listeners that are gone; without them there may be no state at all.
ShowsBut(gone) ==
    LET heard == [n \in DOMAIN framework.listening |->
                     SelectSeq(framework.listening[n], LAMBDA b : <<n, b>> \notin gone)]
        state == Build(framework.bundles, heard, framework.references)
    IN IF state = Null THEN gone # {}
       ELSE /\ ToSet(page.wires) = ToSet(Wires(state)) /\ Len(page.wires) = Len(Wires(state))
            /\ {b.id : b \in ToSet(page.bundles)} = ToSet(framework.bundles)
            /\ ToSet(page.services) = {SetService(Null, service) : service \in ToSet(state.services)}

\* What the plugin still has when all have settled; it misses only what a build has dropped
\* that had read the bundles before the listener's came (XRayWebPlugin.java:247).
UpToDate == ShowsBut(missed)

------------------------------------------------------------------------------
(* A framework in which a bundle comes that listens for a service.           *)

Alone == [bundles |-> <<"a">>, leds |-> [a |-> <<>>], references |-> <<>>, listening |-> [n \in {} |-> <<>>]]
Listened == [bundles |-> <<"a", "b">>, leds |-> [a |-> <<>>, b |-> <<>>], references |-> <<>>,
             listening |-> [p |-> <<"b">>]]

NameValue == <<"p">>
FrameworksValue == {Alone, Listened}

\* The timer of the page goes on, the plugin serves every request, and its answer comes.
Spec == Init /\ [][Next]_xrayVars /\ WF_stage(Ask) /\ \A k \in 1 .. MaxOpen : WF_stage(Progress(k))

\* The servlet provides the state of the framework: once the framework changes no more, the
\* page comes to show it.
ProvidesState == <>[]ShowsBut({})
=============================================================================
