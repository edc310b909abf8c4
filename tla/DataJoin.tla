------------------------------- MODULE DataJoin ------------------------------
(* Selections, transitions and timers of d3.js: elements that are joined with *)
(* data by key, drawn again and again while their transitions still run. A    *)
(* drawing is what pages do with it: the elements that are there and those    *)
(* that enter go to their values in a transition, those that exit are removed *)
(* at the end of one, and the elements are ordered as the data are.           *)
EXTENDS Arrays

CONSTANTS
    Node,       \* the elements that can be made, in the order they are made
    Data,       \* the data that may be drawn: sequences of [key, value], keys differ
    Delay,      \* delay and
    Duration,   \* duration of every transition, in frames: longer than two frames take
    FrameTimes, \* the time from one frame to the next
    MaxDraws    \* bound: how often the page draws

VARIABLES
    children,   \* the elements in the document
    datum,      \* element -> its __data__
    attr,       \* element -> its attribute: a value, or "between" two of them
    lock,       \* element -> __transition__: [active, count], or Null
    queue,      \* d3_timer_queue: [callback, id, node, elapsed, delay, tween]
    transitions,\* id -> [nodes, removes, elapsed] of the transitions made
    frame,      \* d3_timer_interval: a frame is asked for
    timeout,    \* d3_timer_timeout: a timeout is set
    drawn       \* the data drawn last

joinVars == <<children, datum, attr, lock, queue, transitions, frame, timeout, drawn>>

Init ==
    /\ children = <<>> /\ drawn = <<>>
    /\ datum = [n \in ToSet(Node) |-> Null] /\ attr = [n \in ToSet(Node) |-> Null]
    /\ lock = [n \in ToSet(Node) |-> Null]
    /\ queue = <<>> /\ transitions = <<>> /\ frame = FALSE /\ timeout = FALSE

------------------------------------------------------------------------------
(* The join.                                                                  *)

Joined(data) == Join([i \in DOMAIN children |-> datum[children[i]].key], [k \in DOMAIN data |-> data[k].key])

\* order: from the last element to the first, each is put before the one behind it.
RECURSIVE Order(_, _, _)
Order(nodes, i, group) ==
    IF i <= 0 THEN nodes
    ELSE LET next == group[i + 1]
             node == group[i]
             without == SelectSeq(nodes, LAMBDA c : c # node)
             Place(seq, c) == CHOOSE p \in DOMAIN seq : seq[p] = c
             inPlace == Place(nodes, node) + 1 = Place(nodes, next)
         IN Order(IF inPlace THEN nodes ELSE InsertAt(without, Place(without, next), node), i - 1, group)

\* d3.timer: at the head of the queue; it asks for a frame unless one is asked for.
Timer(callback, id, node, elapsed, delay) ==
    [callback |-> callback, id |-> id, node |-> node, elapsed |-> elapsed, delay |-> delay,
     tween |-> Null, flush |-> FALSE]

\* Elements made for the data that have none, and appended.
Free == SelectSeq(Node, LAMBDA n : datum[n] = Null)

Draw(data) ==
    LET join == Joined(data)
        entering == SelectSeq([k \in DOMAIN data |-> k], LAMBDA k : join.update[k] = 0)
        made == SubSeq(Free, 1, Len(entering))
        group == [k \in DOMAIN data |-> IF join.update[k] # 0 THEN children[join.update[k]]
                                        ELSE made[CHOOSE p \in DOMAIN entering : entering[p] = k]]
        id == Len(transitions) + 1
    IN /\ Len(transitions) < 2 * MaxDraws /\ Len(Free) >= Len(entering)
       /\ datum' = [n \in ToSet(Node) |->
                       IF \E k \in DOMAIN data : group[k] = n
                       THEN data[CHOOSE k \in DOMAIN data : group[k] = n] ELSE datum[n]]
       /\ children' = Order(children \o made, Len(group) - 1, group)
       /\ transitions' = transitions \o <<[nodes |-> group, removes |-> FALSE],
                                          [nodes |-> SetToSeq({children[i] : i \in join.exit}), removes |-> TRUE]>>
       /\ queue' = <<Timer("create", id + 1, Null, 0, 0), Timer("create", id, Null, 0, 0)>> \o queue
       /\ frame' = TRUE /\ timeout' = (timeout /\ frame)
       /\ drawn' = data
       /\ UNCHANGED <<attr, lock>>

------------------------------------------------------------------------------
(* A frame. The state that the callbacks change is threaded through them:     *)
(* [lock, attr, children, datum, queue, added].                               *)

\* stop.
Stop(s, node) ==
    [s EXCEPT !.lock[node] = IF @.count = 1 THEN Null ELSE [@ EXCEPT !.count = @ - 1]]

\* Mutant: the end of a removal removes the element, whatever else is to come.
EndAnyway(s, id, node) ==
    IF transitions[id].removes THEN [s EXCEPT !.children = SelectSeq(@, LAMBDA c : c # node)] ELSE s

\* end: the listener of remove, which leaves an element that has more transitions.
End(s, id, node) ==
    IF transitions[id].removes /\ s.lock[node] = Null
    THEN [s EXCEPT !.children = SelectSeq(@, LAMBDA c : c # node)] ELSE s

\* tick: TRUE in "done" tells the queue that the callback need not be called again.
Tick(s, id, node, elapsed, tween) ==
    LET over == elapsed - Delay >= Duration
        value == s.datum[node].value
        moved == IF tween # Null
                 THEN [s EXCEPT !.attr[node] = IF over THEN tween ELSE "between"] ELSE s
    IN IF s.lock[node].active # id THEN [s |-> Stop(s, node), done |-> TRUE]
       ELSE IF over THEN [s |-> End(Stop(moved, node), id, node), done |-> TRUE]
       ELSE [s |-> moved, done |-> FALSE]

\* start: takes the lock from the transitions before, unless a later one has it; value is
\* that of the datum which the element had when the transition was set up.
Start(s, id, node, elapsed, value) ==
    LET tween == IF transitions[id].removes \/ s.attr[node] = value THEN Null ELSE value
        ticking == [Timer("tick", id, node, elapsed, 0) EXCEPT !.tween = tween]
    IN IF s.lock[node].active > id THEN Stop(s, node)
       ELSE With(Tick([s EXCEPT !.lock[node].active = id], id, node, elapsed, tween), LAMBDA ticked :
                IF ticked.done THEN ticked.s ELSE [ticked.s EXCEPT !.added = <<ticking>> \o @])

\* What d3_transition puts in the queue: every element's lock counts one more, and its
\* start waits for the delay.
RECURSIVE Create(_, _, _, _)
Create(s, id, nodes, elapsed) ==
    IF nodes = <<>> THEN s
    ELSE LET node == Head(nodes)
             value == s.datum[node].value
             starting == [Timer("start", id, node, elapsed, Delay) EXCEPT !.tween = value]
         IN With([s EXCEPT !.lock[node] = IF @ = Null THEN [active |-> 0, count |-> 1]
                                          ELSE [@ EXCEPT !.count = @ + 1]], LAMBDA counted :
              With(IF Delay <= elapsed THEN Start(counted, id, node, elapsed, value)
                   ELSE [counted EXCEPT !.added = <<starting>> \o @],
                   LAMBDA set : Create(set, id, Tail(nodes), elapsed)))

\* d3_timer_step: the callbacks in the order of the queue; what they add is at its head
\* and waits for the next frame. Those that are done are flushed.
Call(s, t) ==
    CASE t.elapsed < t.delay -> [s |-> s, done |-> FALSE]
      [] t.elapsed >= t.delay /\ t.callback = "create" ->
           [s |-> Create(s, t.id, transitions[t.id].nodes, t.elapsed), done |-> TRUE]
      [] t.elapsed >= t.delay /\ t.callback = "start" ->
           [s |-> Start(s, t.id, t.node, t.elapsed, t.tween), done |-> TRUE]
      [] t.elapsed >= t.delay /\ t.callback = "tick" -> Tick(s, t.id, t.node, t.elapsed, t.tween)

RECURSIVE Step(_, _)
Step(s, i) ==
    IF i > Len(s.queue) THEN s
    ELSE With(Call(s, s.queue[i]), LAMBDA r :
             With([r.s EXCEPT !.queue[i].flush = r.done], LAMBDA next : Step(next, i + 1)))

\* What is due soon is waited for with a frame, what is due later with a timeout.
Soon(timers) == \E i \in DOMAIN timers : timers[i].delay - timers[i].elapsed <= 1

\* Mutant: nothing waits for what is due later.
AskFrame(timers) == frame' = Soon(timers) /\ timeout' = FALSE

Ask(timers) == frame' = Soon(timers) /\ timeout' = (~Soon(timers) /\ timers # <<>>)

\* A frame, or the timeout, after some time.
Frame(time) ==
    LET aged == [i \in DOMAIN queue |-> [queue[i] EXCEPT !.elapsed =
                    IF @ + time > Delay + Duration THEN Delay + Duration ELSE @ + time]]
        before == [lock |-> lock, attr |-> attr, children |-> children, datum |-> datum,
                   queue |-> aged, added |-> <<>>]
    IN /\ frame \/ timeout
       /\ \E s \in {Step(before, 1)} :
              LET left == s.added \o SelectSeq(s.queue, LAMBDA t : ~t.flush)
              IN /\ lock' = s.lock /\ children' = s.children /\ queue' = left
                 /\ attr' = [n \in ToSet(Node) |-> IF n \in ToSet(s.children) THEN s.attr[n] ELSE Null]
                 /\ datum' = [n \in ToSet(Node) |-> IF n \in ToSet(s.children) THEN datum[n] ELSE Null]
                 /\ Ask(left)
       /\ UNCHANGED <<transitions, drawn>>

Next == (\E data \in Data : Draw(data)) \/ (\E time \in FrameTimes : Frame(time))

Spec == Init /\ [][Next]_joinVars

------------------------------------------------------------------------------
(* Properties.                                                                *)

Keys(nodes) == [i \in DOMAIN nodes |-> datum[nodes[i]].key]
DataKeys == [k \in DOMAIN drawn |-> drawn[k].key]

\* However drawings and frames come in between: an element whose datum is drawn is never
\* removed, and these stand in the order of the data, after every step.
DrawnStay ==
    LET live == SelectSeq(children, LAMBDA c : datum[c] \in ToSet(drawn))
    IN Keys(live) = DataKeys /\ \A i \in DOMAIN live : datum[live[i]] = drawn[i]

\* When no timer is left, the page shows the data drawn last and nothing else, with their
\* values; no lock is left on an element; and while one is left, a frame or timeout comes.
AtRest ==
    /\ queue = <<>> =>
           /\ Keys(children) = DataKeys
           /\ \A i \in DOMAIN children : attr[children[i]] = drawn[i].value /\ lock[children[i]] = Null
    /\ queue # <<>> => frame \/ timeout

Resting == queue = <<>>
=============================================================================
