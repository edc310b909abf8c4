--------------------------------- MODULE Force -------------------------------
(* d3.layout.force with d3.behavior.drag, in one dimension: a layout that is  *)
(* heated, cools tick by tick on the timer of d3 and then ends, while its     *)
(* nodes are hovered and dragged. Links, charges and gravity move the nodes   *)
(* that are free anywhere.                                                    *)
EXTENDS Integers, FiniteSets, SequencesExt

CONSTANTS
    Null, NaN,
    Neighbours, \* Neighbours[i]: the nodes linked with node i, in the order of the links
    Places,     \* where nodes may come and pointers may be
    Fingers,    \* the identifiers of touches, besides the mouse
    Hot,        \* ticks after which a heated layout is cold
    MaxCalls    \* bound: how much the user and the program do

VARIABLES
    count,      \* the nodes of the layout are 1 .. count
    alpha,
    queued,     \* d3's timer calls tick
    x, px,      \* node -> its place, and the one before
    fixed,      \* node -> who fixed it: bit 1, the program, bit 2, the mouse or a touch
    over,       \* the node under the mouse
    dragNode,   \* d3_layout_forceDragNode; d3_layout_forceDragForce is set with it
    drag,       \* the drag whose handlers are on the window
    told,       \* the last event of the layout
    late,       \* a listener of its end has heated the layout
    overtaken,  \* the nodes whose drag lost its handlers to another
    calls

forceVars == <<count, alpha, queued, x, px, fixed, over, dragNode, drag, told, late, overtaken, calls>>

Node == 1 .. Len(Neighbours)
Pointer == {"mouse"} \cup Fingers

Init ==
    /\ count = 0 /\ alpha = 0 /\ queued = FALSE /\ told = "end" /\ late = FALSE /\ calls = 0
    /\ x = [n \in Node |-> NaN] /\ px = [n \in Node |-> NaN]
    /\ fixed = [n \in Node |-> {}] /\ over = Null /\ dragNode = Null /\ drag = Null /\ overtaken = {}

Count == calls < MaxCalls /\ calls' = calls + 1

------------------------------------------------------------------------------
(* The layout.                                                                *)

\* force.alpha: a cold layout starts, one that runs takes the heat; its end is left to
\* the tick.
Heated(a) ==
    /\ alpha' = a
    /\ IF alpha = 0 /\ a > 0 THEN told' = "start" /\ queued' = TRUE ELSE UNCHANGED <<told, queued>>
    /\ late' = (late /\ a > 0)

Stop == Count /\ Heated(0) /\ UNCHANGED <<count, x, px, fixed, over, dragNode, drag, overtaken>>

\* position: where the first neighbour is that has a place, or anywhere.
Positions(at, i) ==
    LET placed == SelectSeq(Neighbours[i], LAMBDA n : n <= count' /\ at[n] # NaN)
    IN IF at[i] # NaN THEN {at[i]} ELSE IF placed # <<>> THEN {at[placed[1]]} ELSE Places

\* start, with the program's nodes, more than before or as many.
Start(n) ==
    /\ Count /\ n >= count /\ count' = n
    /\ x' \in FoldLeft(LAMBDA all, i : UNION {{[at EXCEPT ![i] = p] : p \in Positions(at, i)} : at \in all},
                       {x}, [i \in 1 .. n |-> i])
    /\ px' = [i \in Node |-> IF px[i] = NaN THEN x'[i] ELSE px[i]]
    /\ Heated(Hot)
    /\ UNCHANGED <<fixed, over, dragNode, drag, overtaken>>

\* The program fixes a node, or lets it go.
Fix(n) ==
    /\ Count /\ n <= count
    /\ fixed' = [fixed EXCEPT ![n] = IF 1 \in @ THEN @ \ {1} ELSE @ \cup {1}]
    /\ UNCHANGED <<count, alpha, queued, x, px, over, dragNode, drag, told, late, overtaken>>

\* A tick that finds the layout cold: the end, after which the timer drops it, whatever
\* its listeners have done.
End(again) ==
    /\ told' = IF again THEN "start" ELSE "end"
    /\ alpha' = IF again THEN Hot ELSE 0
    /\ late' = again /\ queued' = FALSE
    /\ UNCHANGED <<x, px>>

\* Nodes that are fixed go to where they were or were dragged, the others anywhere.
Moved(n, at, was) == IF fixed[n] # {} THEN at = px[n] /\ was = px[n] ELSE at \in Places /\ was \in Places

Warm ==
    /\ alpha' = alpha - 1 /\ told' = "tick"
    /\ \E at, was \in [1 .. count -> Places \cup {px[n] : n \in 1 .. count}] :
           /\ \A n \in 1 .. count : Moved(n, at[n], was[n])
           /\ x' = [n \in Node |-> IF n <= count THEN at[n] ELSE NaN]
           /\ px' = [n \in Node |-> IF n <= count THEN was[n] ELSE NaN]
    /\ UNCHANGED <<queued, late>>

Tick ==
    /\ queued
    /\ IF alpha <= 1 THEN \E again \in BOOLEAN : End(again) /\ (again => calls < MaxCalls)
                          /\ calls' = IF again THEN calls + 1 ELSE calls
       ELSE Warm /\ UNCHANGED calls
    /\ UNCHANGED <<count, fixed, over, dragNode, drag, overtaken>>

------------------------------------------------------------------------------
(* The mouse and the fingers.                                                 *)

\* d3_layout_forceDragOver and d3_layout_forceDragOut.
Out(f, n) == IF n = Null \/ n = dragNode THEN f ELSE [f EXCEPT ![n] = @ \ {2}]

Hover(n) ==
    /\ Count /\ n # over /\ over' = n
    /\ fixed' = IF n = Null THEN Out(fixed, over) ELSE [Out(fixed, over) EXCEPT ![n] = @ \cup {2}]
    /\ UNCHANGED <<count, alpha, queued, x, px, dragNode, drag, told, late, overtaken>>

\* mousedown and dragstart: the window's handlers are those of this drag from now on.
Press(p, n, place) ==
    /\ Count /\ n <= count /\ (p = "mouse" => over = n /\ drag = Null)
    /\ drag' = [pointer |-> p, node |-> n, offset |-> x[n] - place, at |-> place, moved |-> FALSE]
    /\ overtaken' = IF drag = Null \/ drag.node = n THEN overtaken ELSE overtaken \cup {drag.node}
    /\ dragNode' = n /\ fixed' = [fixed EXCEPT ![n] = @ \cup {2}]
    /\ UNCHANGED <<count, alpha, queued, x, px, over, told, late>>

\* dragmove, by any pointer, and d3_layout_forceDrag.
Move(place) ==
    /\ Count /\ drag # Null
    /\ drag' = [drag EXCEPT !.at = place, !.moved = TRUE]
    /\ px' = [px EXCEPT ![dragNode] = place + drag.offset]
    /\ Heated(Hot)
    /\ UNCHANGED <<count, x, fixed, over, dragNode, overtaken>>

\* dragend, by any pointer, or when the element has left the document.
Lift ==
    /\ drag # Null /\ drag' = Null /\ dragNode' = Null
    /\ fixed' = [fixed EXCEPT ![dragNode] = @ \ {2}]
    /\ overtaken' = overtaken \ {dragNode}
    /\ UNCHANGED <<count, alpha, queued, x, px, over, told, late, calls>>

Next ==
    \/ Stop \/ Tick \/ Lift
    \/ \E n \in Node : Start(n) \/ Fix(n) \/ (n <= count /\ Hover(n))
    \/ Hover(Null)
    \/ \E place \in Places : Move(place) \/ \E p \in Pointer, n \in Node : Press(p, n, place)

Fairness == WF_forceVars(Tick)

Spec == Init /\ [][Next]_forceVars /\ Fairness

------------------------------------------------------------------------------
(* Properties.                                                                *)

\* A layout that is hot has its timer and was started, and every node has a place - but
\* for one that a listener of its end has heated, which only force.stop gets going again.
Runs ==
    alpha > 0 =>
        /\ queued \/ late
        /\ told # "end"
        /\ \A n \in 1 .. count : x[n] # NaN /\ px[n] # NaN

\* Only what is under the mouse or dragged is held; but a second finger makes the window
\* forget the drag of the first, whose node is left where it is.
Unpinned == \A n \in Node : 2 \in fixed[n] => n \in {over, dragNode} \cup overtaken

\* Tick by tick, the node that is dragged is where the pointer has moved it, whatever
\* pulls at it, and what the program has fixed stays.
Follows ==
    \A n \in 1 .. count : alpha' \in 1 .. alpha - 1 =>
        /\ drag # Null /\ drag.moved /\ drag.node = n => x'[n] = drag.at + drag.offset
        /\ fixed[n] # {} => x'[n] = px[n] /\ px'[n] = px[n]

\* A layout that nobody touches any more comes to rest.
Resting == (alpha = 0 /\ ~queued) \/ late

------------------------------------------------------------------------------
(* d3.geom.quadtree, and the forces that d3.layout.force takes from it. The   *)
(* points are 1 .. n, and at gives their places <<x, y>>, or NaN, in units    *)
(* that can be halved as often as the tree is deep.                           *)

\* d3_geom_quadtreeNode.
Empty == [leaf |-> TRUE, point |-> Null, nodes |-> <<Null, Null, Null, Null>>]

\* The square <<x1, y1, side>> about the points.
Extent(at) ==
    LET xs == {at[i][1] : i \in {j \in DOMAIN at : at[j] # NaN}}
        ys == {at[i][2] : i \in {j \in DOMAIN at : at[j] # NaN}}
    IN <<Min(xs), Min(ys), Max({Max(xs) - Min(xs), Max(ys) - Min(ys)})>>

\* The four quarters, from left to right and from top to bottom, and the one a place is in.
Quarter(square, i) ==
    LET half == square[3] \div 2
    IN <<square[1] + half * ((i - 1) % 2), square[2] + half * ((i - 1) \div 2), half>>
QuarterOf(square, p) ==
    1 + (IF p[1] >= square[1] + square[3] \div 2 THEN 1 ELSE 0)
      + (IF p[2] >= square[2] + square[3] \div 2 THEN 2 ELSE 0)

\* insert and insertChild: a leaf with a point in another place sends both down; points in
\* one place make a chain.
RECURSIVE insert(_, _, _, _)
insert(n, p, at, square) ==
    LET insertChild(m, q) ==
            LET i == QuarterOf(square, at[q])
            IN [m EXCEPT !.leaf = FALSE,
                         !.nodes[i] = insert(IF @ = Null THEN Empty ELSE @, q, at, Quarter(square, i))]
    IN IF ~n.leaf THEN insertChild(n, p)
       ELSE IF n.point = Null THEN [n EXCEPT !.point = p]
       ELSE IF at[n.point] = at[p] THEN insertChild(n, p)
       ELSE insertChild(insertChild([n EXCEPT !.point = Null], n.point), p)

quadtree(at) ==
    FoldLeft(LAMBDA root, p : IF at[p] = NaN THEN root ELSE insert(root, p, at, Extent(at)),
             Empty, [p \in DOMAIN at |-> p])

\* The points below a node of the tree, itself first.
RECURSIVE Points(_)
Points(n) ==
    IF n = Null THEN <<>>
    ELSE (IF n.point = Null THEN <<>> ELSE <<n.point>>) \o FlattenSeq([i \in 1 .. 4 |-> Points(n.nodes[i])])

\* d3_layout_forceAccumulate: the charge of a node and, times it, its centre.
accumulate(n, at, charges) ==
    FoldLeft(LAMBDA sum, p : <<sum[1] + charges[p], sum[2] + charges[p] * at[p][1], sum[3] + charges[p] * at[p][2]>>,
             <<0, 0, 0>>, Points(n))

\* repulse: what the tree charges a point with, visited from a node on. What is far, as
\* theta = <<n, d>> measures it, is taken whole; a point whose quad has its centre in the
\* place of the one that is pushed does not push it.
repulse(n, o, at, charges, theta, side) ==
    LET sum == accumulate(n, at, charges)
        dx == sum[2] - sum[1] * at[o][1]
        dy == sum[3] - sum[1] * at[o][2]
        near == side * theta[2] * sum[1]
    IN [whole |-> n.point # o /\ near * near < theta[1] * theta[1] * (dx * dx + dy * dy),
        alone |-> n.point \notin {Null, o} /\ <<dx, dy>> # <<0, 0>>]

RECURSIVE visit(_, _, _, _, _, _)
visit(n, o, at, charges, theta, square) ==
    LET pushed == repulse(n, o, at, charges, theta, square[3])
    IN IF n = Null THEN <<>>
       ELSE IF pushed.whole THEN Points(n)
       ELSE (IF pushed.alone THEN <<n.point>> ELSE <<>>)
            \o FlattenSeq([i \in 1 .. 4 |-> visit(n.nodes[i], o, at, charges, theta, Quarter(square, i))])

------------------------------------------------------------------------------
(* Properties.                                                                *)

\* Every point that has a place is in the tree once, in its quarter all the way down, and
\* a leaf has at most one.
RECURSIVE Sorted(_, _, _)
Sorted(n, at, square) ==
    \A i \in 1 .. 4 : n.nodes[i] # Null =>
        /\ ~n.leaf
        /\ \A p \in ToSet(Points(n.nodes[i])) : QuarterOf(square, at[p]) = i
        /\ Sorted(n.nodes[i], at, Quarter(square, i))

Holds(at) ==
    LET tree == quadtree(at)
    IN /\ Sorted(tree, at, Extent(at))
       /\ IsInjective(Points(tree)) /\ ToSet(Points(tree)) = {i \in DOMAIN at : at[i] # NaN}

\* Every point in another place pushes a point once, alone or with those around it. A point
\* pushes itself only where theta is so wide that a quad is far from a point in its own
\* corner, as the .8 of the layout is. The charges have one sign: a quad whose charges add
\* up to 0 has its centre at infinity, and makes the places of the nodes NaN.
PushedOnce(at, charges, theta) ==
    LET tree == quadtree(at)
    IN \A o \in DOMAIN at : at[o] # NaN =>
        LET pushing == visit(tree, o, at, charges, theta, Extent(at))
        IN /\ IsInjective(pushing)
           /\ \A p \in DOMAIN at : at[p] \notin {NaN, at[o]} => p \in ToSet(pushing)
           /\ 2 * theta[1] * theta[1] <= theta[2] * theta[2] => o \notin ToSet(pushing)
=============================================================================
