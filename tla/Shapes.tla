-------------------------------- MODULE Shapes --------------------------------
(* d3.svg: lines and areas with their interpolators, arcs and chords. Paths are *)
(* sequences of [op, at: points]; the points of lines are multiples of 288,    *)
(* so that nothing is rounded. The monotone interpolator takes a root: it and   *)
(* the symbols are left out.                                                    *)
EXTENDS Integers, SequencesExt

CONSTANTS Null

Seg(op, at) == [op |-> op, at |-> at]
Plus(p, q) == <<p[1] + q[1], p[2] + q[2]>>
Times(k, n, p) == <<(k * p[1]) \div n, (k * p[2]) \div n>>
Minus(p, q) == <<p[1] - q[1], p[2] - q[2]>>

------------------------------------------------------------------------------
(* Interpolators: the first segment of a path, without a letter, is its start. *)

Begun(op, path) == [path EXCEPT ![1].op = op]

Linear(ps) == [i \in DOMAIN ps |-> Seg(IF i = 1 THEN "" ELSE "L", <<ps[i]>>)]

Stepped(ps, Corner(_, _)) ==
    <<Seg("", <<ps[1]>>)>> \o
    FlattenSeq([i \in 1 .. Len(ps) - 1 |-> <<Seg("L", <<Corner(ps[i], ps[i + 1])>>), Seg("L", <<ps[i + 1]>>)>>])

StepBefore(ps) == Stepped(ps, LAMBDA p, q : <<p[1], q[2]>>)
StepAfter(ps) == Stepped(ps, LAMBDA p, q : <<q[1], p[2]>>)

\* Tensions are in quarters.
CardinalTangents(ps, tension) ==
    [i \in 1 .. Len(ps) - 2 |-> Times(4 - tension, 8, Minus(ps[i + 2], ps[i]))]

\* The curves to the points after the first; without tangents at the ends, the first and the
\* last are quadratic.
Hermite(ps, tangents) ==
    LET quad == Len(ps) # Len(tangents)
        k == IF quad THEN 1 ELSE 0
        n == Len(tangents)
        ends == IF quad THEN <<Seg("Q", <<Minus(ps[2], Times(2, 3, tangents[1])), ps[2]>>)>> ELSE <<>>
        between == [i \in 1 .. n - 1 |->
                       LET in == Minus(ps[i + 1 + k], tangents[i + 1])
                       IN IF i = 1 THEN Seg("C", <<Plus(ps[1 + k], tangents[1]), in, ps[i + 1 + k]>>)
                          ELSE Seg("S", <<in, ps[i + 1 + k]>>)]
        last == IF quad THEN <<Seg("Q", <<Plus(ps[n + 1], Times(2, 3, tangents[n])), ps[n + 2]>>)>> ELSE <<>>
    IN ends \o between \o last

Cardinal(ps, tension) ==
    IF Len(ps) < 3 THEN Linear(ps) ELSE <<Seg("", <<ps[1]>>)>> \o Hermite(ps, CardinalTangents(ps, tension))

CardinalOpen(ps, tension) ==
    IF Len(ps) < 4 THEN Linear(ps)
    ELSE <<Seg("", <<ps[2]>>)>> \o Hermite(SubSeq(ps, 2, Len(ps) - 1), CardinalTangents(ps, tension))

CardinalClosed(ps, tension) ==
    LET round == Append(ps, ps[1])
    IN IF Len(ps) < 3 THEN Linear(ps)
       ELSE <<Seg("", <<ps[1]>>)>>
              \o Hermite(round, CardinalTangents(<<ps[Len(ps)]>> \o round \o <<ps[2]>>, tension))

\* The weights of the four points of a window.
Bezier(w, weights) ==
    LET sum(c) == FoldLeft(LAMBDA total, i : total + weights[i] * w[i][c], 0, <<1, 2, 3, 4>>) \div 6
    IN <<sum(1), sum(2)>>

BasisEnd(w) == Bezier(w, <<0, 1, 4, 1>>)
BasisBezier(w) == Seg("C", <<Bezier(w, <<0, 4, 2, 0>>), Bezier(w, <<0, 2, 4, 0>>), BasisEnd(w)>>)
Windows(ps) == [i \in 1 .. Len(ps) - 3 |-> SubSeq(ps, i, i + 3)]
BasisBeziers(windows) == [i \in DOMAIN windows |-> BasisBezier(windows[i])]

Basis(ps) ==
    IF Len(ps) < 3 THEN Linear(ps)
    ELSE <<Seg("", <<ps[1]>>)>>
           \o BasisBeziers(Windows(<<ps[1], ps[1]>> \o ps \o <<ps[Len(ps)], ps[Len(ps)]>>))

BasisOpen(ps) ==
    IF Len(ps) < 4 THEN Linear(ps)
    ELSE <<Seg("", <<BasisEnd(<<<<0, 0>>>> \o SubSeq(ps, 1, 3))>>)>> \o BasisBeziers(Windows(ps))

BasisClosed(ps) ==
    LET windows == Windows([i \in 1 .. Len(ps) + 4 |-> ps[((i - 1) % Len(ps)) + 1]])
    IN <<Seg("", <<BasisEnd(windows[1])>>)>> \o BasisBeziers(Tail(windows))

\* The points come nearer to the line from the first to the last.
Bundle(ps, tension) ==
    LET n == Len(ps) - 1
        whole == Minus(ps[n + 1], ps[1])
        straight(i) == Plus(ps[1], Times(i - 1, n, whole))
    IN IF n = 0 THEN Basis(ps)
       ELSE Basis([i \in DOMAIN ps |-> Plus(Times(tension, 4, ps[i]), Times(4 - tension, 4, straight(i)))])

\* d3_svg_lineInterpolators; a name that is not known is linear.
Interpolate(name, ps, tension) ==
    CASE name = "step-before" -> StepBefore(ps)
      [] name = "step-after" -> StepAfter(ps)
      [] name = "basis" -> Basis(ps)
      [] name = "basis-open" -> BasisOpen(ps)
      [] name = "basis-closed" -> BasisClosed(ps)
      [] name = "bundle" -> Bundle(ps, tension)
      [] name = "cardinal" -> Cardinal(ps, tension)
      [] name = "cardinal-open" -> CardinalOpen(ps, tension)
      [] name = "cardinal-closed" -> CardinalClosed(ps, tension)
      [] OTHER -> Linear(ps)

ReverseOf(name) == CASE name = "step-before" -> "step-after" [] name = "step-after" -> "step-before" [] OTHER -> name

Closed(name) == name \in {"basis-closed", "cardinal-closed"}

------------------------------------------------------------------------------
(* line and area. A datum that is not defined is Null.                        *)

Runs(data) ==
    SelectSeq(FoldLeft(LAMBDA runs, d : IF d = Null THEN Append(runs, <<>>)
                                        ELSE Append(Front(runs), Append(Last(runs), d)), <<<<>>>>, data),
              LAMBDA run : run # <<>>)

line(name, tension, data) ==
    FlattenSeq([k \in DOMAIN Runs(data) |-> Begun("M", Interpolate(name, Runs(data)[k], tension))])

\* Data have the points of the base, and of the top.
area(name, tension, data) ==
    LET edge(k, c) == [i \in DOMAIN Runs(data)[k] |-> Runs(data)[k][i][c]]
    IN FlattenSeq([k \in DOMAIN Runs(data) |->
           Begun("M", Interpolate(name, edge(k, 2), tension))
             \o Begun(IF Closed(name) THEN "M" ELSE "L", Interpolate(ReverseOf(name), Reverse(edge(k, 1)), tension))
             \o <<Seg("Z", <<>>)>>])

------------------------------------------------------------------------------
(* arc and chord: points are [r, a], angles 24ths of a turn, from the top.    *)

Turn == 24
Polar(r, a) == [r |-> r, a |-> (a - 6) % Turn]
Along(large, sweep, p) == [op |-> "A", large |-> large, sweep |-> sweep, at |-> <<p>>]

Ring(r, sweep) ==
    <<Seg("M", <<Polar(r, 12)>>), Along(TRUE, sweep, Polar(r, 0)), Along(TRUE, sweep, Polar(r, 12))>>

arc(r0, r1, start, end) ==
    LET a0 == IF end < start THEN end ELSE start
        a1 == IF end < start THEN start ELSE end
        df == a1 - a0 >= Turn \div 2
    IN IF a1 - a0 >= Turn THEN Ring(r1, 1) \o (IF r0 = 0 THEN <<>> ELSE Ring(r0, 0)) \o <<Seg("Z", <<>>)>>
       ELSE <<Seg("M", <<Polar(r1, a0)>>), Along(df, 1, Polar(r1, a1))>>
              \o (IF r0 = 0 THEN <<Seg("L", <<[r |-> 0, a |-> 0]>>)>>
                  ELSE <<Seg("L", <<Polar(r0, a1)>>), Along(df, 0, Polar(r0, a0))>>)
              \o <<Seg("Z", <<>>)>>

\* Groups are [r, start, end].
chord(s, t) ==
    LET along(g) == Along(g.end - g.start > Turn \div 2, 1, Polar(g.r, g.end))
        curve(g) == Seg("Q", <<[r |-> 0, a |-> 0], Polar(g.r, g.start)>>)
        equals == s.start = t.start /\ s.end = t.end
    IN <<Seg("M", <<Polar(s.r, s.start)>>), along(s)>>
         \o (IF equals THEN <<curve(s)>> ELSE <<curve(t), along(t), curve(s)>>)
         \o <<Seg("Z", <<>>)>>

------------------------------------------------------------------------------
(* Properties.                                                                *)

\* What a browser draws: the control points of every piece.
Curves(path) ==
    LET draw(s, seg) ==
            LET at == IF seg.op = "S" THEN <<Minus(Plus(s.at, s.at), s.control)>> \o seg.at ELSE seg.at
            IN IF seg.op = "Z" THEN s
               ELSE [at |-> Last(at), control |-> IF Len(at) = 1 THEN at[1] ELSE at[Len(at) - 1],
                     pieces |-> IF seg.op \in {"", "M"} THEN s.pieces ELSE Append(s.pieces, <<s.at>> \o at)]
    IN FoldLeft(draw, [at |-> <<0, 0>>, control |-> <<0, 0>>, pieces |-> <<>>], path).pieces

Knots(path, pieces) == <<path[1].at[1]>> \o [i \in DOMAIN pieces |-> Last(pieces[i])]

\* The points that an interpolator goes through; of basis ones these are only the ends.
Through(name, ps) ==
    LET n == Len(ps)
    IN CASE name = "cardinal-open" /\ n > 3 -> SubSeq(ps, 2, n - 1)
         [] name = "cardinal-closed" /\ n > 2 -> Append(ps, ps[1])
         [] OTHER -> ps

\* Where two pieces meet the line does not turn.
Smooth(before, after) ==
    LET u == Minus(Last(before), before[Len(before) - 1])
        v == Minus(after[2], after[1])
    IN u[1] * v[2] = u[2] * v[1] /\ u[1] * v[1] + u[2] * v[2] >= 0

Within(ps, c) == \A k \in {1, 2} : \E p, q \in ToSet(ps) : p[k] <= c[k] /\ c[k] <= q[k]

\* A line goes through its points in their order, or between them, and a curved one does not
\* turn anywhere, the closed ones not even where they close (d3.js d3_svg_line and its
\* interpolators).
LineDrawn(name, tension, ps) ==
    \A path \in {Interpolate(name, ps, tension)} : \A pieces \in {Curves(path)} : \A knots \in {Knots(path, pieces)} :
       /\ name \in {"linear", "cardinal", "cardinal-open", "cardinal-closed"} => knots = Through(name, ps)
       /\ name \in {"step-before", "step-after"} =>
            /\ \A i \in DOMAIN ps : knots[2 * i - 1] = ps[i]
            /\ \A i \in DOMAIN pieces : \E c \in {1, 2} : pieces[i][1][c] = pieces[i][2][c]
       /\ name \in {"basis", "bundle"} => knots[1] = ps[1] /\ Last(knots) = Last(ps)
       /\ name \in {"basis", "bundle", "basis-open", "basis-closed"} =>
            \A i \in DOMAIN pieces : \A c \in ToSet(pieces[i]) : Within(ps, c)
       /\ name \notin {"linear", "step-before", "step-after"} /\ Len(ps) > 3 =>
            \A i \in 2 .. Len(pieces) : Smooth(pieces[i - 1], pieces[i])
       /\ Closed(name) /\ Len(ps) > 2 => Last(knots) = knots[1] /\ Smooth(Last(pieces), pieces[1])

\* The base of an area is the line through its points, so that areas that are stacked leave
\* nothing between them; and there is a closed outline for every run of data without a gap
\* (d3.js d3_svg_area).
AreaFits(name, tension, data) ==
    \A path \in {area(name, tension, data)} :
    \A base \in {line(name, tension, [i \in DOMAIN data |-> IF data[i] = Null THEN Null ELSE data[i][1]])} :
       /\ Len(SelectSeq(path, LAMBDA seg : seg.op = "Z")) = Len(Runs(data))
       /\ Len(Runs(data)) = 1 =>
            \A drawn \in {Curves(Begun("M", SubSeq(path, Len(base) + 1, Len(path) - 1)))} :
                {Reverse(drawn[i]) : i \in DOMAIN drawn} = ToSet(Curves(base))

\* How far an arc goes, from p on; it has its centre in the middle if it goes more than half
\* the way round just when it is said to be the large one.
Swept(p, seg) == IF seg.sweep = 1 THEN (seg.at[1].a - p.a) % Turn ELSE (p.a - seg.at[1].a) % Turn
Centred(p, seg) == seg.at[1].r = p.r /\ (2 * Swept(p, seg) = Turn \/ (seg.large <=> 2 * Swept(p, seg) > Turn))

Turned(path, sweep) ==
    FoldLeft(LAMBDA sum, i : sum + IF path[i].op = "A" /\ path[i].sweep = sweep THEN Swept(Last(path[i - 1].at), path[i]) ELSE 0,
             0, [i \in DOMAIN path |-> i])
Round(path) == \A i \in DOMAIN path : path[i].op = "A" => Centred(Last(path[i - 1].at), path[i])

\* An arc spans its angle, outside and back inside, in whatever order its angles are given and
\* a whole turn at most; a chord spans both its groups, and comes back to where it began
\* (d3.js d3.svg.arc, d3.svg.chord).
ArcSpans(r0, r1, start, end) ==
    \A path \in {arc(r0, r1, start, end)} :
    LET angle == IF end < start THEN start - end ELSE end - start
        span == IF angle < Turn THEN angle ELSE Turn
    IN Round(path) /\ Turned(path, 1) = span /\ Turned(path, 0) = (IF r0 = 0 THEN 0 ELSE span)

ChordSpans(s, t) ==
    LET path == chord(s, t)
        both == IF s.start = t.start /\ s.end = t.end THEN s.end - s.start ELSE s.end - s.start + t.end - t.start
    IN Round(path) /\ Turned(path, 1) = both /\ Last(path[Len(path) - 1].at) = path[1].at[1]

------------------------------------------------------------------------------
(* d3.svg.axis: an axis that is drawn again for other scales, at once or in a   *)
(* transition. A scale is [ticks, lo, unit]: the value v stands at unit*(v-lo). *)
(* Lengths, paddings and orientations of the ticks are layout.                  *)

CONSTANTS ScaleSet

VARIABLES
    nodes,      \* the values of the ticks in the page -> [at, moving: Null, or [to, out]]
    chart,      \* __chart__, a copy of the scale that was drawn last; Null before
    overtaken,  \* it was last drawn while ticks moved, or had moved on
    direct      \* ticks move on for a scale before the last, which was drawn at once

axisVars == <<nodes, chart, overtaken, direct>>

At(scale, v) == scale.unit * (v - scale.lo)
Moving(f) == {v \in DOMAIN f : f[v].moving # Null}

\* Ticks that enter do so where the last scale has them; those that exit go where the new one
\* has them, and are still there for the next join. What is set at once stops no transition.
axis(scale, smooth) ==
    LET ticks == ToSet(scale.ticks)
        scale0 == IF chart = Null THEN scale ELSE chart
        entered == [v \in DOMAIN nodes \cup ticks |->
                       IF v \in DOMAIN nodes THEN nodes[v] ELSE [at |-> At(scale0, v), moving |-> Null]]
    IN /\ nodes' = IF smooth THEN [v \in DOMAIN entered |->
                       [entered[v] EXCEPT !.moving = [to |-> At(scale, v), out |-> v \notin ticks]]]
                   ELSE [v \in ticks |-> [entered[v] EXCEPT !.at = At(scale, v)]]
       /\ chart' = scale
       /\ overtaken' = (direct \/ Moving(nodes) # {})
       /\ direct' = (~smooth /\ Moving(nodes') # {})

\* The transitions of a drawing end together.
TransitionEnd ==
    /\ Moving(nodes) # {}
    /\ nodes' = [v \in {w \in DOMAIN nodes : nodes[w].moving = Null \/ ~nodes[w].moving.out} |->
                    [at |-> IF nodes[v].moving = Null THEN nodes[v].at ELSE nodes[v].moving.to, moving |-> Null]]
    /\ UNCHANGED <<chart, overtaken, direct>>

Init == nodes = <<>> /\ chart = Null /\ overtaken = FALSE /\ direct = FALSE

Next == TransitionEnd \/ \E scale \in ScaleSet, smooth \in BOOLEAN : axis(scale, smooth)

\* When nothing moves, the axis has the ticks of the scale that was drawn last, where it has
\* them, unless that was drawn at once in the middle of a transition; and when a drawing
\* begins, or is done, the ticks stand in the order of their values (d3.js d3.svg.axis).
AxisTrue ==
    /\ ~direct /\ Moving(nodes) = {} /\ chart # Null =>
         DOMAIN nodes = ToSet(chart.ticks) /\ \A v \in DOMAIN nodes : nodes[v].at = At(chart, v)
    /\ ~direct /\ ~overtaken => \A v, w \in DOMAIN nodes : v < w => nodes[v].at <= nodes[w].at

\* The subdivisions of evenly spaced ticks, m between two, in the extent of the scale.
Subdivide(extent, ticks, m) ==
    LET d == (ticks[2] - ticks[1]) \div (m + 1)
        below(i) == SelectSeq([j \in 1 .. m |-> ticks[i] - (m + 1 - j) * d], LAMBDA v : v >= extent[1])
        above == SelectSeq([j \in 1 .. m |-> Last(ticks) + j * d], LAMBDA v : v < extent[2])
    IN IF m = 0 \/ Len(ticks) < 2 THEN <<>> ELSE FlattenSeq([i \in DOMAIN ticks |-> below(i)]) \o above

\* They are the even steps in the extent, but for the ticks themselves and the extent's end,
\* each once and in order (d3.js d3_svg_axisSubdivide).
Subdivided(extent, ticks, m) ==
    LET minor == Subdivide(extent, ticks, m)
        even(v) == (m + 1) * (v - ticks[1]) % (ticks[2] - ticks[1]) = 0
    IN /\ \A i \in 1 .. Len(minor) - 1 : minor[i] < minor[i + 1]
       /\ m > 0 /\ Len(ticks) > 1 =>
            ToSet(minor) = {v \in extent[1] .. extent[2] - 1 : even(v) /\ v \notin ToSet(ticks)}
==============================================================================
