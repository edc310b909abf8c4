-------------------------------- MODULE Paths --------------------------------
(* Paths of raphael.js: made absolute, relative, and into curves, one alone or *)
(* two that an animation goes between. A segment is [op, rel, v], with the     *)
(* coordinates v; arcs have no place here, and three decimals are enough.      *)
EXTENDS Integers, SequencesExt

CONSTANT Null

Segment(op, rel, v) == [op |-> op, rel |-> rel, v |-> v]
Plus(a, b) == IF Null \in {a, b} THEN Null ELSE a + b
Odd(j) == j % 2 = 1
From(s) == SubSeq(s, Len(s) - 1, Len(s))

\* catmullRom2bezier: a curve to each of the dots but the first.
CatmullRom(dots) ==
    LET n == Len(dots) \div 2
        At(i, j) == IF i < 1 THEN dots[j] ELSE IF i > n THEN dots[2 * n - 2 + j] ELSE dots[2 * i - 2 + j]
    IN [i \in 1 .. n - 1 |-> Segment("C", FALSE,
           [j \in 1 .. 2 |-> (6 * At(i, j) + At(i + 1, j) - At(i - 1, j)) \div 6]
             \o [j \in 1 .. 2 |-> (At(i, j) + 6 * At(i + 1, j) - At(i + 2, j)) \div 6]
             \o [j \in 1 .. 2 |-> At(i + 1, j)])]

Begin == [res |-> <<>>, x |-> 0, y |-> 0, mx |-> 0, my |-> 0]
To(s, x, y) == [s EXCEPT !.x = x, !.y = y]

\* pathToAbsolute. After relative dots it knows no more where it is.
Absolute(path) ==
    LET Shifted(s, g) ==
            IF ~g.rel THEN g.v
            ELSE [j \in DOMAIN g.v |-> Plus(g.v[j], IF g.op # "V" /\ Odd(j) THEN s.x ELSE s.y)]
        Step(s, g) ==
            LET v == Shifted(s, g)
                next == [s EXCEPT !.res = IF g.op = "R" THEN @ \o CatmullRom(<<s.x, s.y>> \o v)
                                          ELSE Append(@, Segment(g.op, FALSE, v))]
            IN CASE g.op = "Z" -> To(next, s.mx, s.my)
                 [] g.op = "H" -> To(next, v[1], s.y)
                 [] g.op = "V" -> To(next, s.x, v[1])
                 [] g.op = "M" -> [To(next, v[1], v[2]) EXCEPT !.mx = v[1], !.my = v[2]]
                 [] g.op = "R" /\ g.rel -> To(next, Null, Null)
                 [] OTHER -> To(next, From(v)[1], From(v)[2])
    IN FoldLeft(Step, Begin, path).res

\* pathToRelative: the first M stays.
Relative(path) ==
    LET Shifted(s, g) ==
            IF g.rel \/ (s.res = <<>> /\ g.op = "M") THEN g.v
            ELSE [j \in DOMAIN g.v |-> g.v[j] - (IF g.op # "V" /\ Odd(j) THEN s.x ELSE s.y)]
        Step(s, g) ==
            LET v == Shifted(s, g)
                next == [s EXCEPT !.res = Append(@, Segment(g.op, g.rel \/ s.res # <<>> \/ g.op # "M", v)),
                                  !.mx = IF g.op # "M" THEN @ ELSE IF g.rel THEN s.x + v[1] ELSE g.v[1],
                                  !.my = IF g.op # "M" THEN @ ELSE IF g.rel THEN s.y + v[2] ELSE g.v[2]]
            IN CASE g.op = "Z" -> To(next, s.mx, s.my)
                 [] g.op = "H" -> To(next, s.x + v[1], s.y)
                 [] g.op = "V" -> To(next, s.x, s.y + v[1])
                 [] OTHER -> To(next, s.x + From(v)[1], s.y + From(v)[2])
    IN FoldLeft(Step, Begin, path).res

------------------------------------------------------------------------------
(* path2curve. d is where a path is: its point, the last control point, the    *)
(* begin of the subpath and the control point of a quadratic curve.            *)

Quadratic(d, q, p) ==
    [j \in 1 .. 2 |-> (d[j] + 2 * q[j]) \div 3] \o [j \in 1 .. 2 |-> (p[j] + 2 * q[j]) \div 3] \o p
Line(d, p) == d \o p \o p
Curve(v) == Segment("C", FALSE, v)

\* A coordinate of a control point that is 0 passes for one that is not there.
Or(a, b) == [j \in 1 .. 2 |-> IF a = Null THEN b[j] ELSE IF a[j] = 0 THEN b[j] ELSE a[j]]
Mirror(p, c) == [j \in 1 .. 2 |-> 2 * p[j] - c[j]]

\* processPath: the segment as a curve, and d after it.
ProcessPath(path, i, d) ==
    IF i > Len(path) THEN [seg |-> Curve(d.p \o d.p \o d.p), d |-> d]
    ELSE LET g == path[i]
             e == IF g.op \in {"T", "Q"} THEN d ELSE [d EXCEPT !.q = Null]
             q == IF g.op = "T" THEN Mirror(d.p, Or(d.q, d.p)) ELSE SubSeq(g.v, 1, 2)
         IN CASE g.op = "M" -> [seg |-> g, d |-> [e EXCEPT !.start = g.v]]
              [] g.op = "S" -> [seg |-> Curve(Mirror(d.p, Or(d.b, d.p)) \o g.v), d |-> e]
              [] g.op \in {"T", "Q"} -> [seg |-> Curve(Quadratic(d.p, q, From(g.v))), d |-> [e EXCEPT !.q = q]]
              [] g.op = "L" -> [seg |-> Curve(Line(d.p, g.v)), d |-> e]
              [] g.op = "H" -> [seg |-> Curve(Line(d.p, <<g.v[1], d.p[2]>>)), d |-> e]
              [] g.op = "V" -> [seg |-> Curve(Line(d.p, <<d.p[1], g.v[1]>>)), d |-> e]
              [] g.op = "Z" -> [seg |-> Curve(Line(d.p, d.start)), d |-> e]
              [] OTHER -> [seg |-> g, d |-> e]

\* The second path takes the place before the segment for a control point that is missing.
After(d, seg, first) ==
    LET n == Len(seg.v)
        to == From(seg.v)
        b == IF n < 4 THEN Null ELSE SubSeq(seg.v, n - 3, n - 2)
    IN [d EXCEPT !.p = to, !.b = Or(b, IF first THEN to ELSE d.p)]

Set(s, i, g) == IF i > Len(s) THEN Append(s, g) ELSE [s EXCEPT ![i] = g]

\* fixM: where one path starts anew and the other does not, the other starts where it is.
FixM(path, other, i, d) ==
    IF other[i].op = "M" /\ path[i].op # "M" THEN InsertAt(path, i, Segment("M", FALSE, d.p)) ELSE path

RECURSIVE Curves(_, _, _, _, _)
Curves(a, b, da, db, i) ==
    IF i > Len(a) /\ i > Len(b) THEN <<a, b>>
    ELSE LET pa == ProcessPath(a, i, da)
             pb == ProcessPath(b, i, db)
             b2 == FixM(Set(b, i, pb.seg), Set(a, i, pa.seg), i, pb.d)
             a2 == FixM(Set(a, i, pa.seg), b2, i, pa.d)
         IN Curves(a2, b2, After(pa.d, a2[i], TRUE), After(pb.d, b2[i], FALSE), i + 1)

At0 == [p |-> <<0, 0>>, b |-> <<0, 0>>, start |-> <<0, 0>>, q |-> Null]
path2curve(path) ==
    FoldLeft(LAMBDA s, i : LET made == ProcessPath(Absolute(path), i, s.d)
                           IN [res |-> Append(s.res, made.seg), d |-> After(made.d, made.seg, TRUE)],
             [res |-> <<>>, d |-> At0], [i \in DOMAIN Absolute(path) |-> i]).res
path2curves(path, path2) == Curves(Absolute(path), Absolute(path2), At0, At0, 1)

------------------------------------------------------------------------------
(* Properties.                                                                *)

\* Where the segments of a path end, as SVG defines it.
Ends(path) ==
    LET Step(s, g) ==
            LET Pt(j) == [k \in 1 .. 2 |-> g.v[j + k - 1] + (IF g.rel THEN s.p[k] ELSE 0)]
                One(k, c) == [j \in 1 .. 2 |-> IF j = k THEN c + (IF g.rel THEN s.p[j] ELSE 0) ELSE s.p[j]]
                ends == IF g.op = "R" THEN [k \in 1 .. Len(g.v) \div 2 |-> Pt(2 * k - 1)]
                        ELSE <<IF g.op = "Z" THEN s.start ELSE IF g.op = "H" THEN One(1, g.v[1])
                               ELSE IF g.op = "V" THEN One(2, g.v[1]) ELSE Pt(Len(g.v) - 1)>>
            IN [p |-> Last(ends), start |-> IF g.op = "M" THEN Last(ends) ELSE s.start, ends |-> s.ends \o ends]
    IN FoldLeft(Step, [p |-> <<0, 0>>, start |-> <<0, 0>>, ends |-> <<>>], path).ends

\* Whether it is made absolute, relative and absolute again, or into curves, a path goes
\* through the same points, if nothing follows relative dots; the curves are smooth where
\* the path is, if no coordinate of a control point is 0.
PathKept(path) ==
    (\A i \in 1 .. Len(path) - 1 : ~(path[i].op = "R" /\ path[i].rel)) =>
        LET curve == path2curve(path)
            absolute == Absolute(path)
        IN /\ Ends(absolute) = Ends(path) /\ Ends(curve) = Ends(path)
           /\ (\A i \in 1 .. Len(path) - 1 : path[i].op # "R") => Absolute(Relative(path)) = absolute
           /\ \A i \in DOMAIN curve : (curve[i].op = "M") = (absolute[i].op = "M")
           /\ \A i \in 2 .. Len(curve) :
                  /\ absolute[i].op = "S" \/ (absolute[i].op = "T" /\ absolute[i - 1].op \in {"Q", "T"})
                  /\ curve[i - 1].op = "C"
                  /\ \A j \in 1 .. 2 : curve[i - 1].v[j + 2] # 0 /\ (3 * curve[i - 1].v[j + 2] - curve[i - 1].v[j + 4]) # 0
                  => \A j \in 1 .. 2 :
                         curve[i].v[j] - curve[i - 1].v[j + 4] = curve[i - 1].v[j + 4] - curve[i - 1].v[j + 2]

\* Two paths become curves of the same kind, segment by segment, each through the points
\* of its path, some of them more than once.
PathsPaired(path, path2) ==
    LET c == path2curves(path, path2)
        Without(s) == SelectSeq([i \in DOMAIN s |-> i], LAMBDA i : i = 1 \/ s[i] # s[i - 1])
        Points(s) == [k \in DOMAIN Without(s) |-> s[Without(s)[k]]]
    IN /\ Len(c[1]) = Len(c[2])
       /\ \A i \in DOMAIN c[1] : c[1][i].op = c[2][i].op
       /\ Points(Ends(c[1])) = Points(Ends(path)) /\ Points(Ends(c[2])) = Points(Ends(path2))

------------------------------------------------------------------------------
(* The matrices of raphael.js, the lists of transformations that are made into  *)
(* them and made from them, and two lists that an animation goes between.       *)
(* Numbers are in units of 1/Unit, angles are right ones, in degrees.           *)

CONSTANTS
    Unit,
    Center      \* of the element

Mul(p, q) == (p * q) \div Unit
Quot(p, q) == IF q < 0 THEN (-p * Unit) \div (-q) ELSE (p * Unit) \div q

Matrix(a, b, c, d, e, f) == [a |-> a, b |-> b, c |-> c, d |-> d, e |-> e, f |-> f]
Identity == Matrix(Unit, 0, 0, Unit, 0, 0)

add(m, n) ==
    Matrix(Mul(m.a, n.a) + Mul(m.c, n.b), Mul(m.b, n.a) + Mul(m.d, n.b),
           Mul(m.a, n.c) + Mul(m.c, n.d), Mul(m.b, n.c) + Mul(m.d, n.d),
           Mul(m.a, n.e) + Mul(m.c, n.f) + m.e, Mul(m.b, n.e) + Mul(m.d, n.f) + m.f)

invert(m) ==
    LET x == Mul(m.a, m.d) - Mul(m.b, m.c)
    IN Matrix(Quot(m.d, x), Quot(-m.b, x), Quot(-m.c, x), Quot(m.a, x),
              Quot(Mul(m.c, m.f) - Mul(m.d, m.e), x), Quot(Mul(m.b, m.e) - Mul(m.a, m.f), x))

point(m, p) == <<Mul(p[1], m.a) + Mul(p[2], m.c) + m.e, Mul(p[1], m.b) + Mul(p[2], m.d) + m.f>>

translate(m, p) == add(m, Matrix(Unit, 0, 0, Unit, p[1], p[2]))

scale(m, s, p) ==
    translate(add(translate(m, p), Matrix(s[1], 0, 0, s[2], 0, 0)), <<-p[1], -p[2]>>)

Cos(angle) == CASE angle % 360 = 0 -> Unit [] angle % 360 = 180 -> -Unit [] OTHER -> 0
Sin(angle) == Cos(angle - 90)
rotate(m, angle, p) ==
    translate(add(m, Matrix(Cos(angle), Sin(angle), -Sin(angle), Cos(angle), p[1], p[2])), <<-p[1], -p[2]>>)

------------------------------------------------------------------------------
(* A transformation is [op, abs, v, at]: at is its center, or <<>>.            *)

Command(op, abs, v, at) == [op |-> op, abs |-> abs, v |-> v, at |-> at]

\* extractTransform, a list made into a matrix: the center of an absolute one is on the
\* paper, that of a relative one where the element was; no center is that of the element.
Step(m, t) ==
    LET inver == invert(m)
        from == point(inver, <<0, 0>>)
        to == point(inver, t.v)
        center == IF t.at = <<>> THEN Center ELSE IF t.abs THEN point(inver, t.at) ELSE t.at
    IN CASE t.op = "t" -> translate(m, IF t.abs THEN <<to[1] - from[1], to[2] - from[2]>> ELSE t.v)
         [] t.op = "r" -> rotate(m, t.v[1], center)
         [] t.op = "s" -> scale(m, <<t.v[1], Last(t.v)>>, center)
         [] t.op = "m" -> add(m, Matrix(t.v[1], t.v[2], t.v[3], t.v[4], t.v[5], t.v[6]))

extractTransform(list) == FoldLeft(Step, Identity, list)

\* split and toTransformString: a matrix made into a list. At right angles a row has one
\* number. A move along one axis is left out, and a reflection too.
Size(p, q) == IF p + q < 0 THEN -(p + q) ELSE p + q
Sign(p) == IF p < 0 THEN -1 ELSE IF p > 0 THEN 1 ELSE 0

Turned(m) ==
    LET sin == -Sign(m.c)
        cos == Sign(m.d)
    IN IF cos < 0 THEN 180 ELSE 90 * sin

toTransform(m) ==
    LET scalex == Size(m.a, m.c)
        scaley == Size(m.b, m.d)
        isSimple == scalex = scaley \/ Turned(m) = 0
        Zero == <<0, 0>>
    IN IF ~isSimple THEN <<Command("m", FALSE, <<m.a, m.b, m.c, m.d, m.e, m.f>>, <<>>)>>
       ELSE (IF m.e # 0 /\ m.f # 0 THEN <<Command("t", FALSE, <<m.e, m.f>>, <<>>)>> ELSE <<>>)
              \o (IF scalex # Unit \/ scaley # Unit THEN <<Command("s", FALSE, <<scalex, scaley>>, Zero)>> ELSE <<>>)
              \o (IF Turned(m) # 0 THEN <<Command("r", FALSE, <<Turned(m)>>, Zero)>> ELSE <<>>)

\* getEmpty: the transformation that does nothing, of the kind of another.
getEmpty(t) ==
    [t EXCEPT !.v = CASE t.op = "t" -> <<0, 0>> [] t.op = "r" -> <<0>>
                      [] t.op = "s" -> [i \in DOMAIN t.v |-> Unit]
                      [] t.op = "m" -> <<Unit, 0, 0, Unit, 0, 0>>]

\* equaliseTransform: two lists of the same kinds around the same centers, or none.
equaliseTransform(t1, t2) ==
    LET n == IF Len(t1) > Len(t2) THEN Len(t1) ELSE Len(t2)
        from == [i \in 1 .. n |-> IF i <= Len(t1) THEN t1[i] ELSE getEmpty(t2[i])]
        to == [i \in 1 .. n |-> IF i <= Len(t2) THEN t2[i] ELSE getEmpty(from[i])]
        Same(i) ==
            /\ from[i].op = to[i].op /\ from[i].abs = to[i].abs
            /\ from[i].op \in {"r", "s"} => from[i].at = to[i].at
    IN IF \A i \in 1 .. n : Same(i) THEN <<from, to>> ELSE <<>>

------------------------------------------------------------------------------
(* Properties.                                                                *)

\* An absolute move goes as far on the paper, whatever was done before, and an absolute
\* turn or scale leaves its center on the paper where it is; a list made from a matrix
\* makes it again, unless it reflects or moves along one axis.
TransformsHold(list) ==
    LET m == extractTransform(list)
        before == extractTransform(Front(list))
        t == Last(list)
        center == point(invert(before), t.at)
    IN list # <<>> =>
       /\ add(m, invert(m)) = Identity
       /\ t.op = "t" /\ t.abs => m = [before EXCEPT !.e = @ + t.v[1], !.f = @ + t.v[2]]
       /\ t.op \in {"r", "s"} /\ t.abs /\ t.at # <<>> => point(m, center) = t.at
       /\ Mul(m.a, m.d) - Mul(m.b, m.c) > 0 /\ (m.e = 0 <=> m.f = 0) => extractTransform(toTransform(m)) = m

\* What is made equal is what it was.
Equalised(t1, t2) ==
    LET eq == equaliseTransform(t1, t2)
    IN eq # <<>> =>
           /\ extractTransform(eq[1]) = extractTransform(t1) /\ extractTransform(eq[2]) = extractTransform(t2)
           /\ Len(eq[1]) = Len(eq[2])

------------------------------------------------------------------------------
(* getBBox of raphael.js: the boxes of an element with and without its          *)
(* transformation, which are kept until an attribute or the transformation      *)
(* changes. A box is what it was computed from.                                 *)

CONSTANTS
    Shapes,     \* values of the attributes that change the box
    Moves       \* transformations: <<>> is none, <<"t", d>> moves, <<"r", a>> turns around the middle

VARIABLES
    shape, move,        \* the attributes and the transformation
    dirty, dirtyT,      \* what has changed since a box was computed
    realPath, bbox, bboxwt,
    answer,             \* what getBBox returned last, and whether with the transformation
    masked              \* a change after bbox was computed is no longer known

bboxVars == <<shape, move, dirty, dirtyT, realPath, bbox, bboxwt, answer, masked>>

Init ==
    /\ shape \in Shapes /\ move = <<>> /\ dirty = TRUE /\ dirtyT = FALSE
    /\ realPath = Null /\ bbox = Null /\ bboxwt = Null /\ answer = Null /\ masked = FALSE

\* getBBox(1): a new path is no longer news to getBBox.
Without ==
    IF dirty \/ bboxwt = Null
      THEN /\ realPath' = shape /\ bboxwt' = shape /\ dirty' = FALSE
           /\ masked' = (masked \/ (dirty /\ bbox # Null))
      ELSE UNCHANGED <<realPath, bboxwt, dirty, masked>>

getBBoxWithout == Without /\ answer' = [with |-> FALSE, box |-> bboxwt'] /\ UNCHANGED <<shape, move, dirtyT, bbox>>

getBBox ==
    /\ IF dirty \/ dirtyT \/ bbox = Null
         THEN /\ realPath' = IF dirty \/ realPath = Null THEN shape ELSE realPath
              /\ bboxwt' = IF dirty \/ realPath = Null THEN Null ELSE bboxwt
              /\ bbox' = <<realPath', move>> /\ dirty' = FALSE /\ dirtyT' = FALSE /\ masked' = FALSE
         ELSE UNCHANGED <<realPath, bboxwt, bbox, dirty, dirtyT, masked>>
    /\ answer' = [with |-> TRUE, box |-> bbox'] /\ UNCHANGED <<shape, move>>

attr(value) ==
    /\ value # shape /\ shape' = value /\ dirty' = TRUE /\ answer' = Null
    /\ UNCHANGED <<move, dirtyT, realPath, bbox, bboxwt, masked>>

\* extractTransform: turning asks for the middle of the box without transformation; no
\* transformation at all is no news.
transform(to) ==
    /\ move' = to /\ answer' = Null /\ UNCHANGED <<shape, bbox>>
    /\ dirtyT' = (dirtyT \/ to # <<>>)
    /\ IF to = <<>> THEN masked' = (masked \/ (bbox # Null /\ move # <<>>)) /\ UNCHANGED <<realPath, bboxwt, dirty>>
       ELSE IF to[1] = "r" THEN Without
       ELSE UNCHANGED <<realPath, bboxwt, dirty, masked>>

\* setViewBox of the paper, for each of its elements.
setViewBox == dirty' = TRUE /\ dirtyT' = TRUE /\ answer' = Null /\ UNCHANGED <<shape, move, realPath, bbox, bboxwt, masked>>

Next ==
    \/ getBBox \/ getBBoxWithout \/ setViewBox
    \/ \E value \in Shapes : attr(value)
    \/ \E to \in Moves : transform(to)

\* A box is that of the shape as it is, and as it is transformed, unless the box without
\* transformation was asked for between a change and it, or the transformation was taken
\* away; then it is the old one until something else changes.
BBoxFresh ==
    answer # Null =>
        IF answer.with THEN answer.box = <<shape, move>> \/ (masked /\ ~dirty /\ ~dirtyT) ELSE answer.box = shape
=============================================================================
