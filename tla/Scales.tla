-------------------------------- MODULE Scales -------------------------------
(* The scales of d3.js. A number is a fraction <<n, d>>, d > 0, where the     *)
(* code divides; elsewhere it is an integer.                                  *)
EXTENDS Arrays

CONSTANTS MaxPower      \* bound: the powers of ten that are looked at

Power10 == [k \in 0 .. 9 |-> <<1, 10, 100, 1000, 10000, 100000, 1000000, 10000000, 100000000, 1000000000>>[k + 1]]

Whole(n) == <<n, 1>>
Same(x, y) == x[1] * y[2] = y[1] * x[2]
Before(x, y) == x[1] * y[2] < y[1] * x[2]
Ceil(n, d) == -((-n) \div d)

\* d3_scaleExtent.
scaleExtent(domain) ==
    LET start == domain[1]
        stop == domain[Len(domain)]
    IN IF start < stop THEN <<start, stop>> ELSE <<stop, start>>

------------------------------------------------------------------------------
(* linear: domain to range in pieces; the pieces are those of both.           *)

\* d3_uninterpolateNumber, ...Clamp: where x is between a and b.
uninterpolate(a, b, x, clamp) ==
    LET sign == IF b > a THEN 1 ELSE -1
        t == IF a = b THEN Whole(0) ELSE <<sign * (x[1] - a * x[2]), sign * (b - a) * x[2]>>
    IN IF clamp /\ Before(t, Whole(0)) THEN Whole(0)
       ELSE IF clamp /\ Before(Whole(1), t) THEN Whole(1) ELSE t

interpolateFraction(a, b, t) == <<a * t[2] + (b - a) * t[1], t[2]>>

\* Mutant: a domain that falls is searched as it is.
linearUnturned(domain, range_, clamp, x) ==
    LET k == min(<<Len(domain), Len(range_)>>) - 1
        j == IF k > 1 THEN bisectRight([i \in DOMAIN domain |-> domain[i] * x[2]], x[1], 1, k) ELSE 1
    IN interpolateFraction(range_[j], range_[j + 1], uninterpolate(domain[j], domain[j + 1], x, clamp))

\* d3_scale_bilinear, d3_scale_polylinear: a domain that falls is turned around.
linear(domain, range_, clamp, x) ==
    LET k == min(<<Len(domain), Len(range_)>>) - 1
        poly == k > 1
        turned == poly /\ domain[k + 1] < domain[1]
        d == IF turned THEN Reverse(domain) ELSE domain
        r == IF turned THEN Reverse(range_) ELSE range_
        j == IF poly THEN bisectRight([i \in DOMAIN d |-> d[i] * x[2]], x[1], 1, k) ELSE 1
    IN interpolateFraction(r[j], r[j + 1], uninterpolate(d[j], d[j + 1], x, clamp))

\* d3_scale_nice with the step of d3_scale_linearNice: a tenth of the power of ten that
\* is nearest to the span, but at least one here.
nice(domain) ==
    LET ends == scaleExtent(domain)
        span == ends[2] - ends[1]
        near == CHOOSE k \in 1 .. MaxPower : /\ span * span < 10 * Power10[k] * Power10[k]
                                             /\ k = 1 \/ span * span >= 10 * Power10[k - 1] * Power10[k - 1]
        dx == Power10[near - 1]
        low == (ends[1] \div dx) * dx
        high == Ceil(ends[2], dx) * dx
        n == Len(domain)
    IN IF span = 0 THEN domain
       ELSE IF domain[n] < domain[1] THEN [domain EXCEPT ![1] = high, ![n] = low]
       ELSE [domain EXCEPT ![1] = low, ![n] = high]

\* d3_scale_linearTickRange: the step is 1, 2, 5 or 10 times a power of ten.
tickStep(span, m) ==
    LET p == Power10[CHOOSE k \in 0 .. MaxPower : Power10[k] * m <= span
                        /\ (k = MaxPower \/ Power10[k + 1] * m > span)]
        err == 100 * m * p
    IN CASE err <= 15 * span -> 10 * p
         [] 15 * span < err /\ err <= 35 * span -> 5 * p
         [] 35 * span < err /\ err <= 75 * span -> 2 * p
         [] 75 * span < err -> p

ticks(domain, m) ==
    LET e == scaleExtent(domain)
        step == tickStep(e[2] - e[1], m)
        top == 2 * (e[2] \div step) * step + step
    IN [i \in DOMAIN range(2 * Ceil(e[1], step) * step, top, 2 * step) |-> (Ceil(e[1], step) + i - 1) * step]

\* log's ticks between two powers, and what they are stripped to: of positive domains.
logTicks(u, v) ==
    LET i == Max({k \in 0 .. MaxPower : Power10[k] <= u})
        j == Min({k \in 0 .. MaxPower : Power10[k] >= v})
        all == FlattenSeq([p \in 1 .. j - i |-> [k \in 1 .. 9 |-> k * Power10[i + p - 1]]]) \o <<Power10[j]>>
    IN SelectSeq(all, LAMBDA t : u <= t /\ t <= v)

------------------------------------------------------------------------------
(* quantile and quantize.                                                     *)

\* The thresholds are Len(range) times what they are.
quantileScale(domain, range_, x) ==
    LET sorted == SortSeq(SelectSeq(domain, Number), <)
        thresholds == [k \in 1 .. Len(range_) - 1 |-> quantile(sorted, k, Len(range_))]
    IN IF x = NaN THEN NaN ELSE range_[bisectRight(thresholds, Len(range_) * x, 0, Len(thresholds)) + 1]

quantizeScale(x0, x1, range_, x) ==
    LET n == Len(range_)
        place == IF x1 > x0 THEN (n * (x - x0)) \div (x1 - x0) ELSE (n * (x0 - x)) \div (x0 - x1)
    IN range_[1 + (IF place < 0 THEN 0 ELSE IF place > n - 1 THEN n - 1 ELSE place)]

------------------------------------------------------------------------------
(* ordinal: its domain grows by what it is asked for; ranger makes the range  *)
(* again when the domain is set. Twice the places that bands start at.        *)

ordinal(ranger) == [domain |-> <<>>, range |-> IF ranger.t = "range" THEN ranger.x ELSE <<>>,
                    rangeBand |-> 0, ranger |-> ranger]

Round(n, d) == (2 * n + d) \div (2 * d)

steps(n, start, step) == [i \in 1 .. n |-> start + step * (i - 1)]

\* range, rangeRoundBands with a padding of p tenths.
ranged(scale) ==
    LET r == scale.ranger
        n == Len(scale.domain)
        back == r.t # "range" /\ r.x[2] < r.x[1]
        start == IF back THEN r.x[2] ELSE r.x[1]
        stop == IF back THEN r.x[1] ELSE r.x[2]
        step == (10 * (stop - start)) \div (10 * n + r.p)
        error == 10 * (stop - start) - (10 * n - r.p) * step
        bands == steps(n, start + Round(error, 20), step)
    IN IF r.t = "range" THEN [scale EXCEPT !.range = r.x, !.rangeBand = 0]
       ELSE IF n = 0 THEN [scale EXCEPT !.range = <<>>]
       ELSE [scale EXCEPT !.range = IF back THEN Reverse(bands) ELSE bands,
                          !.rangeBand = Round(step * (10 - r.p), 10)]

domain(scale, x) ==
    ranged([scale EXCEPT !.domain = FoldLeft(LAMBDA d, v : IF v \in ToSet(d) THEN d ELSE Append(d, v), <<>>, x)])

Place(seq, x) == CHOOSE i \in DOMAIN seq : seq[i] = x

\* scale(x): the scale after it, and its value.
asked(scale, x) ==
    LET d == IF x \in ToSet(scale.domain) THEN scale.domain ELSE Append(scale.domain, x)
        n == Len(scale.range)
    IN [scale |-> [scale EXCEPT !.domain = d],
        value |-> IF n = 0 THEN Null ELSE scale.range[((Place(d, x) - 1) % n) + 1]]

------------------------------------------------------------------------------
(* What they are checked against.                                             *)

Monotone(seq) == (\A i \in 1 .. Len(seq) - 1 : seq[i] < seq[i + 1])
                     \/ (\A i \in 1 .. Len(seq) - 1 : seq[i] > seq[i + 1])

\* A scale takes every stop of its domain to that of its range and keeps the order in
\* between; its inverse brings every value back; clamped, it never leaves its range.
LinearFits(d, r, x, y) ==
    LET e == scaleExtent(r)
        rises == (d[1] < d[2]) <=> (r[1] < r[2])
    IN Monotone(d) /\ Monotone(r) /\ Len(d) = Len(r) =>
           /\ \A i \in DOMAIN d : Same(linear(d, r, FALSE, Whole(d[i])), Whole(r[i]))
           /\ \A u \in {linear(d, r, FALSE, x)}, v \in {linear(d, r, FALSE, y)} :
                  /\ Before(x, y) => IF rises THEN Before(u, v) ELSE Before(v, u)
                  /\ Same(linear(r, d, FALSE, u), x)
           /\ \A c \in {linear(d, r, TRUE, x)} :
                  ~Before(c, Whole(e[1])) /\ ~Before(Whole(e[2]), c)

\* The ticks are the multiples of their step in the domain, neither few nor many; and a
\* domain made nice covers what it did, by less than a tenth of its span more at an end.
TicksFit(d, m) ==
    LET e == scaleExtent(d)
        t == ticks(d, m)
        step == tickStep(e[2] - e[1], m)
        n == scaleExtent(nice(d))
    IN e[2] - e[1] >= m =>
           /\ ToSet(t) = {v \in e[1] .. e[2] : v % step = 0} /\ Monotone(t)
           /\ 2 * Len(t) >= m - 1 /\ Len(t) <= 2 * m + 1
           /\ n[1] <= e[1] /\ e[2] <= n[2] /\ nice(nice(d)) = nice(d)
           /\ 2 * (e[1] - n[1]) < e[2] - e[1] /\ 2 * (n[2] - e[2]) < e[2] - e[1]
           /\ e[1] > 0 => ToSet(logTicks(e[1], e[2]))
                            = {v \in e[1] .. e[2] : \E k \in 0 .. MaxPower : \E f \in 1 .. 9 : v = f * Power10[k]}

\* Every value has its own class, the order of the classes is that of the values; of
\* values that are all different, the classes of a quantile scale differ by one at most.
Classed(values, range_, x0, x1) ==
    LET numbers == SelectSeq(values, Number)
        rank(v) == Place(range_, v)
        q(v) == rank(quantileScale(values, range_, v))
        z(v) == rank(quantizeScale(x0, x1, range_, v))
        size(k) == Cardinality({i \in DOMAIN numbers : q(numbers[i]) = k})
    IN /\ numbers # <<>> =>
              /\ \A v, w \in ToSet(numbers) : v <= w => q(v) <= q(w)
              /\ Cardinality(ToSet(numbers)) = Len(numbers) =>
                     \A k, l \in DOMAIN range_ : size(k) - size(l) <= 1
       /\ x0 # x1 =>
              /\ z(x0) = 1 /\ z(x1) = Len(range_)
              /\ \A v \in x0 .. x1 : Len(range_) * (v - x0) >= (z(v) - 1) * (x1 - x0)

\* The scale after a sequence of calls: "domain" with an array, or a value asked for.
Called(ranger, calls) ==
    FoldLeft(LAMBDA s, c : IF c.call = "domain" THEN domain(s, c.x) ELSE asked(s, c.x).scale,
             domain(ordinal(ranger), <<>>), calls)

\* Whatever was asked for before: a value keeps its place until the domain is set, two
\* values that were set have bands that do not meet, and these lie in the range.
BandsApart(ranger, calls, set, x) ==
    LET before == domain(Called(ranger, calls), set)
        after == asked(before, x).scale
        e == scaleExtent(ranger.x)
        at(v) == asked(after, v).value
    IN /\ \A v \in ToSet(set) : at(v) = asked(before, v).value
       /\ ranger.t # "range" =>
              \A v \in ToSet(set) :
                  /\ e[1] <= at(v) /\ at(v) + after.rangeBand <= e[2]
                  /\ \A w \in ToSet(set) \ {v} : at(v) + after.rangeBand <= at(w) \/ at(w) + after.rangeBand <= at(v)

------------------------------------------------------------------------------
(* The interpolators of d3.js: what lies between two values, at a time that   *)
(* goes from 0 to Steps. A value is [type, v]: a number; a text, a sequence   *)
(* of the tokens <<"number", n>> and <<"text", t>>; an array or an object of  *)
(* values.                                                                    *)

CONSTANTS
    Steps   \* bound: the times looked at; numbers are multiples of it

interpolateNumber(a, b, t) == a + ((b - a) * t) \div Steps

------------------------------------------------------------------------------
(* interpolateString. s holds texts and, for numbers, Null; q the numbers'    *)
(* places in it, counted from 0, with their value in b, then also in a.       *)

IsNumber(token) == token[1] = "number"

\* The numbers of b and what stands between them, which may be nothing.
Template(b) ==
    LET Put(st, token) ==
            IF IsNumber(token)
            THEN LET s == IF st.after THEN Append(st.s, <<>>) ELSE st.s
                 IN [s |-> Append(s, Null), after |-> TRUE,
                     q |-> Append(st.q, [i |-> Len(s), x |-> token, from |-> Null])]
            ELSE [st EXCEPT !.s = Append(@, <<token>>), !.after = FALSE]
    IN FoldLeft(Put, [s |-> <<>>, q |-> <<>>, after |-> FALSE], b)

\* A number that is the same in both becomes text, together with the texts around it.
Coalesce(st, k) ==
    LET o == st.q[k]
        at == o.i + 1
        last == at = Len(st.s)
        text == <<o.x>> \o IF last THEN <<>> ELSE st.s[at + 1]
        gone == IF o.i > 0 THEN (IF last THEN 1 ELSE 2) ELSE (IF last THEN 0 ELSE 1)
        into == IF o.i > 0 THEN at - 1 ELSE at
    IN [s |-> SubSeq(st.s, 1, into - 1)
                \o <<(IF o.i > 0 THEN st.s[into] ELSE <<>>) \o text>>
                \o SubSeq(st.s, into + 1 + gone, Len(st.s)),
        q |-> [j \in 1 .. Len(st.q) - 1 |->
                  IF j < k THEN st.q[j] ELSE [st.q[j + 1] EXCEPT !.i = @ - gone]]]

RECURSIVE Match(_, _, _)
Match(st, k, numbers) ==
    IF numbers = <<>> \/ k > Len(st.q) THEN [st |-> st, rest |-> k]
    ELSE IF st.q[k].x = Head(numbers) THEN Match(Coalesce(st, k), k, Tail(numbers))
    ELSE Match([st EXCEPT !.q[k].from = Head(numbers)], k + 1, Tail(numbers))

\* Numbers of b that have none in a stay as they are.
RECURSIVE KeepRest(_, _)
KeepRest(st, rest) ==
    LET o == st.q[Len(st.q)]
        at == o.i + 1
        last == at = Len(st.s)
        s == SubSeq(st.s, 1, at - 1) \o <<<<o.x>> \o IF last THEN <<>> ELSE st.s[at + 1]>>
               \o SubSeq(st.s, at + 2, Len(st.s))
    IN IF Len(st.q) < rest THEN st ELSE KeepRest([s |-> s, q |-> Front(st.q)], rest)

interpolateString(a, b, t) ==
    LET template == Template(b)
        m == Match([s |-> template.s, q |-> template.q], 1, SelectSeq(a, IsNumber))
        st == KeepRest(m.st, m.rest)
        Value(o) == <<"number", interpolateNumber(o.from[2], o.x[2], t)>>
        At(i) == IF \E k \in DOMAIN st.q : st.q[k].i = i - 1
                 THEN <<Value(st.q[CHOOSE k \in DOMAIN st.q : st.q[k].i = i - 1])>> ELSE st.s[i]
    IN IF Len(st.s) = 1 /\ st.s[1] # Null THEN b ELSE FlattenSeq([i \in DOMAIN st.s |-> At(i)])

------------------------------------------------------------------------------
(* The others.                                                                *)

Text(v) == IF v.type = "string" THEN v.v ELSE <<<<"number", v.v>>>>

\* interpolate: the last of the interpolators that takes the two. What only one of two
\* arrays or objects has is kept as it is.
RECURSIVE interpolate(_, _, _)
interpolate(a, b, t) ==
    LET kept(k) == IF k \in DOMAIN a.v /\ k \in DOMAIN b.v THEN interpolate(a.v[k], b.v[k], t)
                   ELSE IF k \in DOMAIN a.v THEN a.v[k] ELSE b.v[k]
    IN CASE a.type = "number" /\ b.type = "number" -> [b EXCEPT !.v = interpolateNumber(a.v, b.v, t)]
         [] "string" \in {a.type, b.type} -> [type |-> "string", v |-> interpolateString(Text(a), Text(b), t)]
         [] b.type = "array" /\ a.type # "array" /\ a.type # "string" -> b
         [] a.type = b.type /\ b.type \in {"array", "object"} ->
              [b EXCEPT !.v = [k \in DOMAIN a.v \cup DOMAIN b.v |-> kept(k)]]

\* The angle to start from and the one to go to.
ShortestWay(a, b) == <<IF a - b < -180 THEN a + 360 ELSE a, IF a - b > 180 THEN b + 360 ELSE b>>

\* interpolateTransform: the parts that differ are functions of t, those that do not are
\* written once, unless they do nothing.
interpolateTransform(A, B, t) ==
    LET way == ShortestWay(A.rotate, B.rotate)
        Pair(p, q) == <<interpolateNumber(p[1], q[1], t), interpolateNumber(p[2], q[2], t)>>
        Part(name, differ, value, still, nothing) ==
            IF differ THEN <<<<name, value>>>> ELSE IF still # nothing THEN <<<<name, still>>>> ELSE <<>>
    IN Part("translate", A.translate # B.translate, Pair(A.translate, B.translate), B.translate, <<0, 0>>)
         \o Part("rotate", A.rotate # B.rotate, <<interpolateNumber(way[1], way[2], t)>>, <<B.rotate>>, <<0>>)
         \o Part("skewX", A.skew # B.skew, <<interpolateNumber(A.skew, B.skew, t)>>, <<B.skew>>, <<0>>)
         \o Part("scale", A.scale # B.scale, Pair(A.scale, B.scale), B.scale, <<1, 1>>)

------------------------------------------------------------------------------
(* What they are checked against.                                             *)

\* A text in between two others is the later one, with every number that the earlier one
\* has a number for on its way from it, however many of them are the same.
TextBetween(a, b, t) ==
    LET from == SelectSeq(a, IsNumber)
        Nth(i) == Len(SelectSeq(SubSeq(b, 1, i), IsNumber))
        Between(i) == IF IsNumber(b[i]) /\ Nth(i) <= Len(from)
                      THEN <<"number", interpolateNumber(from[Nth(i)][2], b[i][2], t)>> ELSE b[i]
    IN interpolateString(a, b, t) = [i \in DOMAIN b |-> Between(i)]

\* A value in between starts as the first in all that this has, and ends as the second.
ValueBetween(a, b) ==
    LET Reads(at, v) == Text(at) = Text(v)
        start == interpolate(a, b, 0)
        end == interpolate(a, b, Steps)
    IN IF a.type = b.type /\ b.type \in {"array", "object"}
       THEN /\ \A k \in DOMAIN b.v : Reads(end.v[k], b.v[k])
            /\ \A k \in DOMAIN a.v :
                   k \notin DOMAIN b.v \/ "string" \notin {a.v[k].type, b.v[k].type} => Reads(start.v[k], a.v[k])
       ELSE b.type \in {"number", "string"} => Reads(end, b)

\* A transform comes from the first, ends as the second and never turns by more than half
\* a circle.
TransformBetween(A, B, t) ==
    LET Found(parts, name, nothing) ==
            LET i == SelectInSeq(parts, LAMBDA p : p[1] = name)
            IN IF i = 0 THEN nothing ELSE parts[i][2]
        at(k) == interpolateTransform(A, B, k)
        Angle(k) == Found(at(k), "rotate", <<0>>)[1]
        Is(k, T) == /\ Found(at(k), "translate", <<0, 0>>) = T.translate
                    /\ (Angle(k) - T.rotate) % 360 = 0
                    /\ Found(at(k), "skewX", <<0>>) = <<T.skew>>
                    /\ Found(at(k), "scale", <<1, 1>>) = T.scale
    IN /\ Is(0, A) /\ Is(Steps, B)
       /\ Angle(t) - Angle(0) \in -180 .. 180 /\ Angle(Steps) - Angle(t) \in -180 .. 180
=============================================================================
