-------------------------------- MODULE Charts -------------------------------
(* The layouts of d3.js that place numbers: pie, stack, histogram and chord.  *)
(* Space is counted in parts so small that every division leaves no rest. A   *)
(* chord layout keeps what it has laid out until its configuration changes.   *)
EXTENDS Arrays

CONSTANTS
    Span,     \* the parts of a circle, or of the height of a stack
    Matrices  \* the matrices of flows that a chord layout is given

VARIABLES
    config,   \* of the chord layout: [matrix, padding, sortGroups, sortSubgroups, sortChords]
    chords,   \* what it has laid out, or Null
    groups

chordVars == <<config, chords, groups>>

Total(seq) == FoldLeft(+, 0, seq)
Indexes(n) == [i \in 1 .. n |-> i]

\* A comparator: Null leaves everything as it is.
SortBy(indexes, value, order) ==
    IF order = Null THEN indexes
    ELSE With(SetToSortSeq(DOMAIN indexes, LAMBDA p, q :
                  LET a == value[indexes[p]]
                      b == value[indexes[q]]
                  IN IF a = b THEN p < q ELSE IF order = "ascending" THEN a < b ELSE a > b),
              LAMBDA places : [i \in DOMAIN places |-> indexes[places[i]]])

------------------------------------------------------------------------------
(* pie, stack, histogram.                                                     *)

\* The arcs, [startAngle, endAngle], where the values are not all 0.
pie(values, order, startAngle, endAngle) ==
    LET index == SortBy(Indexes(Len(values)), values, order)
        k == (endAngle - startAngle) \div Total(values)
        place(i) == CHOOSE p \in DOMAIN index : index[p] = i
        before(i) == Total([p \in 1 .. place(i) - 1 |-> values[index[p]]])
    IN [i \in DOMAIN values |-> [startAngle |-> startAngle + k * before(i),
                                 endAngle |-> startAngle + k * (before(i) + values[i])]]

\* The order of the layers of a stack; points[i][j] is what layer i is worth at j.
insideOut(points) ==
    LET n == Len(points)
        max_ == [i \in 1 .. n |-> CHOOSE j \in DOMAIN points[i] :
                     \A k \in DOMAIN points[i] : points[i][k] < points[i][j] \/ (points[i][k] = points[i][j] /\ j <= k)]
        index == SortBy(Indexes(n), max_, "ascending")
        Put(s, i) == LET sum == Total(points[i])
                     IN IF s.top < s.bottom THEN [s EXCEPT !.top = @ + sum, !.tops = Append(@, i)]
                        ELSE [s EXCEPT !.bottom = @ + sum, !.bottoms = Append(@, i)]
        both == FoldLeft(Put, [top |-> 0, bottom |-> 0, tops |-> <<>>, bottoms |-> <<>>], index)
    IN Reverse(both.bottoms) \o both.tops

stackOrder(order, points) ==
    CASE order = "inside-out" -> insideOut(points)
      [] order = "reverse" -> Reverse(Indexes(Len(points)))
      [] order = "default" -> Indexes(Len(points))

At(points, j) == [i \in DOMAIN points |-> points[i][j]]

\* wiggle: the next baseline moves against the mean of the slopes of the middles.
wiggle(points) ==
    LET m == Len(points[1])
        delta(i, j) == points[i][j] - points[i][j - 1]
        slope2(i, j) == delta(i, j) + 2 * Total([k \in 1 .. i - 1 |-> delta(k, j)])
        s1(j) == Total(At(points, j))
        s2(j) == Total([i \in DOMAIN points |-> slope2(i, j) * points[i][j]])
        o[j \in 1 .. m] == IF j = 1 THEN 0
                           ELSE o[j - 1] - IF s1(j) = 0 THEN 0 ELSE (s2(j) * Span) \div (2 * s1(j))
        o0 == Min({o[j] : j \in 1 .. m})
    IN [j \in 1 .. m |-> o[j] - o0]

\* The baselines, and the points of the layers in their order, which expand makes share one height.
stackOffset(offset, points) ==
    LET m == Len(points[1])
        sum(j) == Total(At(points, j))
        whole == [i \in DOMAIN points |-> [j \in 1 .. m |-> Span * points[i][j]]]
        highest == Max({sum(j) : j \in 1 .. m})
    IN CASE offset = "zero" -> [y0 |-> [j \in 1 .. m |-> 0], points |-> whole]
         [] offset = "silhouette" -> [y0 |-> [j \in 1 .. m |-> ((highest - sum(j)) * Span) \div 2], points |-> whole]
         [] offset = "wiggle" -> [y0 |-> wiggle(points), points |-> whole]
         [] offset = "expand" ->
              [y0 |-> [j \in 1 .. m |-> 0],
               points |-> [i \in DOMAIN points |-> [j \in 1 .. m |->
                              IF sum(j) = 0 THEN Span \div Len(points) ELSE (Span * points[i][j]) \div sum(j)]]]

\* stack: [y0, y] of every layer at every place.
stack(points, order, offset) ==
    With(stackOrder(order, points), LAMBDA orders :
        With(stackOffset(offset, permute(points, orders)), LAMBDA laid :
            [i \in DOMAIN points |->
                LET p == CHOOSE k \in DOMAIN orders : orders[k] = i
                IN [j \in DOMAIN points[i] |->
                       [y0 |-> laid.y0[j] + Total([k \in 1 .. p - 1 |-> laid.points[k][j]]),
                        y |-> laid.points[p][j]]]]))

\* histogram in n bins, with the values, their range and the thresholds n times as large;
\* Sturges has so many for that many values.
sturges(size) == (CHOOSE k \in 0 .. 30 : 2^k >= size /\ (k = 0 \/ 2^(k - 1) < size)) + 1
thresholds(range_, n) == [x \in 1 .. n + 1 |-> (range_[2] - range_[1]) * (x - 1) + range_[1] * n]
histogram(values, range_, bounds, n) ==
    LET m == Len(bounds) - 1
        In(x) == x >= range_[1] /\ x <= range_[2]
        BinOf(x) == bisectRight(bounds, x * n, 1, m)
    IN [b \in 1 .. m |-> [x |-> bounds[b], dx |-> bounds[b + 1] - bounds[b],
                          values |-> SelectSeq(values, LAMBDA x : In(x) /\ BinOf(x) = b)]]

------------------------------------------------------------------------------
(* chord.                                                                     *)

resort(list, order) ==
    IF order = Null THEN list
    ELSE With([i \in DOMAIN list |-> list[i].source.value + list[i].target.value], LAMBDA value :
             With(SortBy(Indexes(Len(list)), value, order), LAMBDA places : permute(list, places)))

\* relayout: [chords, groups]. Angles are Total(all) times as large.
relayout(c) ==
    LET n == Len(c.matrix)
        groupSums == [i \in 1 .. n |-> Total(c.matrix[i])]
        all == Total(groupSums)
        groupIndex == SortBy(Indexes(n), groupSums, c.sortGroups)
        k == Span - c.padding * n
        GroupStart(i) == LET p == CHOOSE q \in 1 .. n : groupIndex[q] = i
                         IN Total([q \in 1 .. p - 1 |-> groupSums[groupIndex[q]] * k + c.padding * all])
        Subgroup(i, j) ==
            LET index == SortBy(Indexes(n), c.matrix[i], c.sortSubgroups)
                p == CHOOSE q \in 1 .. n : index[q] = j
                x == GroupStart(i) + k * Total([q \in 1 .. p - 1 |-> c.matrix[i][index[q]]])
            IN [index |-> i, subindex |-> j, startAngle |-> x, endAngle |-> x + k * c.matrix[i][j],
                value |-> c.matrix[i][j]]
        pairs == SelectSeq([p \in 1 .. n * n |-> <<((p - 1) \div n) + 1, ((p - 1) % n) + 1>>],
                           LAMBDA p : p[1] <= p[2] /\ c.matrix[p[1]][p[2]] + c.matrix[p[2]][p[1]] > 0)
        Chord(p) == LET larger == IF c.matrix[p[1]][p[2]] < c.matrix[p[2]][p[1]] THEN <<p[2], p[1]>> ELSE p
                    IN [source |-> Subgroup(larger[1], larger[2]), target |-> Subgroup(larger[2], larger[1])]
    IN [groups |-> [i \in 1 .. n |-> [startAngle |-> GroupStart(i), endAngle |-> GroupStart(i) + groupSums[i] * k,
                                      value |-> groupSums[i]]],
        chords |-> With([p \in DOMAIN pairs |-> Chord(pairs[p])],
                        LAMBDA list : resort(list, c.sortChords))]

Orders == {Null, "ascending", "descending"}

ChordInit ==
    /\ config = [matrix |-> CHOOSE m \in Matrices : TRUE, padding |-> 0, sortGroups |-> Null,
                 sortSubgroups |-> Null, sortChords |-> Null]
    /\ chords = Null /\ groups = Null

setMatrix == \E m \in Matrices : config' = [config EXCEPT !.matrix = m] /\ chords' = Null /\ groups' = Null
setPadding == \E p \in {0, 1} : config' = [config EXCEPT !.padding = p] /\ chords' = Null /\ groups' = Null
setSortGroups == \E o \in Orders : config' = [config EXCEPT !.sortGroups = o] /\ chords' = Null /\ groups' = Null
\* Mutant: what is laid out is kept.
setSortSubgroupsKept == \E o \in Orders : config' = [config EXCEPT !.sortSubgroups = o] /\ UNCHANGED <<chords, groups>>

setSortSubgroups ==
    \E o \in Orders : config' = [config EXCEPT !.sortSubgroups = o] /\ chords' = Null /\ UNCHANGED groups

\* What is laid out is sorted again, where it is; without a comparator this throws.
setSortChords ==
    \E o \in Orders :
        /\ config' = [config EXCEPT !.sortChords = o]
        /\ chords' = IF chords = Null THEN Null ELSE resort(chords, o)
        /\ UNCHANGED groups

Relaid == UNCHANGED config /\ \E laid \in {relayout(config)} : chords' = laid.chords /\ groups' = laid.groups
getChords == chords = Null /\ Relaid
getGroups == groups = Null /\ Relaid

ChordNext ==
    \/ setMatrix \/ setPadding \/ setSortGroups \/ setSortSubgroups \/ setSortChords \/ getChords \/ getGroups

------------------------------------------------------------------------------
(* What they are checked against.                                             *)

\* What a chord layout has kept is what it would lay out now, but for the order of chords
\* that are worth the same: the groups take the circle in turn, with their subgroups side
\* by side, and every flow has its chord, from the larger end.
ChordsFresh ==
    \A now \in {relayout(config)} :
       /\ groups # Null => groups = now.groups
       /\ chords # Null =>
             /\ ToSet(chords) = ToSet(now.chords) /\ Len(chords) = Len(now.chords)
             /\ config.sortChords # Null => \A i \in 1 .. Len(chords) - 1 :
                    LET value(c) == c.source.value + c.target.value
                    IN IF config.sortChords = "ascending" THEN value(chords[i]) <= value(chords[i + 1])
                       ELSE value(chords[i]) >= value(chords[i + 1])

ChordsFit ==
    chords # Null =>
        LET n == Len(config.matrix)
            all == Total(FlattenSeq(config.matrix))
            ends == {c.source : c \in ToSet(chords)} \cup {c.target : c \in ToSet(chords)}
        IN /\ \A a, b \in ends : a = b \/ a.endAngle <= b.startAngle \/ b.endAngle <= a.startAngle
           /\ \A e \in ends : groups[e.index].startAngle <= e.startAngle /\ e.endAngle <= groups[e.index].endAngle
           /\ \A c \in ToSet(chords) : c.source.value >= c.target.value
           /\ Max({g.endAngle : g \in ToSet(groups)}) + config.padding * all = Span * all
           /\ \A g, h \in ToSet(groups) : g.endAngle < h.startAngle => g.endAngle + config.padding * all <= h.startAngle

\* The arcs of a pie follow each other round its span, as wide as their values.
PieFits(values, order, startAngle, endAngle) ==
    LET arcs == pie(values, order, startAngle, endAngle)
        inOrder == SortSeq(arcs, LAMBDA a, b : a.startAngle < b.startAngle \/ (a.startAngle = b.startAngle /\ a.endAngle < b.endAngle))
        width(i) == arcs[i].endAngle - arcs[i].startAngle
    IN Total(values) > 0 =>
        /\ inOrder[1].startAngle = startAngle /\ Last(inOrder).endAngle = endAngle
        /\ \A i \in 1 .. Len(values) - 1 : inOrder[i].endAngle = inOrder[i + 1].startAngle
        /\ \A i, j \in DOMAIN values : width(i) * values[j] = width(j) * values[i]
        /\ order = "descending" => \A i, j \in DOMAIN values :
               values[i] > values[j] => arcs[i].startAngle <= arcs[j].startAngle

\* The layers of a stack lie on each other, every layer once; a silhouette is as far from
\* the floor as from the ceiling, an expanded stack has one height, and the middles of the
\* layers of a wiggle, weighed by their thickness, stay where they are.
StackFits(points, order, offset) ==
    \A laid \in {stack(points, order, offset)}, orders \in {stackOrder(order, points)} :
    LET m == Len(points[1])
        foot(j) == laid[orders[1]][j].y0
        top(j) == laid[Last(orders)][j].y0 + laid[Last(orders)][j].y
        middle2(i, j) == 2 * laid[i][j].y0 + laid[i][j].y
    IN /\ ToSet(orders) = DOMAIN points /\ Len(orders) = Len(points)
       /\ \A j \in 1 .. m, p \in 1 .. Len(orders) - 1 :
              laid[orders[p]][j].y0 + laid[orders[p]][j].y = laid[orders[p + 1]][j].y0
       /\ \E j \in 1 .. m : foot(j) = 0
       /\ \A j, k \in 1 .. m :
              /\ offset = "silhouette" => foot(j) + top(j) = foot(k) + top(k)
              /\ offset = "expand" => foot(j) = 0 /\ top(j) = Span
       /\ offset = "wiggle" => \A j \in 2 .. m :
              Total([i \in DOMAIN points |-> points[i][j] * (middle2(i, j) - middle2(i, j - 1))]) = 0

\* Every value of the range is in one bin, that whose threshold is the last at or before it.
HistogramFits(values, n) ==
    LET range_ == <<min(values), max(values)>>
        bins == histogram(values, range_, thresholds(range_, n), n)
    IN values # <<>> =>
        /\ Total([b \in DOMAIN bins |-> Len(bins[b].values)]) = Len(values)
        /\ \A b \in DOMAIN bins : \A x \in ToSet(bins[b].values) :
               range_[1] < range_[2] =>
                   bins[b].x <= x * n /\ (x * n < bins[b].x + bins[b].dx \/ (b = n /\ x * n = bins[b].x + bins[b].dx))
        /\ 2 ^ (sturges(Len(values)) - 1) >= Len(values)
=============================================================================
