-------------------------------- MODULE Arrays -------------------------------
(* The functions of d3.js on arrays: summaries that pass over what is no      *)
(* number, searches, nests of groups, and the join of elements with data.     *)
EXTENDS Integers, FiniteSets, SequencesExt

CONSTANTS
    Null,   \* null and undefined
    NaN

Number(v) == v \notin {Null, NaN}       \* d3_number
Less(a, b) == Number(a) /\ Number(b) /\ a < b

\* d3.ascending, descending: no order with NaN.
ascending(a, b) == IF a < b THEN -1 ELSE IF a > b THEN 1 ELSE 0
descending(a, b) == ascending(b, a)

------------------------------------------------------------------------------
(* Summaries.                                                                 *)

\* The first number, then whatever comes later and is beyond it.
Extreme(array, Beyond(_, _)) ==
    LET at == SelectInSeq(array, Number)
    IN IF at = 0 THEN Null
       ELSE FoldLeft(LAMBDA a, b : IF b # Null /\ Beyond(a, b) THEN b ELSE a,
                     array[at], SubSeq(array, at + 1, Len(array)))

min(array) == Extreme(array, LAMBDA a, b : Less(b, a))
max(array) == Extreme(array, Less)

\* extent: both in one pass.
extent(array) ==
    LET at == SelectInSeq(array, Number)
    IN IF at = 0 THEN <<Null, Null>>
       ELSE FoldLeft(LAMBDA e, b : <<IF Less(b, e[1]) THEN b ELSE e[1], IF Less(e[2], b) THEN b ELSE e[2]>>,
                     <<array[at], array[at]>>, SubSeq(array, at + 1, Len(array)))

\* quantile of sorted values at num / den: den times the value, so that it stays whole.
quantile(values, num, den) ==
    LET H == (Len(values) - 1) * num + den
        h == H \div den
        e == H % den
    IN IF e = 0 THEN den * values[h] ELSE den * values[h] + e * (values[h + 1] - values[h])

\* median: twice the value.
median(array) ==
    LET numbers == SelectSeq(array, Number)
    IN IF numbers = <<>> THEN Null ELSE quantile(SortSeq(numbers, <), 1, 2)

------------------------------------------------------------------------------
(* Searches, counted from 0 as the code does.                                 *)

RECURSIVE bisectLeft(_, _, _, _)
bisectLeft(a, x, lo, hi) ==
    LET mid == (lo + hi) \div 2
    IN IF lo >= hi THEN lo
       ELSE IF a[mid + 1] < x THEN bisectLeft(a, x, mid + 1, hi) ELSE bisectLeft(a, x, lo, mid)

RECURSIVE bisectRight(_, _, _, _)
bisectRight(a, x, lo, hi) ==
    LET mid == (lo + hi) \div 2
    IN IF lo >= hi THEN lo
       ELSE IF x < a[mid + 1] THEN bisectRight(a, x, lo, mid) ELSE bisectRight(a, x, mid + 1, hi)

------------------------------------------------------------------------------
(* Rearrangements.                                                            *)

\* split: at every null; no piece is empty.
split(array) ==
    LET Put(s, value) ==
            IF value = Null THEN [s EXCEPT !.open = FALSE]
            ELSE IF s.open THEN [s EXCEPT !.pieces[Len(s.pieces)] = Append(@, value)]
            ELSE [open |-> TRUE, pieces |-> Append(s.pieces, <<value>>)]
    IN FoldLeft(Put, [open |-> FALSE, pieces |-> <<>>], array).pieces

\* zip, and so transpose: as long as the shortest.
zip(arrays) ==
    IF arrays = <<>> THEN <<>>
    ELSE [i \in 1 .. min([k \in DOMAIN arrays |-> Len(arrays[k])]) |->
             [j \in DOMAIN arrays |-> arrays[j][i]]]

merge(arrays) == FlattenSeq(arrays)
permute(array, indexes) == [i \in DOMAIN indexes |-> array[indexes[i]]]

RECURSIVE RangeFrom(_, _, _)
RangeFrom(j, stop, step) ==
    IF (step < 0 /\ j <= stop) \/ (step > 0 /\ j >= stop) THEN <<>>
    ELSE <<j>> \o RangeFrom(j + step, stop, step)

\* range: counted in the whole units of d3_range_integerScale.
range(start, stop, step) == RangeFrom(start, stop, step)

------------------------------------------------------------------------------
(* d3.nest. A group is [key, values]; keys are the fields grouped by, in that *)
(* order, each with the comparator of its keys or Null; sortValues has the    *)
(* field the objects of a group are sorted by, or Null.                       *)

\* sort, which may leave those that compare as equal in any order: here, as they are.
Sorted(seq, Value(_), order) ==
    LET before(i, j) == IF order = "descending" THEN Value(seq[i]) > Value(seq[j])
                                                  \/ (Value(seq[i]) = Value(seq[j]) /\ i < j)
                        ELSE Value(seq[i]) < Value(seq[j]) \/ (Value(seq[i]) = Value(seq[j]) /\ i < j)
        places == SetToSortSeq(DOMAIN seq, before)
    IN IF order = Null THEN seq ELSE [i \in DOMAIN places |-> seq[places[i]]]

RECURSIVE nest(_, _, _)
nest(array, keys, sortValues) ==
    IF keys = <<>> THEN Sorted(array, LAMBDA o : o[sortValues], IF sortValues = Null THEN Null ELSE "ascending")
    ELSE LET key(object) == object[keys[1].field]
             distinct == FoldLeft(LAMBDA s, object : IF key(object) \in ToSet(s) THEN s
                                                     ELSE Append(s, key(object)), <<>>, array)
             entries == [i \in DOMAIN distinct |->
                            [key |-> distinct[i],
                             values |-> nest(SelectSeq(array, LAMBDA o : key(o) = distinct[i]),
                                             Tail(keys), sortValues)]]
         IN Sorted(entries, LAMBDA entry : entry.key, keys[1].order)

------------------------------------------------------------------------------
(* What they are checked against.                                             *)

Count(seq, P(_)) == Cardinality({i \in DOMAIN seq : P(seq[i])})

\* The summaries are of the numbers only, wherever the others stand; half of these are
\* at most, half at least, the median.
Summarized(array) ==
    LET numbers == SelectSeq(array, Number)
        all == ToSet(numbers)
    IN IF numbers = <<>> THEN min(array) = Null /\ max(array) = Null /\ median(array) = Null
       ELSE /\ {min(array), max(array)} \subseteq all /\ extent(array) = <<min(array), max(array)>>
            /\ \A v \in all : min(array) <= v /\ v <= max(array)
            /\ 2 * Count(numbers, LAMBDA v : 2 * v <= median(array)) >= Len(numbers)
            /\ 2 * Count(numbers, LAMBDA v : 2 * v >= median(array)) >= Len(numbers)

\* A bisection finds the place, in whatever part of the array it is asked for.
Bisected(array, x, lo, hi) ==
    LET left == bisectLeft(array, x, lo, hi)
        right == bisectRight(array, x, lo, hi)
    IN /\ left \in lo .. hi /\ right \in lo .. hi
       /\ \A i \in lo .. hi - 1 : (array[i + 1] < x <=> i < left) /\ (array[i + 1] <= x <=> i < right)

\* Nothing is lost or made when an array is split, or is turned and turned back; and a
\* range has every step up to its end, but not this.
Rearranged(array, start, stop, step) ==
    LET pieces == split(array)
        matrix == <<array, array>>
        steps == range(start, stop, step)
    IN /\ merge(pieces) = SelectSeq(array, LAMBDA v : v # Null) /\ <<>> \notin ToSet(pieces)
       /\ array # <<>> => zip(zip(matrix)) = matrix
       /\ ToSet(steps) = {v \in -20 .. 20 : \E k \in 0 .. 40 : v = start + k * step
                            /\ IF step > 0 THEN start <= v /\ v < stop ELSE stop < v /\ v <= start}

\* The objects under an entry, each with the keys on the way to it.
RECURSIVE Leaves(_, _)
Leaves(entries, depth) ==
    IF depth = 0 THEN [i \in DOMAIN entries |-> [path |-> <<>>, object |-> entries[i]]]
    ELSE FlattenSeq([i \in DOMAIN entries |->
             LET below == Leaves(entries[i].values, depth - 1)
             IN [j \in DOMAIN below |-> [below[j] EXCEPT !.path = <<entries[i].key>> \o @]]])

\* Every object of the array is in the nest once, under its own keys; no two groups of
\* one parent have the same key, and keys and values come in the orders asked for.
Nested(array, keys, sortValues) ==
    LET leaves == Leaves(nest(array, keys, sortValues), Len(keys))
        InOrder(a, b, order) == CASE order = Null -> TRUE
                                  [] order = "ascending" -> a <= b
                                  [] order = "descending" -> a >= b
    IN /\ \A o \in ToSet(array) : Count(leaves, LAMBDA l : l.object = o) = Count(array, LAMBDA a : a = o)
       /\ Len(leaves) = Len(array)
       /\ \A l \in ToSet(leaves) : l.path = [d \in DOMAIN keys |-> l.object[keys[d].field]]
       /\ \A i, j \in DOMAIN leaves : i < j =>
              LET p == leaves[i].path
                  q == leaves[j].path
              IN /\ p = q => \A k \in i .. j : leaves[k].path = p
                 /\ p = q /\ sortValues # Null => leaves[i].object[sortValues] <= leaves[j].object[sortValues]
                 /\ \A d \in DOMAIN keys : SubSeq(p, 1, d - 1) = SubSeq(q, 1, d - 1)
                        => InOrder(p[d], q[d], keys[d].order)
                             /\ (p[d] = q[d] => \A k \in i .. j : SubSeq(leaves[k].path, 1, d) = SubSeq(p, 1, d))

------------------------------------------------------------------------------
(* Selections: elements and data are matched by key.                         *)

\* F of the value v, which is computed once.
With(v, F(_)) == CHOOSE r \in {F(x) : x \in {v}} : TRUE

\* data(value, key), for the keys of the elements and of the data: for every place of the
\* data the element that has its key, or 0; and the elements left. An element whose key
\* another one before it has is put behind the data, where one that is left in that place
\* takes its place. Data with the key of data before them enter as others do.
Join(keyValues, dataKeys) ==
    LET n == Len(keyValues)
        m == Len(dataKeys)
        firsts == {i \in 1 .. n : \A j \in 1 .. i - 1 : keyValues[j] # keyValues[i]}
        dups == SetToSortSeq((1 .. n) \ firsts, <)
        At(k) == {i \in firsts : keyValues[i] = dataKeys[k] /\ \A l \in 1 .. k - 1 : dataKeys[l] # dataKeys[k]}
        left == {i \in 1 .. n : keyValues[i] \notin ToSet(dataKeys)}
    IN [update |-> [k \in 1 .. m |-> IF At(k) = {} THEN 0 ELSE CHOOSE i \in At(k) : TRUE],
        exit |-> left \cup {dups[d] : d \in {e \in DOMAIN dups : m + e \notin left}}]
=============================================================================
