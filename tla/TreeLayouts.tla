------------------------------ MODULE TreeLayouts ----------------------------
(* The layouts of hierarchies of d3.js: partition, cluster, tree and treemap. *)
(* A hierarchy is [children, value]: the nodes are 1 .. n, the root is 1 and  *)
(* every node comes before those below it, which are in document order;       *)
(* children holds, for every node, its children, and value what the leaves    *)
(* are worth.                                                                 *)
EXTENDS Integers, FiniteSets, SequencesExt

CONSTANTS
    Null,
    Unit    \* one unit of space: so many parts that every division below leaves no rest

\* F of the value v, which is computed once.
With(v, F(_)) == CHOOSE r \in {F(x) : x \in {v}} : TRUE

Nodes(h) == DOMAIN h.children
Leaf(h, node) == h.children[node] = <<>>
Parent(h, node) == IF node = 1 THEN Null ELSE CHOOSE p \in Nodes(h) : node \in ToSet(h.children[p])
Sum(seq) == FoldLeft(+, 0, seq)

depths(h) == LET d[n \in Nodes(h)] == IF n = 1 THEN 0 ELSE d[Parent(h, n)] + 1 IN d

\* hierarchy: what is below a node adds up; children are sorted by value, falling.
values(h) ==
    LET v[n \in Nodes(h)] == IF Leaf(h, n) THEN h.value[n]
                             ELSE Sum([i \in DOMAIN h.children[n] |-> v[h.children[n][i]]])
    IN v

sorted(h) ==
    With(values(h), LAMBDA v :
        [h EXCEPT !.children = [n \in Nodes(h) |->
            SetToSortSeq(ToSet(h.children[n]), LAMBDA a, b : v[a] > v[b] \/ (v[a] = v[b] /\ a < b))],
                  !.value = v])

\* d3_layout_treeVisitAfter.
RECURSIVE VisitAfter(_, _)
VisitAfter(h, node) ==
    FlattenSeq([i \in DOMAIN h.children[node] |-> VisitAfter(h, h.children[node][i])]) \o <<node>>

------------------------------------------------------------------------------
(* partition, of a hierarchy that is sorted: [x, dx] of every node.           *)

RECURSIVE position(_, _, _, _)
position(h, node, x, dx) ==
    LET d(i) == IF h.value[node] = 0 THEN 0 ELSE (h.value[h.children[node][i]] * dx) \div h.value[node]
        before(i) == Sum([j \in 1 .. i - 1 |-> d(j)])
    IN {<<node, [x |-> x, dx |-> dx]>>} \cup
       UNION {position(h, h.children[node][i], x + before(i), d(i)) : i \in DOMAIN h.children[node]}

partition(h) ==
    LET placed == position(h, 1, 0, Unit) IN [n \in Nodes(h) |-> (CHOOSE p \in placed : p[1] = n)[2]]

------------------------------------------------------------------------------
(* cluster: leaves side by side, a node over the middle of its children.      *)

separation(h, a, b) == IF Parent(h, a) = Parent(h, b) THEN Unit ELSE 2 * Unit

clusterX(h) ==
    LET leaves == SelectSeq(VisitAfter(h, 1), LAMBDA n : Leaf(h, n))
        At(node) == SelectInSeq(leaves, LAMBDA l : l = node)
        place[k \in DOMAIN leaves] == IF k = 1 THEN 0 ELSE place[k - 1] + separation(h, leaves[k], leaves[k - 1])
        x[n \in Nodes(h)] == IF Leaf(h, n) THEN place[At(n)]
                             ELSE Sum([i \in DOMAIN h.children[n] |-> x[h.children[n][i]]])
                                      \div Len(h.children[n])
    IN x

clusterY(h) ==
    LET y[n \in Nodes(h)] == IF Leaf(h, n) THEN 0
                             ELSE 1 + Max({y[c] : c \in ToSet(h.children[n])})
    IN y

------------------------------------------------------------------------------
(* tree: _tree of every node, [ancestor, prelim, mod, change, shift, thread]; *)
(* its number is the place among its siblings.                                *)

number(h, node) == SelectInSeq(h.children[Parent(h, node)], LAMBDA c : c = node)
treeLeft(h, t, node) == IF Leaf(h, node) THEN t[node].thread ELSE h.children[node][1]
treeRight(h, t, node) == IF Leaf(h, node) THEN t[node].thread ELSE Last(h.children[node])

treeMove(h, t, ancestor, node, shift) ==
    LET change == shift \div (number(h, node) - number(h, ancestor))
        moved == [t EXCEPT ![ancestor].change = @ + change]
    IN [moved EXCEPT ![node] = [@ EXCEPT !.change = @ - change, !.shift = @ + shift,
                                         !.prelim = @ + shift, !.mod = @ + shift]]

treeShift(h, t, node) ==
    LET Step(c, s) ==
            LET child == s.t[c]
                change == s.change + child.change
            IN [t |-> [s.t EXCEPT ![c].prelim = @ + s.shift, ![c].mod = @ + s.shift],
                change |-> change, shift |-> s.shift + child.shift + change]
    IN FoldRight(Step, h.children[node], [t |-> t, change |-> 0, shift |-> 0]).t

\* The contours that the loop of apportion follows: the nodes it is at, the shifts summed
\* up along them, and _tree.
RECURSIVE Contours(_, _, _, _)
Contours(h, c, node, ancestor) ==
    LET vim == treeRight(h, c.t, c.vim)
        vip == treeLeft(h, c.t, c.vip)
        vom == treeLeft(h, c.t, c.vom)
        vop == treeRight(h, c.t, c.vop)
        marked == [c.t EXCEPT ![vop].ancestor = node]
        shift == marked[vim].prelim + c.sim - marked[vip].prelim - c.sip + separation(h, vim, vip)
        left == marked[vim].ancestor
        of == IF Parent(h, left) = Parent(h, node) THEN left ELSE ancestor
        more == IF shift > 0 THEN shift ELSE 0
        t == IF shift > 0 THEN treeMove(h, marked, of, node, shift) ELSE marked
    IN IF vim = Null \/ vip = Null THEN [c EXCEPT !.vim = vim, !.vip = vip]
       ELSE With(t, LAMBDA u :
                With([t |-> u, vim |-> vim, vip |-> vip, vom |-> vom, vop |-> vop,
                      sim |-> c.sim + u[vim].mod, sip |-> c.sip + more + u[vip].mod,
                      som |-> c.som + u[vom].mod, sop |-> c.sop + more + u[vop].mod],
                     LAMBDA next : Contours(h, next, node, ancestor)))

\* apportion: what its subtree needs to clear those before; threads go on where one ends.
apportion(h, t, node, previous, ancestor) ==
    LET start == [t |-> t, vim |-> previous, vip |-> node, vom |-> h.children[Parent(h, node)][1],
                  vop |-> node, sim |-> t[previous].mod, sip |-> t[node].mod,
                  som |-> t[h.children[Parent(h, node)][1]].mod, sop |-> t[node].mod]
        Threads(c) ==
            LET inner == c.vim # Null /\ treeRight(h, c.t, c.vop) = Null
                t1 == IF inner THEN [c.t EXCEPT ![c.vop].thread = c.vim, ![c.vop].mod = @ + c.sim - c.sop]
                      ELSE c.t
                outer == c.vip # Null /\ treeLeft(h, t1, c.vom) = Null
            IN IF outer THEN [t |-> [t1 EXCEPT ![c.vom].thread = c.vip, ![c.vom].mod = @ + c.sip - c.som],
                              ancestor |-> node]
               ELSE [t |-> t1, ancestor |-> ancestor]
    IN With(Contours(h, start, node, ancestor), Threads)

RECURSIVE firstWalk(_, _, _, _)
firstWalk(h, t, node, previousSibling) ==
    LET children == h.children[node]
        Child(s, i) ==
            LET previous == IF i = 1 THEN Null ELSE children[i - 1]
            IN With(firstWalk(h, s.t, children[i], previous), LAMBDA u :
                   IF i = 1 THEN [s EXCEPT !.t = u]
                   ELSE apportion(h, u, children[i], previous, s.ancestor))
        Place(u) ==
            LET beside == u[previousSibling].prelim + separation(h, node, previousSibling)
                midpoint == (u[children[1]].prelim + u[Last(children)].prelim) \div 2
            IN IF previousSibling = Null THEN [u EXCEPT ![node].prelim = IF Leaf(h, node) THEN @ ELSE midpoint]
               ELSE [u EXCEPT ![node].prelim = beside,
                              ![node].mod = IF Leaf(h, node) THEN @ ELSE beside - midpoint]
    IN IF Leaf(h, node) THEN Place(t)
       ELSE With(FoldLeft(LAMBDA s, i : Child(s, i), [t |-> t, ancestor |-> children[1]],
                          [i \in DOMAIN children |-> i]),
                 LAMBDA s : Place(treeShift(h, s.t, node)))

\* secondWalk: prelim and the mods of those above.
treeX(h) ==
    LET fresh == [n \in Nodes(h) |-> [ancestor |-> n, prelim |-> 0, mod |-> 0, change |-> 0,
                                       shift |-> 0, thread |-> Null]]
        Walk(t) ==
            LET mods[n \in Nodes(h)] == IF n = 1 THEN -t[1].prelim
                                        ELSE mods[Parent(h, n)] + t[Parent(h, n)].mod
            IN [n \in Nodes(h) |-> t[n].prelim + mods[n]]
    IN With(firstWalk(h, fresh, 1, Null), Walk)

------------------------------------------------------------------------------
(* What they are checked against.                                             *)

\* Brothers share their parent's space by value, the largest first; no space is lost
\* unless nothing is worth any.
PartitionTiles(h) ==
    LET s == sorted(h)
        p == partition(s)
    IN \A n \in Nodes(h) : ~Leaf(h, n) =>
           LET c == s.children[n]
           IN /\ \A i \in DOMAIN c : p[c[i]].x = p[n].x + Sum([j \in 1 .. i - 1 |-> p[c[j]].dx])
              /\ \A i, j \in DOMAIN c : i < j => p[c[i]].dx >= p[c[j]].dx
              /\ s.value[n] > 0 => Sum([i \in DOMAIN c |-> p[c[i]].dx]) = p[n].dx
              /\ \A i \in DOMAIN c : p[c[i]].dx * s.value[1] = Unit * s.value[c[i]]

\* Nodes of one depth are apart, in the order of the tree.
Apart(h, x) ==
    \A a, b \in Nodes(h) : a < b /\ depths(h)[a] = depths(h)[b] => x[b] - x[a] >= separation(h, a, b)

\* A tree is drawn with no two nodes of a depth too near, every parent over the middle of
\* its first and last child, and the subtrees of brothers as near as they can be when
\* there are two of them.
TreeDrawn(h) ==
    \A x \in {treeX(h)} :
        /\ Apart(h, x)
        /\ \A n \in Nodes(h) : ~Leaf(h, n) => 2 * x[n] = x[h.children[n][1]] + x[Last(h.children[n])]
        /\ \A n \in Nodes(h) : Len(h.children[n]) = 2 =>
               LET below(r) == LET b[m \in Nodes(h)] == m = r \/ (m # 1 /\ b[Parent(h, m)])
                               IN {m \in Nodes(h) : b[m]}
               IN \E a \in below(h.children[n][1]), b \in below(h.children[n][2]) :
                      depths(h)[a] = depths(h)[b] /\ x[b] - x[a] = separation(h, a, b)

\* A cluster has its leaves in a row at the foot, apart, and every node above all that
\* are below it, between the first and the last.
ClusterDrawn(h) ==
    LET x == clusterX(h)
        y == clusterY(h)
        leaves == {n \in Nodes(h) : Leaf(h, n)}
    IN /\ \A a, b \in leaves : a < b => x[b] - x[a] >= separation(h, a, b)
       /\ \A n \in Nodes(h) \ leaves :
              /\ \A c \in ToSet(h.children[n]) : y[c] < y[n]
              /\ x[h.children[n][1]] <= x[n] /\ x[n] <= x[Last(h.children[n])]

------------------------------------------------------------------------------
(* The treemap of d3.js and the paths of its bundles, over the hierarchies of *)
(* TreeLayouts. Places and lengths are in halves of a pixel, to which padding *)
(* may halve what is left; those that are rounded are even.                   *)

------------------------------------------------------------------------------
(* A row of children along one side of what is left of a rectangle. Their     *)
(* areas are their values in share: [total, space], as the children of a node *)
(* that is worth total share the space. A child is [node, value].             *)

worth(row) == Sum([i \in DOMAIN row |-> row[i].value])

\* round(area / side).
along(value, share, side) ==
    IF side = 0 \/ share.total = 0 THEN 0
    ELSE 2 * ((value * share.space + share.total * side) \div (2 * share.total * side))

\* position: the children placed, and the rectangle that is left.
positionRow(row, u, rect, flush, share) ==
    LET across == u = rect.dx
        width == IF across THEN rect.dx ELSE rect.dy
        depth == IF across THEN rect.dy ELSE rect.dx
        v == IF flush THEN depth ELSE Min({depth, along(worth(row), share, u)})
        at[i \in DOMAIN row] ==
            IF i = 1 THEN 0 ELSE at[i - 1] + Min({width - at[i - 1], along(row[i - 1].value, share, v)})
        long(i) == (IF i = Len(row) THEN width ELSE at[i + 1]) - at[i]
        z(i) == IF i = Len(row) THEN across ELSE Null
    IN [placed |-> {<<row[i].node, IF across
                       THEN [x |-> rect.x + at[i], y |-> rect.y, dx |-> long(i), dy |-> v, z |-> z(i)]
                       ELSE [x |-> rect.x, y |-> rect.y + at[i], dx |-> v, dy |-> long(i), z |-> z(i)]>> : i \in DOMAIN row},
        rest |-> IF across THEN [rect EXCEPT !.y = @ + v, !.dy = @ - v] ELSE [rect EXCEPT !.x = @ + v, !.dx = @ - v]]

\* worst: how far the children of a row are from squares, as a fraction; with ratio 1. Of
\* rows along the same side it tells the better one.
Infinity == <<1, 0>>
AtMost(p, q) == p[1] * q[2] <= q[1] * p[2]

worst(row, u, share) ==
    LET worths == {row[i].value : i \in DOMAIN row} \ {0}
        s == worth(row) * worth(row)
        long == <<u * u * share.total * Max(worths), share.space * s>>
        flat == <<share.space * s, u * u * share.total * Min(worths)>>
    IN IF s = 0 \/ share.space = 0 THEN Infinity ELSE IF AtMost(long, flat) THEN flat ELSE long

------------------------------------------------------------------------------

pad(rect, padding) ==
    LET dx == rect.dx - padding[2] - padding[4]
        dy == rect.dy - padding[1] - padding[3]
    IN [x |-> rect.x + padding[4] + (IF dx < 0 THEN dx \div 2 ELSE 0), dx |-> Max({0, dx}),
        y |-> rect.y + padding[1] + (IF dy < 0 THEN dy \div 2 ELSE 0), dy |-> Max({0, dy})]

\* squarify's loop, from the last of the remaining children to the first.
RECURSIVE Squares(_, _, _, _, _, _)
Squares(remaining, row, best, u, rect, share) ==
    IF remaining = <<>> THEN positionRow(row, u, rect, TRUE, share).placed
    ELSE LET longer == Append(row, Last(remaining))
             score == worst(longer, u, share)
         IN IF AtMost(score, best) THEN Squares(Front(remaining), longer, score, u, rect, share)
            ELSE With(positionRow(row, u, rect, FALSE, share), LAMBDA done :
                     done.placed \cup Squares(remaining, <<>>, Infinity, Min({done.rest.dx, done.rest.dy}),
                                              done.rest, share))

\* stickify's loop: the rows that were made before, which end where z is set.
RECURSIVE Stick(_, _, _, _, _)
Stick(remaining, row, before, rect, share) ==
    IF remaining = <<>> THEN {}
    ELSE LET longer == Append(row, Last(remaining))
             z == before[Last(remaining).node].z
         IN IF z = Null THEN Stick(Front(remaining), longer, before, rect, share)
            ELSE With(positionRow(longer, IF z THEN rect.dx ELSE rect.dy, rect, Len(remaining) = 1, share),
                     LAMBDA done : done.placed \cup Stick(Front(remaining), <<>>, before, done.rest, share))

\* squarify and stickify, below a node that has its rectangle; before is what a sticky
\* treemap has laid out, or Null.
RECURSIVE Lay(_, _, _, _, _)
Lay(h, node, rect, padding, before) ==
    LET inner == pad(rect, padding)
        children == [i \in DOMAIN h.children[node] |->
                        [node |-> h.children[node][i], value |-> h.value[h.children[node][i]]]]
        share == [total |-> h.value[node], space |-> inner.dx * inner.dy]
        placed == IF before = Null
                  THEN Squares(children, <<>>, Infinity, Min({inner.dx, inner.dy}), inner, share)
                  ELSE Stick(children, <<>>, before, inner, share)
    IN IF Leaf(h, node) THEN {}
       ELSE With(placed, LAMBDA all : all \cup UNION {Lay(h, p[1], p[2], padding, before) : p \in all})

\* treemap(d), of a hierarchy that is sorted, with its values.
treemap(h, size, padding, before) ==
    LET root == [x |-> 0, y |-> 0, dx |-> size[1], dy |-> size[2], z |-> Null]
    IN With({<<1, root>>} \cup Lay(h, 1, root, padding, before), LAMBDA placed :
           [n \in Nodes(h) |-> (CHOOSE p \in placed : p[1] = n)[2]])

------------------------------------------------------------------------------
(* Bundles: the path between two nodes, through their least common ancestor.  *)

ancestors(h, node) == LET a[n \in Nodes(h)] == IF n = 1 THEN <<1>> ELSE <<n>> \o a[Parent(h, n)] IN a[node]

\* From the root, the two lists of ancestors agree up to it.
leastCommonAncestor(h, a, b) ==
    LET as == Reverse(ancestors(h, a))
        bs == Reverse(ancestors(h, b))
        shared == {i \in DOMAIN as \cap DOMAIN bs : as[i] = bs[i]}
    IN IF a = b THEN a ELSE as[Max({i \in shared : 1 .. i \subseteq shared})]

bundlePath(h, a, b) ==
    LET lca == leastCommonAncestor(h, a, b)
        Below(n) == SelectSeq(ancestors(h, n), LAMBDA p : p \notin ToSet(ancestors(h, lca)))
    IN Below(a) \o <<lca>> \o Reverse(Below(b))

------------------------------------------------------------------------------
(* Properties.                                                                *)

Inside(r, s) == s.x <= r.x /\ s.y <= r.y /\ r.x + r.dx <= s.x + s.dx /\ r.y + r.dy <= s.y + s.dy
Beside(r, s) == r.x + r.dx <= s.x \/ s.x + s.dx <= r.x \/ r.y + r.dy <= s.y \/ s.y + s.dy <= r.y

Tiled(h, laid, padding) ==
    \A n \in Nodes(h) : ~Leaf(h, n) =>
        LET inner == pad(laid[n], padding)
            children == ToSet(h.children[n])
        IN /\ \A c \in children : laid[c].dx >= 0 /\ laid[c].dy >= 0 /\ Inside(laid[c], inner)
           /\ \A c, d \in children : c # d => Beside(laid[c], laid[d])
           /\ FoldSet(LAMBDA c, sum : sum + laid[c].dx * laid[c].dy, 0, children) = inner.dx * inner.dy

\* The children of every node tile what padding leaves of it, whatever is rounded, when a
\* treemap is laid out, and when the sticky one is laid out again for other values.
TreemapTiles(hierarchy, size, padding, again) ==
    LET h == sorted(hierarchy)
        other == [h EXCEPT !.value = values([h EXCEPT !.value = again])]
    IN With(treemap(h, size, padding, Null), LAMBDA laid :
           Tiled(h, laid, padding) /\ Tiled(other, treemap(other, size, padding, laid), padding))

\* A path of a bundle goes from its source to its target, from parent to child or back,
\* and through no node twice.
BundlesJoin(h) ==
    \A a, b \in Nodes(h) :
        LET path == bundlePath(h, a, b)
        IN /\ path[1] = a /\ Last(path) = b /\ IsInjective(path)
           /\ \A i \in 1 .. Len(path) - 1 : Parent(h, path[i]) = path[i + 1] \/ Parent(h, path[i + 1]) = path[i]
=============================================================================
