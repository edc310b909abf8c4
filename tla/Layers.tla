-------------------------------- MODULE Layers -------------------------------
(* The elements of a drawing of raphael.js: the list from bottom to top beside *)
(* the nodes of the page, and a set of them, which is an array beside indexed  *)
(* properties. An operation maps s, a record of these.                         *)
EXTENDS Integers, FiniteSets, SequencesExt

CONSTANTS
    Null,
    Element,
    Group,      \* the set
    MaxCalls    \* bound: how often the page calls

VARIABLES
    dom,        \* the elements in the order of their nodes
    links,      \* [top, bottom, prev, next]: the list
    items,      \* set.items
    index,      \* set[0], set[1], ..
    removed,    \* the elements that are removed
    recording,  \* between setStart and setFinish
    thrown,     \* the last call ended in an error
    odd,        \* an element was put next to a set or to itself
    calls

layerVars == <<dom, links, items, index, removed, recording, thrown, odd, calls>>

Init ==
    /\ dom = <<>> /\ items = <<>> /\ index = <<>> /\ removed = {} /\ calls = 0
    /\ links = [top |-> Null, bottom |-> Null, prev |-> [e \in Element \cup {Group} |-> Null],
                next |-> [e \in Element \cup {Group} |-> Null]]
    /\ recording = FALSE /\ thrown = FALSE /\ odd = FALSE

------------------------------------------------------------------------------
(* The list.                                                                  *)

SetPrev(l, el, to) == IF el = Null THEN l ELSE [l EXCEPT !.prev[el] = to]
SetNext(l, el, to) == IF el = Null THEN l ELSE [l EXCEPT !.next[el] = to]

_tear(l, el) ==
    LET ends == [l EXCEPT !.top = IF @ = el THEN l.prev[el] ELSE @, !.bottom = IF @ = el THEN l.next[el] ELSE @]
        above == SetPrev(ends, ends.next[el], ends.prev[el])
    IN SetNext(above, above.prev[el], above.next[el])

_tofront(l, el) ==
    LET t == _tear(l, el)
    IN IF l.top = el THEN l ELSE [t EXCEPT !.next = [@ EXCEPT ![el] = Null, ![t.top] = el], !.prev[el] = t.top, !.top = el]

_toback(l, el) ==
    LET t == _tear(l, el)
    IN IF l.bottom = el THEN l
       ELSE [t EXCEPT !.prev = [@ EXCEPT ![el] = Null, ![t.bottom] = el], !.next[el] = t.bottom, !.bottom = el]

_insertafter(l, el, el2) ==
    LET t == _tear(l, el)
        over == SetPrev([t EXCEPT !.top = IF @ = el2 THEN el ELSE @], t.next[el2], el)
    IN [over EXCEPT !.next = [@ EXCEPT ![el] = over.next[el2], ![el2] = el], !.prev[el] = el2]

_insertbefore(l, el, el2) ==
    LET t == _tear(l, el)
        under == SetNext([t EXCEPT !.bottom = IF @ = el2 THEN el ELSE @], t.prev[el2], el)
    IN [under EXCEPT !.prev = [@ EXCEPT ![el] = under.prev[el2], ![el2] = el], !.next[el] = el2]

------------------------------------------------------------------------------
(* The elements and their nodes. Calls to a removed element throw.            *)

State == [dom |-> dom, links |-> links, items |-> items, index |-> index, removed |-> removed, thrown |-> FALSE]

Placed(s, el) == ~s.thrown /\ el \in ToSet(s.dom)
Thrown(s) == [s EXCEPT !.thrown = TRUE]

Place(s, el) == SelectInSeq(s, LAMBDA x : x = el)
PutAfter(s, el, at) ==
    IF el = at THEN s ELSE LET t == Remove(s, el) IN InsertAt(t, Place(t, at) + 1, el)
PutBefore(s, el, at) ==
    IF el = at THEN s ELSE LET t == Remove(s, el) IN InsertAt(t, Place(t, at), el)

ToFront(s, el) ==
    IF ~Placed(s, el) THEN Thrown(s)
    ELSE [s EXCEPT !.dom = Append(Remove(@, el), el), !.links = _tofront(@, el)]

ToBack(s, el) ==
    IF ~Placed(s, el) THEN Thrown(s) ELSE [s EXCEPT !.dom = <<el>> \o Remove(@, el), !.links = _toback(@, el)]

\* What is put next to a set is put next to its last or first element, but in the list next
\* to the set.
Target(s, to, last) == IF to # Group THEN to ELSE IF last THEN s.index[Len(s.items)] ELSE s.index[1]

InsertAfter(s, el, to) ==
    IF ~Placed(s, el) \/ (to = Group /\ s.items = <<>>) THEN Thrown(s)
    ELSE IF ~Placed(s, Target(s, to, TRUE)) THEN Thrown(s)
    ELSE [s EXCEPT !.dom = PutAfter(@, el, Target(s, to, TRUE)), !.links = _insertafter(@, el, to)]

InsertBefore(s, el, to) ==
    IF ~Placed(s, el) \/ (to = Group /\ s.items = <<>>) THEN Thrown(s)
    ELSE IF ~Placed(s, Target(s, to, FALSE)) THEN Thrown(s)
    ELSE [s EXCEPT !.dom = PutBefore(@, el, Target(s, to, FALSE)), !.links = _insertbefore(@, el, to)]

\* splice: at 0 .. n, what is left out and what is put there.
Splice(s, at, count, put) ==
    LET n == Len(s.items)
        i == IF at < 0 THEN (IF n + at < 0 THEN 0 ELSE n + at) ELSE at
        out == IF n - i < count THEN n - i ELSE count
        tail == SubSeq(s.index, i + out + 1, n)
    IN [s EXCEPT !.items = SubSeq(@, 1, i) \o put \o tail, !.index = SubSeq(@, 1, i) \o put \o tail]

\* exclude: its first place in the set.
Exclude(s, el) ==
    LET i == Place(SubSeq(s.index, 1, Len(s.items)), el) IN IF i = 0 THEN s ELSE Splice(s, i - 1, 1, <<>>)

\* The set that is made from new elements loses the removed one.
RemoveElement(s, el) ==
    IF ~Placed(s, el) THEN Thrown(s)
    ELSE LET left == IF recording THEN Exclude(s, el) ELSE s
             torn == _tear(left.links, el)
         IN [left EXCEPT !.dom = Remove(@, el), !.removed = @ \cup {el},
                         !.links = [torn EXCEPT !.prev[el] = Null, !.next[el] = Null]]

\* forEach: as many items as there were at its start, though the set may lose some; a place
\* that is empty throws.
ForEach(s, Method(_, _)) ==
    FoldLeft(LAMBDA t, i : IF t.thrown THEN t ELSE IF i > Len(t.items) THEN Thrown(t) ELSE Method(t, t.items[i]),
             s, [i \in DOMAIN s.items |-> i])

------------------------------------------------------------------------------
(* The page's calls.                                                          *)

Becomes(s) ==
    /\ calls < MaxCalls /\ calls' = calls + 1
    /\ dom' = s.dom /\ links' = s.links /\ items' = s.items /\ index' = s.index /\ removed' = s.removed
    /\ thrown' = s.thrown

Same == UNCHANGED <<recording, odd>>

\* circle, rect and the others: on top, and into the set that is made.
Pushed(s, el) == [s EXCEPT !.index = Append(SubSeq(@, 1, Len(s.items)), el), !.items = Append(@, el)]

create(el) ==
    /\ el \notin ToSet(dom) \cup removed
    /\ LET under == IF links.top = Null THEN links ELSE [links EXCEPT !.next[links.top] = el]
           made == [State EXCEPT !.dom = Append(@, el),
                                 !.links = [under EXCEPT !.bottom = IF @ = Null THEN el ELSE @, !.top = el,
                                                         !.prev[el] = links.top, !.next[el] = Null]]
       IN Becomes(IF recording THEN Pushed(made, el) ELSE made)
    /\ Same

setStart == ~recording /\ recording' = TRUE /\ Becomes([State EXCEPT !.items = <<>>, !.index = <<>>]) /\ UNCHANGED odd
setFinish == recording /\ recording' = FALSE /\ Becomes(State) /\ UNCHANGED odd

toFront(el) == Becomes(ToFront(State, el)) /\ Same
toBack(el) == Becomes(ToBack(State, el)) /\ Same
remove(el) == Becomes(RemoveElement(State, el)) /\ Same
insertAfter(el, to) ==
    Becomes(InsertAfter(State, el, to)) /\ odd' = (odd \/ to \in {Group, el}) /\ UNCHANGED recording
insertBefore(el, to) ==
    Becomes(InsertBefore(State, el, to)) /\ odd' = (odd \/ to \in {Group, el}) /\ UNCHANGED recording

push(el) == Becomes(Pushed(State, el)) /\ Same
\* pop deletes the property after the last one.
pop == items # <<>> /\ Becomes([State EXCEPT !.index = SubSeq(@, 1, Len(items)), !.items = Front(@)]) /\ Same
splice(at, count, put) == Becomes(Splice(State, at, count, put)) /\ Same

groupToFront == Becomes(ForEach(State, ToFront)) /\ Same
groupToBack == Becomes(ForEach(State, ToBack)) /\ Same
groupRemove == Becomes(ForEach(State, RemoveElement)) /\ Same
\* From the last to the first.
\* Mutant: from the first to the last.
GroupInsertInOrder(to) ==
    /\ to \notin ToSet(items)
    /\ Becomes(FoldLeft(LAMBDA t, el : IF t.thrown THEN t ELSE InsertAfter(t, el, to), State, items))
    /\ Same

groupInsertAfter(to) ==
    /\ to \notin ToSet(items)
    /\ Becomes(FoldRight(LAMBDA el, t : IF t.thrown THEN t ELSE InsertAfter(t, el, to), items, State))
    /\ Same

Next ==
    \/ setStart \/ setFinish \/ pop \/ groupToFront \/ groupToBack \/ groupRemove
    \/ \E at \in -1 .. Len(items), count \in 0 .. 2 :
           \/ splice(at, count, <<>>)
           \/ \E el \in ToSet(dom) : splice(at, count, <<el>>)
    \/ \E el \in Element :
           \/ create(el)
           \/ /\ el \in ToSet(dom)
              /\ toFront(el) \/ toBack(el) \/ remove(el) \/ push(el) \/ groupInsertAfter(el)
           \/ /\ el \in ToSet(dom)
              /\ \E to \in ToSet(dom) \cup {Group} : insertAfter(el, to) \/ insertBefore(el, to)

------------------------------------------------------------------------------
(* Properties.                                                                *)

\* From bottom to top, and back, the list is the order of the nodes, until an element is
\* put next to a set or to itself; and a set's properties are its items.
Linked ==
    /\ ~odd =>
           /\ links.bottom = (IF dom = <<>> THEN Null ELSE dom[1])
           /\ links.top = (IF dom = <<>> THEN Null ELSE Last(dom))
           /\ \A i \in DOMAIN dom :
                  /\ links.prev[dom[i]] = (IF i = 1 THEN Null ELSE dom[i - 1])
                  /\ links.next[dom[i]] = (IF i = Len(dom) THEN Null ELSE dom[i + 1])
    /\ SubSeq(index, 1, Len(items)) = items

\* A set is moved as a whole: to the front or after an element in its order, to the back
\* in the opposite one, and the other elements stay in theirs.
MovedTogether ==
    LET others == SelectSeq(dom, LAMBDA x : x \notin ToSet(items))
        Upto(el) == Place(others, el)
    IN ~thrown' /\ IsInjective(items) =>
           /\ groupToFront => dom' = others \o items
           /\ groupToBack => dom' = Reverse(items) \o others
           /\ \A el \in ToSet(others) : groupInsertAfter(el) =>
                  dom' = SubSeq(others, 1, Upto(el)) \o items \o SubSeq(others, Upto(el) + 1, Len(others))
=============================================================================
