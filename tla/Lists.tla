-------------------------------- MODULE Lists -------------------------------
(* ngRepeat and the select directive with ng-options in angular-1.0.0.js: the *)
(* rows and the options of a page follow a collection, which may hold a value *)
(* more than once.  A row keeps its element and its scope as long as its      *)
(* value is in the collection, and is only moved; options reuse the elements  *)
(* that there are, and what the user chooses is read back through the index   *)
(* that the chosen element carries.                                           *)
EXTENDS Naturals, SequencesExt, FiniteSetsExt

CONSTANTS
    Item,                \* what the collection may hold
    GroupOf,             \* item -> the name of its group, "" for none
    MaxLength, MaxRows,  \* bounds: the collection, the rows ever made
    Null, Undefined

VARIABLES
    collection,
    page,       \* the elements behind the comment of ngRepeat, in order
    lastOrder,  \* item -> its rows in the queue of HashQueueMap: [row, index]
    rows,       \* how many rows were made: the identity of the next one
    scopes,     \* row -> what its scope says: item, $index, $first and $last
    multiple, nullOption,  \* attributes of the select element
    modelValue,            \* an item, Null or Undefined; a sequence when multiple
    cache                  \* optionGroupsCache, which is the page: groups with a label
                           \* and options with an id, a label and selected

------------------------------------------------------------------------------
(* ngRepeat.                                                                  *)

RepeatInit ==
    /\ collection = <<>> /\ page = <<>> /\ lastOrder = [x \in Item |-> <<>>]
    /\ rows = 0 /\ scopes = <<>>

\* cursor.after(row): 0 is the comment.
Without(p, row) == SelectSeq(p, LAMBDA r : r # row)
After(p, cursor, row) ==
    LET q == Without(p, row)
    IN InsertAt(q, 1 + (IF cursor = 0 THEN 0 ELSE CHOOSE i \in DOMAIN q : q[i] = cursor), row)

\* Mutant: an element that is there is left where it is.
PlaceNew(state, item, index) ==
    LET found == state.old[item] # <<>>
        row == IF found THEN Head(state.old[item]).row ELSE state.rows + 1
    IN [state EXCEPT
           !.old[item] = IF found THEN Tail(@) ELSE @,
           !.new[item] = Append(@, [row |-> row, index |-> index]),
           !.page = IF found THEN @ ELSE After(@, state.cursor, row),
           !.cursor = row,
           !.rows = IF found THEN @ ELSE @ + 1,
           !.scopes = [r \in DOMAIN @ \cup {row} |->
                          IF r # row THEN @[r]
                          ELSE [item |-> item, index |-> index, first |-> index = 1,
                                last |-> index = state.length]]]

\* One pass of the loop over the collection: an element that is at its old index
\* is not touched, another one is moved behind the cursor, or made there.
Place(state, item, index) ==
    LET found == state.old[item] # <<>>
        last == IF found THEN Head(state.old[item]) ELSE [row |-> state.rows + 1, index |-> index]
        row == last.row
    IN [state EXCEPT
           !.old[item] = IF found THEN Tail(@) ELSE @,
           !.new[item] = Append(@, [row |-> row, index |-> index]),
           !.page = IF found /\ last.index = index THEN @ ELSE After(@, state.cursor, row),
           !.cursor = row,
           !.rows = IF found THEN @ ELSE @ + 1,
           !.scopes = [r \in DOMAIN @ \cup {row} |->
                          IF r # row THEN @[r]
                          ELSE [item |-> item, index |-> index, first |-> index = 1,
                                last |-> index = state.length]]]

\* The collection changes and the watch of the directive runs; the rows that are
\* left in lastOrder lose their elements and scopes.
RenderRows(c) ==
    LET start == [old |-> lastOrder, new |-> [x \in Item |-> <<>>], page |-> page, cursor |-> 0,
                  rows |-> rows, scopes |-> scopes, length |-> Len(c)]
        end == FoldLeftDomain(LAMBDA acc, i : Place(acc, c[i], i), start, c)
        gone == {last.row : last \in UNION {ToSet(end.old[x]) : x \in Item}}
    IN /\ end.rows <= MaxRows
       /\ collection' = c /\ lastOrder' = end.new /\ rows' = end.rows
       /\ page' = SelectSeq(end.page, LAMBDA r : r \notin gone)
       /\ scopes' = [r \in DOMAIN end.scopes \ gone |-> end.scopes[r]]

RepeatNext == \E c \in SeqOf(Item, MaxLength) : RenderRows(c)

------------------------------------------------------------------------------
(* Property.                                                                  *)

Count(x, seq) == Cardinality({i \in DOMAIN seq : seq[i] = x})

\* After every change the page shows one row for each member of the collection, in
\* its order, each scope knows its place, and of every item as many rows as possible
\* are the old ones: no element is made again that could have been moved, and no
\* scope is left of a row that has gone.
Follows ==
    /\ IsInjective(page') /\ ToSet(page') = DOMAIN scopes'
    /\ Len(page') = Len(collection')
    /\ \A i \in DOMAIN page' :
           scopes'[page'[i]] = [item |-> collection'[i], index |-> i, first |-> i = 1,
                                last |-> i = Len(page')]
    /\ \A x \in Item :
           LET kept == {i \in DOMAIN page' : collection'[i] = x /\ page'[i] \in ToSet(page)}
               old == Count(x, collection)
               new == Count(x, collection')
           IN Cardinality(kept) = IF old < new THEN old ELSE new

------------------------------------------------------------------------------
(* ng-options.                                                                *)

Option(id, label, selected) == [id |-> id, label |-> label, selected |-> selected]
UnknownOption == Option(Undefined, "", TRUE)
NullOption(value) == Option(Null, "", value = Null)

------------------------------------------------------------------------------
(* render.                                                                    *)

\* The names of the groups in the order in which the items mention them, "" first.
GroupNames(c) ==
    FoldLeft(LAMBDA names, x : IF GroupOf[x] \in ToSet(names) THEN names
                               ELSE Append(names, GroupOf[x]), <<"">>, c)

\* One item of several may be selected by its first occurrence only.
Selected(c, i, value) ==
    IF multiple THEN c[i] \in ToSet(value) /\ \A j \in 1..(i - 1) : c[j] # c[i]
                ELSE c[i] = value

OptionsIn(name, c, value) ==
    LET items == SelectSeq([i \in DOMAIN c |-> i], LAMBDA i : GroupOf[c[i]] = name)
        found == \E i \in DOMAIN c : Selected(c, i, value)
        first == IF name # "" \/ multiple THEN <<>>
                 ELSE IF value = Null \/ nullOption THEN <<NullOption(value)>>
                 ELSE IF ~found THEN <<UnknownOption>> ELSE <<>>
    IN first \o [k \in DOMAIN items |-> Option(items[k], c[items[k]], Selected(c, items[k], value))]

\* Mutant: an option that is used again stays selected as it was.
UpdateLabel(existing, option) == [existing EXCEPT !.label = option.label, !.id = option.id]

\* The existing elements are given the new values one by one; what is missing is
\* added and what is left over removed.
Update(existing, option) ==
    [existing EXCEPT !.label = option.label, !.id = option.id, !.selected = option.selected]

RenderGroup(existing, name, options) ==
    LET both == IF Len(existing) < Len(options) THEN Len(existing) ELSE Len(options)
    IN [label |-> name,
        options |-> [k \in 1..both |-> Update(existing[k], options[k])]
                        \o SubSeq(options, both + 1, Len(options))]

Render(old, c, value) ==
    LET names == GroupNames(c)
    IN [g \in DOMAIN names |->
           RenderGroup(IF g <= Len(old) THEN old[g].options ELSE <<>>,
                       names[g], OptionsIn(names[g], c, value))]

SelectInit ==
    /\ multiple \in BOOLEAN /\ nullOption \in BOOLEAN
    /\ collection = <<>> /\ modelValue = IF multiple THEN <<>> ELSE Undefined
    /\ cache = Render(<<[label |-> "", options |-> <<>>]>>, collection, modelValue)


\* A digest: the collection or the model has changed.
Change(c, value) ==
    /\ collection' = c /\ modelValue' = value /\ cache' = Render(cache, c, value)
    /\ UNCHANGED <<multiple, nullOption>>

------------------------------------------------------------------------------
(* The change event.                                                          *)

Shown == FlattenSeq([g \in DOMAIN cache |-> cache[g].options])

IsItem(option) == option.id \notin {Null, Undefined}

\* '?' stands for undefined and '' for null.
ValueOf(option) ==
    IF IsItem(option) THEN collection[option.id] ELSE option.id

Choose(k) ==
    /\ ~multiple /\ k \in DOMAIN Shown /\ Change(collection, ValueOf(Shown[k]))

\* The chosen options, group by group; the first group may begin with no extra one.
ChooseSeveral(K) ==
    /\ multiple /\ K \subseteq DOMAIN Shown
    /\ LET chosen == SelectSeq([k \in DOMAIN Shown |-> k], LAMBDA k : k \in K)
       IN Change(collection, [j \in DOMAIN chosen |-> ValueOf(Shown[chosen[j]])])

Values == IF multiple THEN {<<>>} \cup {<<x>> : x \in Item} \cup {<<x, y>> : x, y \in Item}
                      ELSE Item \cup {Null, Undefined}

SelectNext ==
    \/ \E c \in SeqOf(Item, MaxLength) : Change(c, modelValue)
    \/ \E value \in Values : Change(collection, value)
    \/ \E k \in 1..(MaxLength + 1) : Choose(k)
    \/ \E K \in SUBSET (1..MaxLength) : ChooseSeveral(K)

------------------------------------------------------------------------------
(* Property.                                                                  *)

\* Whatever the options were before, each member of the collection is shown once, in
\* its group and with its own label, and under an id that leads back to it; what is
\* selected is what the model holds, and the unknown option is there exactly as long
\* as the model holds nothing that can be chosen.
SelectionFollows ==
    LET real == SelectSeq(Shown, IsItem)
        extra == SelectSeq(Shown, LAMBDA o : ~IsItem(o))
        selected == {o \in ToSet(Shown) : o.selected}
    IN /\ {o.id : o \in ToSet(real)} = DOMAIN collection /\ Len(real) = Len(collection)
       /\ \A o \in ToSet(real) : o.label = collection[o.id]
       /\ \A g \in DOMAIN cache : \A o \in ToSet(cache[g].options) :
              IsItem(o) => GroupOf[o.label] = cache[g].label
       /\ {ValueOf(o) : o \in selected} =
              IF multiple THEN ToSet(modelValue) \cap ToSet(collection)
              ELSE IF modelValue \in ToSet(collection) \cup {Null} THEN {modelValue}
              ELSE IF nullOption THEN {} ELSE {Undefined}
       /\ Len(extra) <= 1 /\ (extra # <<>> => Head(Shown) = Head(extra))
=============================================================================
