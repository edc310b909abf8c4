------------------------------ MODULE PageWidgets -----------------------------
(* The smaller widgets of the site: the states of a button, alerts, tabs with *)
(* dropdowns and the scroll spy, of bootstrap-buttons.js, -alerts.js, -tabs.js, *)
(* -dropdown.js and -scrollspy.js. An alert may lie in another one.           *)
EXTENDS Integers, SequencesExt, FiniteSetsExt

CONSTANTS
    Null,
    States,     \* state -> the text that the button has for it, or Null
    Texts,      \* what the page writes on the button
    Alerts,     \* alert -> the one that it lies in, or Null
    MaxCalls    \* bound: how often the page calls

------------------------------------------------------------------------------
(* setState.                                                                  *)

VARIABLES
    html, resetText,
    disabled,
    later,      \* the states whose timeouts are to come
    last,       \* the state that was set last; Null before
    written,    \* what the page itself wrote on the button before the first state
    calls

buttonVars == <<html, resetText, disabled, later, last, written, calls>>

DefaultText == "loading..."
TextOf(state) ==
    CASE state = "reset" -> resetText'
      [] state = "loading" /\ States[state] = Null -> DefaultText
      [] OTHER -> States[state]

\* A state without a text leaves what is written.
setState(state) ==
    /\ calls < MaxCalls /\ calls' = calls + 1
    /\ resetText' = IF resetText = Null THEN html ELSE resetText
    /\ html' = IF TextOf(state) = Null THEN html ELSE TextOf(state)
    /\ later' = Append(later, state) /\ last' = state
    /\ UNCHANGED <<disabled, written>>

Later ==
    /\ later # <<>> /\ later' = Tail(later)
    /\ disabled' = (Head(later) = "loading")
    /\ UNCHANGED <<html, resetText, last, written, calls>>

\* The page writes on the button.
Write ==
    /\ calls < MaxCalls /\ calls' = calls + 1
    /\ \E t \in Texts : html' = t /\ written' = IF resetText = Null THEN t ELSE written
    /\ UNCHANGED <<resetText, disabled, later, last>>

ButtonInit ==
    /\ html \in Texts /\ written = html
    /\ resetText = Null /\ disabled = FALSE /\ later = <<>> /\ last = Null /\ calls = 0

ButtonNext == Write \/ Later \/ \E state \in DOMAIN States : setState(state)

\* A button that nothing waits for is disabled if loading was the last state, and its first
\* text is not lost, in whatever order the states come.
ButtonInStep ==
    /\ later = <<>> => (disabled <=> last = "loading")
    /\ resetText \in {Null, written}

------------------------------------------------------------------------------
(* close.                                                                     *)

VARIABLES
    fade,       \* the alerts with class fade
    inPage,     \* those in the page
    in,         \* those with class in
    fading,     \* those with a transition
    removes,    \* those that the end of a transition removes, theirs or that of one in them
    closed,     \* those that were closed
    stuck       \* those that had no transition to remove them

alertVars == <<fade, inPage, in, fading, removes, closed, stuck>>

\* The alert with those that it lies in.
Outer(a) == {a} \cup (IF Alerts[a] = Null THEN {} ELSE {Alerts[a]})

RemoveElement(S) ==
    LET gone == {a \in inPage : Outer(a) \cap S # {}}
    IN inPage' = inPage \ gone /\ fading' = fading \ gone /\ removes' = removes \ gone

\* One that fades and is not in any more has no transition that would end.
close(a) ==
    /\ a \in inPage /\ a \notin closed
    /\ in' = in \ {a} /\ closed' = closed \cup {a} /\ stuck' = stuck \cup ((fade \ in) \cap {a})
    /\ IF a \in fade
       THEN /\ removes' = removes \cup {a} /\ fading' = fading \cup (in \cap {a})
            /\ UNCHANGED inPage
       ELSE RemoveElement({a})
    /\ UNCHANGED fade

\* The event of the end goes on to the alerts around it.
TransitionEnd(a) ==
    /\ a \in fading
    /\ LET gone == {b \in inPage : Outer(b) \cap Outer(a) \cap removes # {}}
       IN inPage' = inPage \ gone /\ removes' = removes \ gone /\ fading' = fading \ (gone \cup {a})
    /\ UNCHANGED <<fade, in, closed, stuck>>

\* The page fades an alert in.
Appear(a) ==
    /\ a \in inPage \ (in \cup closed) /\ in' = in \cup {a}
    /\ fading' = fading \cup (fade \cap {a})
    /\ UNCHANGED <<fade, inPage, removes, closed, stuck>>

AlertInit ==
    /\ fade \in SUBSET DOMAIN Alerts /\ in \in SUBSET DOMAIN Alerts /\ inPage = DOMAIN Alerts
    /\ fading = {} /\ removes = {} /\ closed = {} /\ stuck = {}

AlertNext == \E a \in DOMAIN Alerts : close(a) \/ TransitionEnd(a) \/ Appear(a)

\* Only alerts that are closed, with those in them, leave the page; and those that could be
\* seen when they were closed have left it when nothing fades any more.
AlertsInStep ==
    /\ \A a \in DOMAIN Alerts \ inPage : Outer(a) \cap closed # {}
    /\ fading = {} => closed \cap inPage \subseteq stuck

------------------------------------------------------------------------------
(* Tabs with dropdowns, and the scroll spy, of bootstrap-tabs.js, -dropdown.js  *)
(* and -scrollspy.js. Each link has a pane, or a target in the page.            *)

CONSTANTS
    Links,      \* the links of the tabs, in their order
    Menu,       \* link -> the dropdown that it is in, or Null
    Heights,    \* of the targets that the spy watches
    Scrolls     \* where the page is scrolled to

------------------------------------------------------------------------------
(* tabs and dropdown.                                                         *)

VARIABLES
    active,     \* the links and dropdowns whose item is active
    panes,      \* the links whose pane is active
    open,       \* the dropdowns that are open
    told        \* the last change: [link, previous]; Null before

tabVars == <<active, panes, open, told>>

Menus == {Menu[l] : l \in ToSet(Links)} \ {Null}
Around(l) == IF Menu[l] = Null THEN {} ELSE {Menu[l]}

\* The links that "active" is found around, in the order of the page: all of a dropdown's.
Previous ==
    LET found == SelectSeq(Links, LAMBDA l : l \in active \/ Menu[l] \in active)
    IN IF found = <<>> THEN Null ELSE Last(found)

\* activate: the items of the list, with those in their dropdowns, and then the link's.
activate(l) ==
    LET outer == {x \in active : x \in Menus \/ Menu[x] = Null}
    IN (active \ (outer \cup {x \in active : x \notin Menus /\ Menu[x] \in outer})) \cup {l} \cup Around(l)

\* A click on a link goes on to html, which closes the menus.
tab(l) ==
    /\ open' = {}
    /\ IF l \in active THEN UNCHANGED <<active, panes, told>>
       ELSE /\ active' = activate(l) /\ panes' = {l}
            /\ told' = [link |-> l, previous |-> Previous]

\* A click on the head of a dropdown.
toggleMenu(m) == open' = {m} \ open /\ UNCHANGED <<active, panes, told>>

clearMenus == open # {} /\ open' = {} /\ UNCHANGED <<active, panes, told>>

TabsInit ==
    /\ \E l \in ToSet(Links) : active = {l} \cup Around(l) /\ panes = {l}
    /\ open = {} /\ told = Null

TabsNext ==
    \/ \E l \in ToSet(Links) : tab(l)
    \/ \E m \in Menus : toggleMenu(m)
    \/ clearMenus

\* However the links in and outside of dropdowns are clicked, one is active, with the
\* dropdown that it is in and its pane, and one menu is open at most.
TabsInStep ==
    /\ \E l \in ToSet(Links) : active = {l} \cup Around(l) /\ panes = {l}
    /\ Cardinality(open) <= 1

\* A change tells the link that was active, if it is in no dropdown.
Tells == told' # told => \A l \in active \ Menus : Menu[l] = Null => told'.previous = l

------------------------------------------------------------------------------
(* scrollspy.                                                                 *)

VARIABLES
    tops,       \* where the targets are, from the top of the page to its end
    offsets,    \* where they were when the spy looked
    seen,       \* when the spy last acted: [top: scrollTop, with 10 more; at: offsets; tops]
    activeTarget

spyVars == <<tops, offsets, seen, activeTarget>>

\* The targets from the last to the first: activeTarget is read before, and a later one, which is
\* above, takes over.
Spied(top, at, now) ==
    LET hit(i) == now # i /\ top >= at[i] /\ (i = Len(at) \/ at[i + 1] = 0 \/ top <= at[i + 1])
        hits == {i \in DOMAIN at : hit(i)}
    IN IF hits = {} THEN now ELSE Min(hits)

\* A scroll, or a click on a link of the bar before its scroll.
processScroll ==
    /\ \E top \in Scrolls :
          /\ seen' = [top |-> top, at |-> offsets, tops |-> tops]
          /\ activeTarget' = Spied(top, offsets, activeTarget)
    /\ UNCHANGED <<tops, offsets>>

refresh == offsets # tops /\ offsets' = tops /\ UNCHANGED <<tops, seen, activeTarget>>

\* The page's content grows or shrinks above a target.
Resized ==
    /\ \E k \in DOMAIN tops, d \in {-1, 1} :
          LET moved == [i \in DOMAIN tops |-> IF i < k THEN tops[i] ELSE tops[i] + d]
          IN /\ \A i \in DOMAIN moved : moved[i] \in Heights
             /\ \A i \in 1 .. Len(moved) - 1 : moved[i] < moved[i + 1]
             /\ tops' = moved
    /\ UNCHANGED <<offsets, seen, activeTarget>>

SpyInit ==
    /\ tops \in {s \in [1 .. 3 -> Heights] : \A i \in 1 .. 2 : s[i] < s[i + 1]}
    /\ offsets = tops
    /\ \E top \in Scrolls :
          seen = [top |-> top, at |-> offsets, tops |-> tops] /\ activeTarget = Spied(top, offsets, Null)

SpyNext == processScroll \/ refresh \/ Resized

\* If the targets were where the spy takes them to be when it last acted, the active target is
\* the one that the page showed; where one begins it may be the one before. Above the first
\* one the last that was active stays.
SpyInStep ==
    LET above == {i \in DOMAIN tops : seen.tops[i] <= seen.top}
        begins == {i \in above : i > 1 /\ seen.tops[i] = seen.top}
    IN seen.at = seen.tops /\ above # {} =>
           activeTarget \in {Max(above)} \cup {i - 1 : i \in begins}
==============================================================================
