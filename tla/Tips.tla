--------------------------------- MODULE Tips ---------------------------------
(* The tips and popovers of bootstrap-twipsy.js and bootstrap-popover.js: one   *)
(* element, the pointer that comes and goes, the delays, the tip that fades,    *)
(* and the calls of the page.                                                   *)
EXTENDS Integers, FiniteSets

CONSTANTS
    Null,
    Options,    \* [kind: "twipsy" or "popover"; animate; delayIn, delayOut: whether there is one]
    Titles,     \* what the page gives as a title: "" or a text
    MaxDelays,  \* bound: how many delays of a kind run
    MaxCalls    \* bound: how often the page calls

VARIABLES
    options,
    title, originalTitle,   \* the attributes of the element; Null when there is none
    content,                \* data-content
    enabled, hoverState,
    tip,        \* $tip: [inPage, in, fade, text, removes: removeElement waits for transitionEnd]; Null before its first use
    fading,     \* a transition of the tip goes on
    timers,     \* the delays that run: "in", "out" -> how many
    gone,       \* validate found the element out of the page
    thrown, called, calls

tipVars == <<options, title, originalTitle, content, enabled, hoverState, tip, fading, timers, gone,
             thrown, called, calls>>

State == [title |-> title, originalTitle |-> originalTitle, tip |-> tip, fading |-> fading, thrown |-> thrown]

Becomes(s) ==
    /\ title' = s.title /\ originalTitle' = s.originalTitle /\ tip' = s.tip /\ fading' = s.fading
    /\ thrown' = s.thrown

------------------------------------------------------------------------------
(* The content.                                                               *)

\* fixTitle: the title is kept in another attribute, so that the browser does not show it.
FixTitle(s) ==
    IF s.title \in {Null, ""} /\ s.originalTitle # Null THEN s
    ELSE [s EXCEPT !.originalTitle = IF s.title = Null THEN "" ELSE s.title, !.title = Null]

\* A popover has a content too.
Content == IF options.kind = "popover" THEN content ELSE Null

\* hasContent, after its getTitle.
HasContent(s) == s.originalTitle # "" \/ Content \notin {Null, ""}

\* setContent, which takes every class but its own from the tip.
SetContent(s) ==
    [s EXCEPT !.tip = [inPage |-> @.inPage, in |-> FALSE, fade |-> FALSE, removes |-> @.removes,
                       text |-> <<s.originalTitle, Content>>]]

NewTip == [inPage |-> FALSE, in |-> FALSE, fade |-> FALSE, removes |-> FALSE, text |-> Null]
Tip(s) == IF s.tip = Null THEN [s EXCEPT !.tip = NewTip] ELSE s

------------------------------------------------------------------------------
(* show, hide, toggle.                                                        *)

\* The tip is taken from the page and put there again, which loses its handlers: a
\* transition that still goes on no longer removes it.
PutTipFading(s) ==
    LET full == SetContent(Tip(s))
    IN [full EXCEPT !.tip.fade = options.animate, !.tip.inPage = TRUE, !.tip.in = TRUE, !.fading = options.animate]

PutTip(s) ==
    LET full == SetContent(Tip(s))
    IN [full EXCEPT !.tip.fade = options.animate, !.tip.inPage = TRUE, !.tip.removes = FALSE, !.tip.in = TRUE,
                    !.fading = options.animate]

Show(s) ==
    IF gone THEN [s EXCEPT !.thrown = TRUE]
    ELSE IF HasContent(FixTitle(s)) /\ enabled THEN PutTip(FixTitle(s)) ELSE FixTitle(s)

Hide(s) ==
    LET made == Tip(s)
        hidden == [made EXCEPT !.tip.in = FALSE, !.fading = @ \/ (options.animate /\ made.tip.in)]
    IN IF made.tip.fade THEN [hidden EXCEPT !.tip.removes = TRUE]
       ELSE [hidden EXCEPT !.tip.inPage = FALSE, !.tip.removes = FALSE, !.fading = FALSE]

Toggle(s) == IF Tip(s).tip.in THEN Hide(s) ELSE Show(Tip(s))

------------------------------------------------------------------------------
(* The pointer, the delays, and the end of a transition.                      *)

Unhindered == UNCHANGED <<options, content, enabled, gone, calls>>

enter ==
    /\ ~gone /\ hoverState # "in" /\ timers["in"] < MaxDelays
    /\ hoverState' = "in" /\ called' = FALSE
    /\ Becomes(IF options.delayIn THEN FixTitle(State) ELSE Show(State))
    /\ timers' = [timers EXCEPT !["in"] = IF options.delayIn THEN @ + 1 ELSE @]
    /\ Unhindered

leave ==
    /\ ~gone /\ hoverState = "in" /\ timers["out"] < MaxDelays
    /\ hoverState' = "out" /\ called' = FALSE
    /\ Becomes(IF options.delayOut THEN State ELSE Hide(State))
    /\ timers' = [timers EXCEPT !["out"] = IF options.delayOut THEN @ + 1 ELSE @]
    /\ Unhindered

\* A delay is over: it counts if the pointer is, again, where it was.
Timer(way) ==
    /\ timers[way] > 0
    /\ timers' = [timers EXCEPT ![way] = @ - 1]
    /\ Becomes(IF hoverState # way THEN State ELSE IF way = "in" THEN Show(State) ELSE Hide(State))
    /\ UNCHANGED <<hoverState, called>> /\ Unhindered

TransitionEnd ==
    /\ fading
    /\ Becomes([State EXCEPT !.fading = FALSE, !.tip.inPage = @ /\ ~tip.removes, !.tip.removes = FALSE])
    /\ UNCHANGED <<hoverState, called, timers>> /\ Unhindered

------------------------------------------------------------------------------
(* The page.                                                                  *)

PageCalls ==
    /\ calls < MaxCalls /\ calls' = calls + 1 /\ called' = TRUE
    /\ UNCHANGED <<options, hoverState, timers>>

call ==
    /\ PageCalls
    /\ \E s \in {Show(State), Hide(State), Toggle(State)} : Becomes(s)
    /\ UNCHANGED <<content, enabled, gone>>

\* enable, disable and toggleEnabled.
switch == PageCalls /\ enabled' = ~enabled /\ Becomes(State) /\ UNCHANGED <<content, gone>>

\* The element was taken out of the page; one that is looked at twice is none.
validate ==
    /\ PageCalls
    /\ gone' = TRUE
    /\ Becomes(IF gone THEN [State EXCEPT !.thrown = TRUE] ELSE Hide(State))
    /\ UNCHANGED <<content, enabled>>

setAttribute ==
    /\ PageCalls /\ ~gone
    /\ \E t \in Titles :
          \/ Becomes([State EXCEPT !.title = t]) /\ UNCHANGED content
          \/ content' = t /\ Becomes(State)
    /\ UNCHANGED <<enabled, gone>>

Init ==
    /\ options \in Options
    /\ \E t \in Titles \cup {Null} :
          /\ title = Null /\ originalTitle = (IF t = Null THEN "" ELSE t)
          /\ content \in {t, Null}
    /\ enabled = TRUE /\ hoverState = Null /\ tip = Null /\ fading = FALSE
    /\ timers = [way \in {"in", "out"} |-> 0]
    /\ gone = FALSE /\ thrown = FALSE /\ called = FALSE /\ calls = 0

Next ==
    \/ enter \/ leave \/ TransitionEnd \/ call \/ switch \/ validate \/ setAttribute
    \/ \E way \in {"in", "out"} : Timer(way)

------------------------------------------------------------------------------
(* Properties.                                                                *)

\* When nothing goes on, and the page did not interfere since the pointer came or left, the
\* tip of an element is in the page if the pointer is over it, with the texts that the
\* element has now and without the browser's own, and is not if it has left, however the
\* delays and transitions of earlier visits came (bootstrap-twipsy.js enter, leave, show, hide).
TipInStep ==
    /\ thrown => gone
    /\ ~fading /\ timers["in"] = 0 /\ timers["out"] = 0 /\ ~called =>
        /\ hoverState = "out" => tip = Null \/ ~tip.inPage
        /\ hoverState = "in" /\ enabled /\ HasContent(FixTitle(State)) =>
            /\ tip # Null /\ tip.inPage /\ title \in {Null, ""}
            /\ tip.text = <<originalTitle, Content>>
==============================================================================
