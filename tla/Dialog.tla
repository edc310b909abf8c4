-------------------------------- MODULE Dialog --------------------------------
(* The dialog of bootstrap-modal.js: show and hide with the transitions of the *)
(* dialog and of its backdrop, and the timeout in case the dialog's transition *)
(* does not end. A transition is shorter than the timeout. Any transition may  *)
(* be over without an event.                                                   *)
EXTENDS Integers, FiniteSets, SequencesExt, Functions

CONSTANTS
    Null,
    Options,    \* the settings that the page gives: [backdrop, keyboard, show]
    MaxCalls    \* bound: how often the page calls

VARIABLES
    settings,   \* of the modal; Null before the first call
    isShown,
    element,    \* [fade: it has transitions; shown, in, moving, ones: the handlers of transitionEnd]
    timeouts,   \* timeout -> what moved when it was set, and still does
    backdrop,   \* $backdrop
    backs,      \* the backdrops in the page -> [in, moving, ones]
    keyups,     \* how many handlers of keyup.modal there are
    thrown,     \* a callback of a transition ended in an error
    dropped,    \* the transition of a backdrop was over without an event
    early,      \* the dialog was shown when it was, or when it or a backdrop was on its way out
    calls

dialogVars == <<settings, isShown, element, timeouts, backdrop, backs, keyups, thrown, dropped, early, calls>>

State == [settings |-> settings, isShown |-> isShown, element |-> element, timeouts |-> timeouts,
          backdrop |-> backdrop, backs |-> backs, keyups |-> keyups, thrown |-> thrown, early |-> early]

Becomes(s) ==
    /\ settings' = s.settings /\ isShown' = s.isShown /\ element' = s.element /\ timeouts' = s.timeouts
    /\ backdrop' = s.backdrop /\ backs' = s.backs /\ keyups' = s.keyups /\ thrown' = s.thrown /\ early' = s.early

Init ==
    /\ settings = Null /\ isShown = FALSE /\ timeouts = <<>> /\ backdrop = Null /\ backs = <<>>
    /\ \E fade \in BOOLEAN : element = [fade |-> fade, shown |-> FALSE, in |-> FALSE, moving |-> FALSE, ones |-> <<>>]
    /\ keyups = 0 /\ thrown = FALSE /\ dropped = FALSE /\ early = FALSE /\ calls = 0

Itself == 0     \* the dialog, among the backdrops
Moving(s) == (IF s.element.moving THEN {Itself} ELSE {}) \cup {b \in DOMAIN s.backs : s.backs[b].moving}
New(S) == CHOOSE n \in 1 .. Cardinality(S) + 1 : n \notin S
Without(f, k) == Restrict(f, DOMAIN f \ {k})
\* A transition of x that is over, or is turned round.
Over(s, x) == [s EXCEPT !.timeouts = [t \in DOMAIN s.timeouts |-> s.timeouts[t] \ {x}]]

------------------------------------------------------------------------------
(* show.                                                                      *)

\* What follows the transition of the backdrop: the dialog fades in, whether it is still
\* to be shown or not.
Appear(s) ==
    LET fadesIn == s.element.fade /\ ~(s.element.shown /\ s.element.in)
    IN [(IF fadesIn THEN Over(s, Itself) ELSE s) EXCEPT
           !.element = [fade |-> @.fade, shown |-> TRUE, in |-> TRUE, moving |-> fadesIn \/ @.moving,
                        ones |-> IF @.fade THEN Append(@.ones, <<"shown">>) ELSE @.ones]]

\* backdrop, when the dialog is shown: a new one takes the place of $backdrop.
MakeBackdrop(s, ones) ==
    LET b == New(DOMAIN s.backs)
    IN [s EXCEPT !.backdrop = b, !.backs = (b :> [in |-> TRUE, moving |-> s.element.fade, ones |-> ones]) @@ s.backs]

Show(s) ==
    LET shown == [s EXCEPT !.isShown = TRUE, !.keyups = IF s.settings.keyboard THEN @ + 1 ELSE @,
                           !.early = @ \/ s.isShown \/ s.backdrop # Null \/ s.timeouts # <<>>]
    IN IF ~s.settings.backdrop THEN Appear(shown)
       ELSE IF s.element.fade THEN MakeBackdrop(shown, <<<<"appear">>>>)
       ELSE Appear(MakeBackdrop(shown, <<>>))

------------------------------------------------------------------------------
(* hide.                                                                      *)

\* The backdrop that is removed is $backdrop, whichever's transition has ended.
RemoveBackdrop(s) ==
    IF s.backdrop = Null THEN [s EXCEPT !.thrown = TRUE]
    ELSE Over([s EXCEPT !.backs = Without(@, s.backdrop), !.backdrop = Null], s.backdrop)

DropBackdrop(s) ==
    IF ~s.element.fade THEN RemoveBackdrop(s)
    ELSE LET gone == s.backdrop \notin DOMAIN s.backs
             turned == Over(s, s.backdrop)
         IN IF gone THEN s
            ELSE [turned EXCEPT !.backs[s.backdrop] = [in |-> FALSE, moving |-> @.moving \/ @.in,
                                                        ones |-> Append(@.ones, <<"remove">>)]]

\* A dialog that is shown again in the meantime is hidden too, and gets a second backdrop.
HideModal(s) ==
    LET hidden == Over([s EXCEPT !.element.shown = FALSE, !.element.moving = FALSE], Itself)
    IN IF s.isShown /\ s.settings.backdrop THEN MakeBackdrop(hidden, <<>>)
       ELSE IF ~s.isShown /\ s.backdrop # Null THEN DropBackdrop(hidden) ELSE hidden

\* hideWithTransition: the first of the transition's end and the timeout.
HideWithTransition(s) ==
    LET t == New(DOMAIN s.timeouts)
    IN [s EXCEPT !.element.ones = Append(@, <<"hide", t>>), !.timeouts = (t :> Moving(s)) @@ @]

Hide(s) ==
    LET fadesOut == s.element.fade /\ s.element.shown /\ s.element.in
        fading == [(IF fadesOut THEN Over(s, Itself) ELSE s) EXCEPT
                      !.isShown = FALSE, !.keyups = 0, !.element.in = FALSE, !.element.moving = @ \/ fadesOut]
    IN IF ~s.isShown THEN s ELSE IF s.element.fade THEN HideWithTransition(fading) ELSE HideModal(fading)

Toggle(s) == IF s.isShown THEN Hide(s) ELSE Show(s)

------------------------------------------------------------------------------
(* The page's calls.                                                          *)

\* new Modal: a method's name gives no settings but show.
Create(options) ==
    /\ settings = Null
    /\ LET made == [State EXCEPT !.settings = options] IN Becomes(IF options.show THEN Show(made) ELSE made)

Named(method) == [backdrop |-> FALSE, keyboard |-> FALSE, show |-> method \in {"show", "toggle"}]

\* Once there is one, settings are ignored.
Call(method) ==
    /\ settings # Null
    /\ Becomes(CASE method = "show" -> Show(State) [] method = "hide" -> Hide(State) [] OTHER -> Toggle(State))

modal ==
    /\ calls < MaxCalls /\ calls' = calls + 1 /\ UNCHANGED dropped
    /\ \/ \E options \in Options : Create(options) \/ Call("toggle")
       \/ \E method \in {"show", "hide", "toggle"} : Create(Named(method)) \/ Call(method)

\* The close button, the escape key, and a click on a backdrop that is not static.
UserHides ==
    /\ settings # Null /\ isShown /\ (element.shown \/ keyups > 0 \/ backs # <<>>)
    /\ Becomes(Hide(State)) /\ UNCHANGED <<calls, dropped>>

------------------------------------------------------------------------------
(* Transitions and timeouts.                                                  *)

Handle(s, h) ==
    IF s.thrown THEN s
    ELSE CASE h[1] = "shown" -> s
           [] h[1] = "appear" -> Appear(s)
           [] h[1] = "remove" -> RemoveBackdrop(s)
           [] h[1] = "hide" -> HideModal([s EXCEPT !.timeouts = Without(@, h[2])])

\* Each handler is called once.
Called(s, handlers) == FoldLeft(Handle, s, handlers)

BackdropEnds(b) ==
    /\ backs[b].moving /\ UNCHANGED calls
    /\ Becomes(Called(Over([State EXCEPT !.backs[b].moving = FALSE, !.backs[b].ones = <<>>], b), backs[b].ones))
    /\ UNCHANGED dropped

\* A transition of a backdrop that ends without an event: nothing else tells its handlers,
\* which wait for the next one.
BackdropStops(b) ==
    /\ backs[b].moving /\ dropped' = TRUE /\ UNCHANGED calls
    /\ Becomes(Over([State EXCEPT !.backs[b].moving = FALSE], b))

\* The transition of the dialog ends; or one in it, which bubbles to the same handlers.
DialogEnds ==
    /\ element.shown /\ UNCHANGED <<calls, dropped>>
    /\ \E ended \in {"dialog", "child"} :
          /\ ended = "dialog" => element.moving
          /\ ended = "child" => element.ones # <<>>
          /\ LET over == IF ended = "dialog" THEN Over([State EXCEPT !.element.moving = FALSE], Itself) ELSE State
             IN Becomes(Called([over EXCEPT !.element.ones = <<>>], element.ones))

\* A transition of the dialog that ends without an event.
DialogStops ==
    /\ element.moving /\ UNCHANGED <<calls, dropped>>
    /\ Becomes(Over([State EXCEPT !.element.moving = FALSE], Itself))

\* The timeout takes every handler of the dialog's transitions with it.
Timeout(t) ==
    /\ timeouts[t] = {} /\ UNCHANGED <<calls, dropped>>
    /\ Becomes(HideModal([State EXCEPT !.timeouts = Without(@, t), !.element.ones = <<>>]))

Next ==
    \/ modal \/ UserHides \/ DialogEnds \/ DialogStops
    \/ \E b \in DOMAIN backs : BackdropEnds(b) \/ BackdropStops(b)
    \/ \E t \in DOMAIN timeouts : Timeout(t)

\* What the browser does by itself: transitions are over at some time, and timeouts come.
Browser ==
    \/ DialogStops
    \/ \E b \in DOMAIN backs : BackdropEnds(b) \/ BackdropStops(b)
    \/ \E t \in DOMAIN timeouts : Timeout(t)

------------------------------------------------------------------------------
(* Properties.                                                                *)

Quiet == Moving(State) = {} /\ timeouts = <<>>

\* A dialog that is not shown too early has one backdrop and one handler of keyup at most,
\* whatever transitions have no end; if those of the backdrops have one, it is displayed,
\* with its backdrop, just when it is shown, once nothing moves any more (bootstrap-modal.js
\* show, hide, hideModal, backdrop). Without it, the dialog is not displayed, or is there for
\* good, or its backdrop is.
DialogInStep ==
    /\ isShown => (settings.keyboard <=> keyups > 0)
    /\ ~early =>
        /\ ~thrown /\ keyups <= 1 /\ Cardinality(DOMAIN backs) <= 1
        /\ Quiet /\ ~dropped =>
            /\ element.shown <=> isShown
            /\ backs # <<>> <=> isShown /\ settings.backdrop

\* A dialog that is not shown too early is not displayed for ever after it was hidden, even
\* if its own transition has no end (bootstrap-modal.js hideWithTransition).
Resting == ~early /\ ~dropped /\ ~isShown => ~element.shown
==============================================================================
