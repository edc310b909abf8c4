------------------------------- MODULE Gestures -----------------------------
(* d3.svg.brush with an x-scale: the extent that the pointer and the keys     *)
(* make, move and resize, and the extent in the data's own values.            *)
(* d3.behavior.zoom with a mouse and with fingers, in one dimension, over an  *)
(* x-scale. A place is a point of the screen; a location is a point of what   *)
(* is zoomed, in parts of 1 / MaxScale of its unit.                           *)
EXTENDS Integers, FiniteSets, FiniteSetsExt

CONSTANTS
    Null,
    Width,      \* the range of the brush's scale is 0 .. Width, in pixels
    PixelsPer,  \* its scale: a value is so many pixels wide
    MaxScale,   \* scaleExtent is <<1, MaxScale>>; scales are powers of two
    Places,     \* where the mouse and the fingers can be
    Finger,     \* the touches' identifiers, which are numbers; the first finger is the least
    Lost,       \* NaN, as the translation of a view that shows nothing any more
    Far         \* bound: how far anything is translated

VARIABLES
    extent,         \* <<x0, x1>>, in pixels
    extentDomain,   \* what the extent was set to, in values, until it is moved
    shown,          \* the extent that redrawX and redraw have drawn last
    handles,        \* the resize handles are displayed
    gesture,        \* the variables of brushstart while the window's listeners are set
    pointer,        \* where the pointer is, and whether alt is held
    heard,          \* the last event: [type, mode]
    astray,         \* history: the extent was moved with the space bar while a centre was kept
    translate, scale,
    translate0,     \* what translate0 holds: where the mouse was when the wheel began to turn, or Null
    touched0,       \* or where the fingers were set down, or Null
    scale0,         \* the scale when the fingers were set down
    pressed,        \* the location that mousedown took while the window's listeners are set
    mouse,          \* the place of the mouse
    fingers,        \* the fingers that are down -> their places
    domain,         \* the domain of x1 at the last dispatch: <<place of 0, parts of a unit>>
    meddled         \* history: the view was set by the page since the wheel began to turn

------------------------------------------------------------------------------
(* The brush.                                                                 *)

Pixels == 0 .. Width
Pointers == [x : -1 .. Width + 1, alt : BOOLEAN]

BrushInit ==
    /\ extent = <<0, 0>> /\ extentDomain = Null /\ shown = <<0, 0>>
    /\ handles = FALSE /\ gesture = Null /\ pointer = [x |-> 0, alt |-> FALSE]
    /\ heard = Null /\ astray = FALSE

empty(e) == e[1] = e[2]

------------------------------------------------------------------------------

Clamp(low, high, x) == Max({low, Min({high, x})})

\* Mutant: the ends are not put in order.
MovedAsGiven(g, point) ==
    LET size == extent[2] - extent[1]
        start == Clamp(-g.origin, Width - size - g.origin, point) + g.origin
        end == Clamp(0, Width, point)
        other == IF g.center # Null THEN Clamp(0, Width, g.center - end) ELSE g.origin
    IN IF g.dragging # "no" THEN <<start, start + size>> ELSE <<other, end>>

\* The extent for the gesture g when the pointer's point is there.
Moved(g, point) ==
    LET size == extent[2] - extent[1]
        start == Clamp(-g.origin, Width - size - g.origin, point) + g.origin
        end == Clamp(0, Width, point)
        other == IF g.center # Null THEN Clamp(0, Width, g.center - end) ELSE g.origin
    IN IF g.dragging # "no" THEN <<start, start + size>> ELSE <<Min({other, end}), Max({other, end})>>

\* With alt the centre stays, and the end that the pointer is not at is the origin. The
\* centre is twice what it is.
Adjusted(g, p) ==
    LET center == IF ~p.alt THEN Null ELSE IF g.center # Null THEN g.center ELSE extent[1] + extent[2]
        at == IF 2 * (p.x + g.offset) < center THEN 2 ELSE 1
    IN IF g.dragging # "no" THEN g
       ELSE [g EXCEPT !.center = center, !.origin = IF p.alt THEN extent[at] ELSE @]

\* Bound: an extent that has left the range is followed so far.
InRoom(e) == e[1] >= -Width /\ e[2] <= 2 * Width

\* brushmove.
brushmove(g0, p) ==
    LET g == Adjusted(g0, p)
        moved == Moved(g, p.x + g.offset)
        mode == IF g.dragging # "no" THEN "move" ELSE "resize"
    IN /\ gesture' = g /\ pointer' = p
       /\ extent' = moved /\ InRoom(moved)
       /\ extentDomain' = IF moved # extent THEN Null ELSE extentDomain
       /\ shown' = IF moved # extent THEN moved ELSE shown
       /\ heard' = IF moved # extent THEN [type |-> "brush", mode |-> mode] ELSE heard

\* brushstart: on the extent, which is dragged, on a handle, whose end follows the
\* pointer, or on the background.
brushstart(p, target) ==
    LET g == [dragging |-> "no", origin |-> p.x, center |-> Null, offset |-> 0]
        ex == IF target = "w" THEN 2 ELSE 1
    IN /\ gesture = Null /\ p.x \in Pixels
       /\ target \in {"w", "e"} => handles
       /\ target = "extent" => extent[1] <= p.x /\ p.x < extent[2]
       /\ target = "w" => p.x - extent[1] \in -1 .. 1
       /\ target = "e" => p.x - extent[2] \in -1 .. 1
       /\ handles' = TRUE /\ astray' = (astray /\ (target # "background" \/ p.alt))
       /\ brushmove(CASE target = "extent" -> [g EXCEPT !.dragging = "extent", !.origin = extent[1] - p.x]
                      [] target \in {"w", "e"} -> [g EXCEPT !.offset = extent[3 - ex] - p.x, !.origin = extent[ex]]
                      [] target = "background" -> [g EXCEPT !.center = IF p.alt THEN 2 * p.x ELSE Null], p)

brushmoved(p) == gesture # Null /\ brushmove(gesture, p) /\ UNCHANGED <<handles, astray>>

\* brushend: moves once more, and takes the window's listeners away.
brushend(p) ==
    /\ gesture # Null
    /\ extent' = Moved(Adjusted(gesture, p), p.x + gesture.offset) /\ InRoom(extent')
    /\ shown' = extent' /\ extentDomain' = IF extent' # extent THEN Null ELSE extentDomain
    /\ handles' = ~empty(extent')
    /\ gesture' = Null /\ pointer' = p /\ heard' = [type |-> "brushend", mode |-> Null]
    /\ UNCHANGED astray

\* keydown, keyup of the space bar: the extent is moved while it is held. With alt the
\* origin is an end that the extent had before the last move, so that the extent comes
\* back from this with an origin that may be out of the range.
keydown ==
    /\ gesture # Null /\ gesture.dragging = "no"
    /\ gesture' = [gesture EXCEPT !.center = Null, !.origin = @ - extent[2], !.dragging = "space"]
    /\ astray' = (astray \/ gesture.center # Null)
    /\ UNCHANGED <<extent, extentDomain, shown, handles, pointer, heard>>

keyup ==
    /\ gesture # Null /\ gesture.dragging = "space"
    /\ gesture' = [gesture EXCEPT !.origin = @ + extent[2], !.dragging = "no"]
    /\ UNCHANGED <<extent, extentDomain, shown, handles, pointer, heard, astray>>

\* brush.extent(z), clear and the drawing of the brush, which follow each other, between
\* gestures.
setExtent(x0, x1) ==
    /\ gesture = Null
    /\ extentDomain' = <<x0, x1>>
    /\ extent' = <<Min({x0, x1}) * PixelsPer, Max({x0, x1}) * PixelsPer>>
    /\ shown' = extent' /\ handles' = ~empty(extent') /\ astray' = FALSE
    /\ UNCHANGED <<gesture, pointer, heard>>

clear ==
    /\ gesture = Null
    /\ extentDomain' = Null /\ extent' = <<0, 0>> /\ shown' = extent' /\ handles' = FALSE
    /\ astray' = FALSE
    /\ UNCHANGED <<gesture, pointer, heard>>

BrushNext ==
    \/ \E p \in Pointers, target \in {"extent", "w", "e", "background"} : brushstart(p, target)
    \/ \E p \in Pointers : brushmoved(p) \/ brushend(p)
    \/ keydown \/ keyup \/ clear
    \/ \E x0, x1 \in 0 .. Width \div PixelsPer : setExtent(x0, x1)

------------------------------------------------------------------------------
(* Properties.                                                                *)

\* Whatever gestures and keys come in whatever order: the extent is the right way round
\* and is what is drawn, and extent() gives what it was set to or where it was moved to.
\* And it lies in the range, unless the space bar was pressed while a centre was kept.
ExtentHeld ==
    /\ extent[1] <= extent[2] /\ shown = extent
    /\ ~astray => {extent[1], extent[2]} \subseteq Pixels
    /\ extentDomain # Null => {z * PixelsPer : z \in {extentDomain[1], extentDomain[2]}} = {extent[1], extent[2]}
    /\ gesture = Null => handles = ~empty(extent)

\* What is moved keeps its size and goes as far as the pointer, or to the end of the range;
\* what is resized keeps the end that the pointer is not at or, with alt, its centre,
\* unless this takes it to the end of the range. (Not of an extent that has left the range.)
MovesAsAsked ==
    gesture # Null /\ ~astray' =>
       IF gesture.dragging # "no"
       THEN /\ extent'[2] - extent'[1] = extent[2] - extent[1]
            /\ extent[1] > 0 /\ extent[2] < Width =>
                   extent'[1] - extent[1] = pointer'.x - pointer.x \/ extent'[1] = 0 \/ extent'[2] = Width
       ELSE IF pointer'.alt
       THEN gesture.center # Null => extent'[1] + extent'[2] = gesture.center \/ extent'[1] = 0 \/ extent'[2] = Width
       ELSE gesture.center = Null => gesture.origin \in {extent'[1], extent'[2]}

------------------------------------------------------------------------------
(* Zooming.                                                                   *)

ZoomInit ==
    /\ translate = 0 /\ scale = 1 /\ translate0 = Null /\ touched0 = Null /\ scale0 = 1 /\ meddled = FALSE
    /\ pressed = Null /\ mouse = 0 /\ fingers = <<>> /\ domain = <<0, 1>>

location(p) == ((p - translate) * MaxScale) \div scale
point(l, t, s) == (l * s) \div MaxScale + t
scaleTo(s) == Max({1, Min({MaxScale, s})})

\* translateTo(p, l) when the scale is s, and dispatch, which sets the scales' domains.
\* Bound: to whole places, not beyond Far.
translateTo(p, l, s) ==
    /\ (l * s) % MaxScale = 0 /\ translate + p - point(l, translate, s) \in -Far .. Far
    /\ scale' = s
    /\ translate' = translate + p - point(l, translate, s)
    /\ domain' = <<translate', scale'>>

\* translateTo(p, l) for an l that is no location: the sums with undefined are NaN.
loseView(s) == scale' = s /\ translate' = Lost /\ domain' = <<Lost, s>>

\* zoom.translate([0, 0]).scale(1), which dispatches nothing.
reset ==
    /\ translate' = 0 /\ scale' = 1 /\ meddled' = TRUE
    /\ UNCHANGED <<translate0, touched0, scale0, pressed, mouse, fingers, domain>>

------------------------------------------------------------------------------
(* The mouse: the element's own mousemove and, while it is pressed, that of   *)
(* the window.                                                                *)

mousedown ==
    /\ pressed = Null /\ pressed' = location(mouse)
    /\ UNCHANGED <<translate, scale, translate0, touched0, scale0, mouse, fingers, domain, meddled>>

\* Mutant: the location that the wheel took is kept when the mouse moves.
mousemoveOnly(p) ==
    /\ mouse' = p
    /\ IF pressed = Null THEN UNCHANGED <<translate, scale, domain>> ELSE translateTo(p, pressed, scale)
    /\ UNCHANGED <<translate0, touched0, scale0, pressed, fingers, meddled>>

mousemove(p) ==
    /\ mouse' = p /\ translate0' = Null /\ touched0' = Null /\ meddled' = FALSE
    /\ IF pressed = Null THEN UNCHANGED <<translate, scale, domain>> ELSE translateTo(p, pressed, scale)
    /\ UNCHANGED <<scale0, pressed, fingers>>

mouseup ==
    /\ pressed # Null /\ pressed' = Null
    /\ UNCHANGED <<translate, scale, translate0, touched0, scale0, mouse, fingers, domain, meddled>>

\* mousewheel: the first since the mouse moved takes the location that stays. Where fingers
\* were set down since, their locations are in its place: those are no location.
mousewheel(s) ==
    /\ IF translate0 # Null \/ touched0 # Null THEN UNCHANGED <<translate0, meddled>>
       ELSE translate0' = location(mouse) /\ meddled' = FALSE
    /\ IF touched0 # Null THEN loseView(scaleTo(s)) ELSE translateTo(mouse, translate0', scaleTo(s))
    /\ UNCHANGED <<touched0, scale0, pressed, mouse, fingers>>

dblclick(shift) ==
    /\ pressed = Null
    /\ translateTo(mouse, location(mouse), scaleTo(IF shift THEN scale \div 2 ELSE 2 * scale))
    /\ UNCHANGED <<translate0, touched0, scale0, pressed, mouse, fingers, meddled>>

------------------------------------------------------------------------------
(* Fingers.                                                                   *)

locations(f) == [i \in DOMAIN f |-> location(f[i])]

\* touchstart, which is also called when a finger is lifted; the second of two taps zooms.
touchstart(f, tapped) ==
    LET first == Min(DOMAIN f)
    IN /\ fingers' = f /\ scale0' = scale /\ translate0' = Null /\ touched0' = locations(f)
       /\ IF Cardinality(DOMAIN f) = 1 /\ tapped
          THEN translateTo(f[first], location(f[first]), scaleTo(2 * scale))
          ELSE UNCHANGED <<translate, scale, domain>>
       /\ UNCHANGED <<pressed, mouse, meddled>>

\* touchmove: with two fingers, of which the middle stays; factor is event.scale, as a
\* fraction <<n, d>>. Where the mouse moved since the fingers were set down there is
\* nothing to look them up in; where the wheel turned then, the numbers of its location are
\* looked up, which are no locations, and beyond 1 nothing is found.
touchmove(f, factor) ==
    LET first == Min(DOMAIN f)
        second == Min(DOMAIN f \ {first})
        scaled == IF DOMAIN f = {first} THEN scale ELSE scaleTo((factor[1] * scale0) \div factor[2])
    IN /\ fingers # <<>> /\ DOMAIN f = DOMAIN fingers /\ fingers' = f
       /\ CASE touched0 # Null ->
                 IF DOMAIN f = {first} THEN translateTo(f[first], touched0[first], scaled)
                 ELSE LET sum == touched0[first] + touched0[second]
                      IN sum % 2 = 0 /\ translateTo((f[first] + f[second]) \div 2, sum \div 2, scaled)
            [] translate0 # Null /\ DOMAIN f \subseteq {0, 1} -> loseView(scaled)
            [] OTHER -> UNCHANGED <<translate, scale, domain>>  \* throws
       /\ UNCHANGED <<translate0, touched0, scale0, pressed, mouse, meddled>>

Mouse == mousedown \/ mouseup \/ (\E p \in Places : mousemove(p))
             \/ (\E s \in {2 * scale, scale \div 2} : mousewheel(s)) \/ (\E shift \in BOOLEAN : dblclick(shift))

\* Any finger moves, and one after the other is set down or lifted.
Touch ==
    \E D \in SUBSET Finger :
        \E f \in [D -> Places] :
            \/ /\ D # DOMAIN fingers /\ (D \subseteq DOMAIN fingers \/ DOMAIN fingers \subseteq D)
               /\ \A i \in D \cap DOMAIN fingers : f[i] = fingers[i]
               /\ \E tapped \in BOOLEAN : touchstart(f, tapped)
            \/ \E factor \in {<<1, 1>>, <<2, 1>>, <<1, 2>>} : touchmove(f, factor)

\* Bound: nothing but a reset happens to a view that is lost.
ZoomNext == (translate # Lost /\ (Mouse \/ Touch)) \/ reset

------------------------------------------------------------------------------
(* Properties.                                                                *)

\* Whatever mouse and fingers do in whatever order, the scale stays in its extent, and the
\* axes show what is on the screen, unless the page has set the view since. The view is lost
\* only to a wheel that turns after fingers were set down, or fingers that move after it,
\* before the mouse moves.
InView ==
    /\ scale \in 1 .. MaxScale
    /\ domain = <<translate, scale>> \/ (<<translate, scale>> = <<0, 1>>)
    /\ translate = Lost => translate0 # Null \/ touched0 # Null

\* What is under the mouse stays under it when the wheel turns, unless the page has set the
\* view or fingers were set down since it began to turn, and when a double click zooms; what
\* the mouse was pressed on moves with it; and what a finger was set down on or, with two,
\* what is in the middle moves with them, unless the mouse has moved or the wheel has
\* turned since: whatever has moved the view in between.
Pinned ==
    LET stays == location(mouse) = ((mouse - translate') * MaxScale) \div scale'
    IN translate # Lost =>
        /\ (\E s \in {2 * scale, scale \div 2} : mousewheel(s)) =>
              IF touched0 # Null THEN translate' = Lost ELSE meddled' \/ stays
        /\ (\E shift \in BOOLEAN : dblclick(shift)) => stays
        /\ (\E p \in Places : mousemove(p)) /\ pressed # Null => point(pressed, translate', scale') = mouse'
        /\ (\E factor \in {<<1, 1>>, <<2, 1>>, <<1, 2>>} : touchmove(fingers', factor)) =>
              touched0 = Null \/
                 LET sum(f) == MapThenSumSet(LAMBDA i : f[i], DOMAIN fingers)
                     n == Cardinality(DOMAIN fingers)
                 IN sum(touched0) * scale' = MaxScale * (sum(fingers') - n * translate')
=============================================================================
