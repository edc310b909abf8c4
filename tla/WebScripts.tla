------------------------------ MODULE WebScripts ------------------------------
(* The modules of the drawing libraries, and of the services behind the pages,  *)
(* side by side, as in WebClient: in a behaviour one of them, the subject,      *)
(* moves in the first of the slots, and the subjects that are algorithms have   *)
(* one step, which picks the input. The Vaadin manager and the file store,      *)
(* about which there are theorems, are there with the variables and constants   *)
(* of their modules.                                                            *)
EXTENDS Vaadin, Cafs, FiniteSets, TLC

CONSTANT NaN

VARIABLES subject, s1, s2, s3, s4, s5, s6, s7, s8, s9, s10, s11, s12, s13, s14

\* The slots that a subject leaves alone, from the n-th on.
Slots14 == s14
Slots13 == <<s13, Slots14>>
Slots12 == <<s12, Slots13>>
Slots11 == <<s11, Slots12>>
Slots10 == <<s10, Slots11>>
Slots9 == <<s9, Slots10>>
Slots8 == <<s8, Slots9>>
Slots7 == <<s7, Slots8>>
Slots6 == <<s6, Slots7>>
Slots5 == <<s5, Slots6>>
Slots4 == <<s4, Slots5>>
Slots3 == <<s3, Slots4>>
Slots2 == <<s2, Slots3>>
slots == <<subject, s1, Slots2>>

Off14 == s14 = Null
Off13 == s13 = Null /\ Off14
Off12 == s12 = Null /\ Off13
Off11 == s11 = Null /\ Off12
Off10 == s10 = Null /\ Off11
Off9 == s9 = Null /\ Off10
Off8 == s8 = Null /\ Off9
Off7 == s7 = Null /\ Off8
Off6 == s6 = Null /\ Off7
Off5 == s5 = Null /\ Off6
Off4 == s4 = Null /\ Off5
Off3 == s3 = Null /\ Off4
Off2 == s2 = Null /\ Off3

------------------------------------------------------------------------------
(* The subjects with a state of their own.                                    *)

Datum(key, value) == [key |-> key, value |-> value]
Times == {1, 2}
Page == INSTANCE DataJoin
    WITH Node <- <<"n1", "n2", "n3", "n4">>, Delay <- 3, Duration <- 4, FrameTimes <- Times, MaxDraws <- 3,
         Data <- {<<>>, <<Datum("a", "0")>>, <<Datum("a", "1"), Datum("b", "0")>>,
                  <<Datum("b", "0"), Datum("a", "0")>>, <<Datum("b", "1")>>},
         children <- s1, datum <- s2, attr <- s3, lock <- s4, queue <- s5, transitions <- s6,
         frame <- s7, timeout <- s8, drawn <- s9

Brushed == INSTANCE Gestures
    WITH Width <- 4, PixelsPer <- 2, MaxScale <- 1, Places <- {}, Finger <- {}, Lost <- Null, Far <- 0,
         extent <- s1, extentDomain <- s2, shown <- s3, handles <- s4, gesture <- s5, pointer <- s6, heard <- s7,
         astray <- s8, translate <- s9, scale <- s9, translate0 <- s9, scale0 <- s9, pressed <- s9, mouse <- s9,
         fingers <- s9, domain <- s9, meddled <- s9, touched0 <- s9

Wheel == INSTANCE Gestures
    WITH Width <- 0, PixelsPer <- 1, MaxScale <- 2, Places <- {0, 8}, Finger <- {1, 2}, Lost <- NaN, Far <- 8,
         translate <- s1, scale <- s2, translate0 <- s3, scale0 <- s4, pressed <- s5, mouse <- s6,
         fingers <- s7, domain <- s8, meddled <- s9, touched0 <- s10, extent <- s11, extentDomain <- s11,
         shown <- s11, handles <- s11, gesture <- s11, pointer <- s11, heard <- s11, astray <- s11

Component(id, unsatisfied) == [id |-> id, name |-> id, unsatisfied |-> unsatisfied]
Reference(name, bundle, using) == [name |-> name, bundle |-> bundle, using |-> using]
Two == [bundles |-> <<"a", "b">>, leds |-> [a |-> <<>>, b |-> <<Component("x", TRUE)>>],
        references |-> <<Reference("p", "a", <<"b">>)>>, listening |-> [p |-> <<"b">>]]
Three == [bundles |-> <<"a", "b", "c">>,
          leds |-> [a |-> <<>>, b |-> <<Component("x", FALSE), Component("y", TRUE)>>, c |-> <<>>],
          references |-> <<Reference("p", "a", <<"b">>), Reference("p", "a", <<>>), Reference("q", "c", <<>>)>>,
          listening |-> [p |-> <<"b">>, q |-> <<"a">>]]
One == [bundles |-> <<"a">>, leds |-> [a |-> <<>>],
        references |-> <<Reference("p", "a", <<>>), Reference("p", "a", <<>>)>>, listening |-> [n \in {} |-> <<>>]]
ServiceNames == <<"p", "q", "r">>
Requests == {1, 2}
Framework == INSTANCE XRay
    WITH Name <- ServiceNames, Frameworks <- {One, Two, Three}, First <- Two, MaxChanges <- 2, MaxOpen <- 2,
         MaxLost <- 1, framework <- s1, listeners <- s2, stage <- s3, held <- s4, page <- s5, shown <- s6,
         changes <- s7, lost <- s8, missed <- s9

Chart == INSTANCE Charts
    WITH Span <- 120, config <- s1, chords <- s2, groups <- s3,
         Matrices <- {<<<<1, 2>>, <<0, 3>>>>, <<<<0, 1>>, <<1, 0>>>>, <<<<0, 2, 1>>, <<2, 0, 0>>, <<1, 3, 1>>>>}

Layout == INSTANCE Force
    WITH Neighbours <- <<<<2>>, <<1>>>>, Places <- {0, 1}, Fingers <- {"first", "second"}, Hot <- 3, MaxCalls <- 4,
         count <- s1, alpha <- s2, queued <- s3, x <- s4, px <- s5, fixed <- s6, over <- s7, dragNode <- s8,
         drag <- s9, told <- s10, late <- s11, overtaken <- s12, calls <- s13

Anims == [slide |-> [at |-> <<32, 64>>, to |-> <<32, 64>>, ms |-> 64, del |-> 0, times |-> 1],
          pulse |-> [at |-> <<64>>, to |-> <<64>>, ms |-> 32, del |-> 16, times |-> 2]]
Moved == INSTANCE Animations
    WITH Element <- {"a", "b"}, Frame <- 16, Statuses <- {48, 64}, MaxCalls <- 3,
         list <- s1, attr <- s2, removed <- s3, frames <- s4, thrown <- s5, calls <- s6

Hears(z, does, raises) == [z |-> z, does |-> does, raises |-> raises]
Told == INSTANCE Events
    WITH Path <- {<<"a">>, <<"*">>, <<"a", "b">>, <<"a", "*">>, <<"*", "b">>}, Event <- {<<"c">>, <<"a", "b">>},
         Handler <- [p |-> Hears(2, "plain", Null), s |-> Hears(1, "stop", Null), o |-> Hears(Null, "once", Null),
                     r |-> Hears(-1, "raise", <<"c">>)],
         MaxCalls <- 4, f <- s1, called <- s2, calls <- s3,
         Element <- {"a", "b"}, Finger <- {1, 2}, Places <- {0, 1}, MaxDrag <- 2, MaxTimes <- 2, fingers <- s1, draggable <- s2,
         hears <- s3, held <- s4, drag <- s5, heard <- s6, told <- s7, thrown <- s8, cut <- s9

Paper == INSTANCE Layers
    WITH Element <- {"a", "b", "c"}, Group <- "set", MaxCalls <- 5, dom <- s1, links <- s2, items <- s3,
         index <- s4, removed <- s5, recording <- s6, thrown <- s7, odd <- s8, calls <- s9

Modal == INSTANCE Dialog
    WITH Options <- {[backdrop |-> TRUE, keyboard |-> TRUE, show |-> TRUE]}, MaxCalls <- 3, settings <- s1,
         isShown <- s2, element <- s3, timeouts <- s4, backdrop <- s5, backs <- s6, keyups <- s7, thrown <- s8,
         early <- s9, calls <- s10, dropped <- s11

Widget == INSTANCE PageWidgets
    WITH Links <- <<"a", "b", "c", "d", "e">>, Heights <- 0 .. 3, Scrolls <- 0 .. 3,
         Menu <- [a |-> Null, b |-> "m", c |-> "m", d |-> "n", e |-> Null],
         States <- [loading |-> Null, complete |-> "done", other |-> Null, reset |-> Null], Texts <- {"save", "go"},
         Alerts <- [a |-> Null, b |-> "a", c |-> "a"], MaxCalls <- 3,
         active <- s1, panes <- s2, open <- s3, told <- s4, tops <- s1, offsets <- s2, seen <- s3, activeTarget <- s4,
         html <- s1, resetText <- s2, disabled <- s3,
         later <- s4, last <- s5, written <- s6, calls <- s7, fade <- s1, inPage <- s2, in <- s3, fading <- s4,
         removes <- s5, closed <- s6, stuck <- s7

Tip == INSTANCE Tips
    WITH Titles <- {"", "t"}, MaxDelays <- 2, MaxCalls <- 1,
         Options <- {[kind |-> k, animate |-> a, delayIn |-> d, delayOut |-> d] :
                        k \in {"twipsy", "popover"}, a \in BOOLEAN, d \in BOOLEAN},
         options <- s1, title <- s2, originalTitle <- s3, content <- s4,
         enabled <- s5, hoverState <- s6, tip <- s7, fading <- s8, timers <- s9, gone <- s10, thrown <- s11,
         called <- s12, calls <- s13

AxisScale(ticks, lo, unit) == [ticks |-> ticks, lo |-> lo, unit |-> unit]
Graduated == INSTANCE Shapes
    WITH ScaleSet <- {AxisScale(<<0, 2, 4>>, 0, 3), AxisScale(<<0, 1, 2>>, 0, 6), AxisScale(<<3, 4, 5>>, 3, 6),
                      AxisScale(<<2>>, 1, 6)},
         nodes <- s1, chart <- s2, overtaken <- s3, direct <- s4

------------------------------------------------------------------------------
(* The algorithms and their inputs.                                           *)

Scale == INSTANCE Scales WITH MaxPower <- 5, Steps <- 4
Tree == INSTANCE TreeLayouts WITH Unit <- 27720
Outline == INSTANCE Paths
    WITH Unit <- 64, Center <- <<64, 128>>, Shapes <- {1, 2}, Moves <- {<<>>, <<"t", 3>>, <<"t", 5>>, <<"r", 90>>},
         shape <- s1, move <- s2, dirty <- s3, dirtyT <- s4, realPath <- s5, bbox <- s6, bboxwt <- s7, answer <- s8,
         masked <- s9

UpTo(n, S) == UNION {[1 .. k -> S] : k \in 0 .. n}
Rising(s) == \A i \in 1 .. Len(s) - 1 : s[i] <= s[i + 1]

Keys == {<<>>, <<[field |-> "x", order |-> "descending"]>>,
         <<[field |-> "x", order |-> Null], [field |-> "y", order |-> "ascending"]>>}

Domains == {<<0, 4>>, <<3, -3>>, <<0, 2, 5>>, <<5, 2, -1>>, <<1, 2, 4, 8>>, <<2, 2>>}
Points == {<<n, 2>> : n \in {-3, 0, 1, 4, 7, 11}} \cup {<<7, 3>>}
Rangers == {[t |-> "range", x |-> <<7, 5>>, p |-> 0]}
             \cup [t : {"bands"}, x : {<<0, 100>>, <<100, 0>>, <<3, 20>>, <<0, 7>>}, p : {0, 2, 5}]
Calls == <<<<>>, <<[call |-> "domain", x |-> <<"a", "b">>]>>, <<[call |-> "ask", x |-> "z"]>>>>

Words == {<<"number", 0>>, <<"number", 4>>, <<"text", "x">>}
Texts == {s \in UpTo(3, Words) : \A i \in 1 .. Len(s) - 1 : s[i][1] = "number" \/ s[i + 1][1] = "number"}
Whole(n) == [type |-> "number", v |-> n]
Plain == {Whole(0), Whole(8), [type |-> "string", v |-> <<<<"text", "x">>, <<"number", 4>>>>]}
Values == {Whole(4)} \cup {[type |-> "array", v |-> x] : x \in UpTo(2, Plain)}
            \cup {[type |-> "object", v |-> x] : x \in UNION {[K -> Plain] : K \in SUBSET {"p", "q"}}}
Transforms == [translate : {<<0, 0>>, <<4, 8>>}, rotate : {-170, -20, 0, 100, 180}, skew : {0, 4},
               scale : {<<1, 1>>, <<8, 1>>}]

\* The trees of n nodes: the depths of the nodes, in the order of a traversal.
Depths[n \in 1 .. 8] ==
    IF n = 1 THEN {<<0>>} ELSE UNION {{Append(s, d) : d \in 1 .. s[n - 1] + 1} : s \in Depths[n - 1]}
Hierarchy(s, v) ==
    [children |-> [a \in DOMAIN s |-> SelectSeq([i \in DOMAIN s |-> i], LAMBDA i :
                       i > a /\ s[i] = s[a] + 1 /\ \A j \in a + 1 .. i - 1 : s[j] > s[a])], value |-> v]

\* At most one bundle registers a name, and another gets it.
Registered == {<<>>} \cup {<<Reference("", b, u)>> : b \in {"a", "b", "c"}, u \in {<<>>, <<"c">>}}
References(r) == FlattenSeq([i \in DOMAIN r |-> [j \in DOMAIN r[i] |-> [r[i][j] EXCEPT !.name = ServiceNames[i]]]])
Listening == UNION {[S -> {<<"a">>, <<"c">>, <<"b", "c">>}] : S \in SUBSET ToSet(ServiceNames)}

Star == {<<0, 1, 1, 1, 1, 1>>}
Spots == ({0, 64, 128} \X {0, 64}) \cup {NaN}

Start == Outline!Segment("M", FALSE, <<6, 12>>)
Coordinates(op) ==
    CASE op \in {"H", "V"} -> <<18>> [] op = "Z" -> <<>> [] op \in {"M", "L", "T"} -> <<12, -6>>
      [] op \in {"S", "Q"} -> <<6, 18, 24, 30>> [] OTHER -> <<-6, 6, 12, 24, 18, 0>>
Drawn(ops) == {Outline!Segment(op, rel, Coordinates(op)) : op \in ops, rel \in BOOLEAN}

Around == {<<>>, <<256, 128>>}
Changes == {Outline!Command("t", abs, <<128, 64>>, <<>>) : abs \in BOOLEAN}
             \cup {Outline!Command("r", abs, <<v>>, at) : abs \in BOOLEAN, v \in {90, 180}, at \in Around}
             \cup {Outline!Command("s", abs, v, at) : abs \in BOOLEAN, v \in {<<128>>, <<-64, 64>>}, at \in Around}

TicksOf(lo, hi, step) == SelectSeq([i \in 1 .. 8 |-> (i - 3) * step], LAMBDA v : lo <= v /\ v <= hi)
Interpolators == {"linear", "step-before", "step-after", "basis", "basis-open", "basis-closed", "bundle", "cardinal",
                  "cardinal-open", "cardinal-closed"}
Corners == UpTo(4, {<<0, 0>>, <<288, 576>>, <<576, -288>>}) \ {<<>>}

Input ==
    CASE subject = "summary" -> {<<a>> : a \in UpTo(4, {Null, NaN, 0, 1, -2})}
      [] subject = "bisect" ->
           UNION {{a} \X (0 .. 5) \X {<<l, h>> \in (0 .. Len(a)) \X (0 .. Len(a)) : l <= h}
                  : a \in {s \in UpTo(4, {1, 2, 4}) : Rising(s)}}
      [] subject = "range" -> UpTo(3, {Null, 1}) \X (-2 .. 2) \X (-4 .. 4) \X {-2, -1, 1, 3}
      [] subject = "nest" -> UpTo(4, [x : {1, 2}, y : {1, 2}]) \X Keys \X {Null, "y"}
      [] subject = "linear" -> Domains \X Domains \X Points \X Points
      [] subject = "ticks" ->
           {<<0, 7>>, <<1, 10>>, <<3, 97>>, <<100, 1>>, <<-15, 33>>, <<7, 1234>>, <<996, 1004>>, <<50, -50>>}
             \X {2, 3, 5, 10}
      [] subject = "classes" ->
           UpTo(3, {NaN, 0, 1, 4, 7}) \X {<<"p">>, <<"p", "q">>, <<"p", "q", "r">>} \X {0, 2} \X {2, 5, 9}
      [] subject = "bands" -> Rangers \X (1 .. 3) \X UpTo(3, {"a", "b", "c"}) \X {"a", "d"}
      [] subject = "strings" -> Texts \X Texts \X {0, 1, 4}
      [] subject = "objects" -> {v \in Values \X Values : v[1].type = v[2].type}
      [] subject = "transforms" -> Transforms \X Transforms
      [] subject = "tree" -> {<<Hierarchy(s, [i \in DOMAIN s |-> 1])>> : s \in UNION {Depths[n] : n \in 1 .. 8}}
      [] subject = "partition" ->
           {<<Hierarchy(s, v)>> : <<s, v>> \in UNION {Depths[n] \X [1 .. n -> {0, 1, 3}] : n \in 1 .. 5}}
      [] subject = "framework" -> [1 .. 3 -> Registered] \X Listening
      [] subject = "pie" -> UpTo(4, {0, 1, 2, 4}) \X Chart!Orders \X {0, 60}
      [] subject = "stack" -> 
           (UNION {[1 .. n -> [1 .. 3 -> 0 .. 2]] : n \in {1, 2}} \cup [1 .. 3 -> [1 .. 2 -> 0 .. 2]])
             \X {"inside-out", "reverse", "default"} \X {"zero", "silhouette", "wiggle", "expand"}
      [] subject = "histogram" -> UpTo(4, {-3, 0, 1, 4, 5}) \X (1 .. 4)
      [] subject = "treemap" -> 
           {<<Hierarchy(c[1], c[2]), room[1], room[2]>> : <<c, room>> \in
               (UNION {Depths[n] \X [1 .. n -> {0, 1, 3}] : n \in 1 .. 4} \cup Star \X [1 .. 6 -> {1, 4}])
                 \X {<<<<14, 10>>, <<0, 0, 0, 0>>>>, <<<<14, 10>>, <<2, 2, 4, 2>>>>, <<<<6, 6>>, <<2, 2, 4, 2>>>>}}
      [] subject = "bundle" -> {<<Hierarchy(s, s)>> : s \in UNION {Depths[n] : n \in 1 .. 6}}
      [] subject = "quadtree" -> 
           {c \in (UpTo(4, Spots) \X {<<1, 9, 1, 2>>} \X {<<7, 10>>})
                    \cup (UpTo(3, Spots) \X {<<1, 9, 1, 2>>} \X {<<8, 10>>}) :
                \E i \in DOMAIN c[1] : c[1][i] # NaN}
      [] subject = "order" -> {<<zs>> : zs \in UpTo(4, {Null, -2, -1, 0, 3})}
      [] subject = "path" -> 
           {<<<<Start>> \o s>> : s \in UpTo(2, Drawn({"M", "L", "H", "V", "C", "S", "Q", "T", "Z", "R"}))
                                        \cup UpTo(3, Drawn({"M", "C", "S", "Q", "T"}))}
      [] subject = "paths" -> 
           {<<<<Start>> \o c[1], <<Outline!Segment("M", TRUE, <<18, 12>>)>> \o c[2]>> :
                c \in UpTo(2, Drawn({"M", "L", "S", "Z"})) \X UpTo(2, Drawn({"M", "L", "S", "Z"}))}
      [] subject = "matrix" -> {<<list>> : list \in UpTo(3, Changes)}
      [] subject = "equal" -> UpTo(2, {c \in Changes : c.abs => c.at = <<>>}) \X UpTo(1, Changes)
      [] subject = "subdivide" -> (-7 .. 2) \X (9 .. 20) \X {0, 1, 2} \X {6, 12}
      [] subject = "line" -> Interpolators \X {0, 1} \X Corners
      [] subject = "area" -> 
           Interpolators \X (UpTo(3, {<<<<288 * x, 0>>, <<288 * x, 288>>>> : x \in {0, 1, 3}} \cup {Null}) \ {<<>>})
      [] subject = "arc" -> {0, 1} \X {0, 5, 20} \X (-3 .. 50)
      [] subject = "chordpath" -> {1, 2} \X {<<0, 4>>, <<5, 20>>, <<4, 24>>} \X {<<0, 4>>, <<4, 16>>, <<20, 24>>}
Algorithms == {"summary", "bisect", "range", "nest", "linear", "ticks", "classes", "bands", "strings", "objects",
               "transforms", "tree", "partition", "framework", "pie", "stack", "histogram", "treemap",
               "bundle", "quadtree", "order", "path", "paths", "matrix", "equal", "subdivide", "line", "area",
               "arc", "chordpath"}

------------------------------------------------------------------------------

Files == {<<"x">>, <<"d/", "x">>, <<"d/">>, <<"/">>, <<"/", "x">>}

Aliases == [f |-> "a", g |-> "a", k |-> "b"]

Init ==
    /\ VaadinInit /\ CafsInit
    /\ \/ subject = "page" /\ Page!Init /\ Off10
       \/ subject = "brush" /\ Brushed!BrushInit /\ Off9
       \/ subject = "wheel" /\ Wheel!ZoomInit /\ Off11
       \/ subject = "xray" /\ Framework!Init /\ Off10
       \/ subject = "chord" /\ Chart!ChordInit /\ Off4
       \/ subject = "force" /\ Layout!Init /\ Off14
       \/ subject = "animations" /\ Moved!Init /\ Off7
       \/ subject = "eve" /\ Told!EveInit /\ Off4
       \/ subject = "layers" /\ Paper!Init /\ Off10
       \/ subject = "dragging" /\ Told!DragInit /\ Off10
       \/ subject = "box" /\ Outline!Init /\ Off10
       \/ subject = "dialog" /\ Modal!Init /\ Off12
       \/ subject = "tabs" /\ Widget!TabsInit /\ Off5
       \/ subject = "spy" /\ Widget!SpyInit /\ Off5
       \/ subject = "button" /\ Widget!ButtonInit /\ Off8
       \/ subject = "alerts" /\ Widget!AlertInit /\ Off8
       \/ subject = "tips" /\ Tip!Init /\ Off14
       \/ subject = "axis" /\ Graduated!Init /\ Off5
       \/ subject \in {"vaadin", "cafs"} /\ s1 = Null /\ Off2
       \/ subject \in Algorithms /\ s1 = Null /\ Off2

Next ==
    /\ UNCHANGED subject
    /\ subject # "vaadin" => UNCHANGED vaadinVars
    /\ subject # "cafs" => UNCHANGED cafsVars
    /\ \/ subject = "page" /\ Page!Next /\ UNCHANGED Slots10
       \/ subject = "brush" /\ Brushed!BrushNext /\ UNCHANGED Slots9
       \/ subject = "wheel" /\ Wheel!ZoomNext /\ UNCHANGED Slots11
       \/ subject = "xray" /\ Framework!Next /\ UNCHANGED Slots10
       \/ subject = "chord" /\ Chart!ChordNext /\ UNCHANGED Slots4
       \/ subject = "force" /\ Layout!Next /\ UNCHANGED Slots14
       \/ subject = "animations" /\ Moved!Next /\ UNCHANGED Slots7
       \/ subject = "eve" /\ Told!EveNext /\ UNCHANGED Slots4
       \/ subject = "layers" /\ Paper!Next /\ UNCHANGED Slots10
       \/ subject = "dragging" /\ Told!DragNext /\ UNCHANGED Slots10
       \/ subject = "box" /\ Outline!Next /\ UNCHANGED Slots10
       \/ subject = "dialog" /\ Modal!Next /\ UNCHANGED Slots12
       \/ subject = "tabs" /\ Widget!TabsNext /\ UNCHANGED Slots5
       \/ subject = "spy" /\ Widget!SpyNext /\ UNCHANGED Slots5
       \/ subject = "button" /\ Widget!ButtonNext /\ UNCHANGED Slots8
       \/ subject = "alerts" /\ Widget!AlertNext /\ UNCHANGED Slots8
       \/ subject = "tips" /\ Tip!Next /\ UNCHANGED Slots14
       \/ subject = "axis" /\ Graduated!Next /\ UNCHANGED Slots5
       \/ subject = "vaadin" /\ VaadinNext /\ UNCHANGED <<s1, Slots2>>
       \/ subject = "cafs" /\ CafsNext /\ UNCHANGED <<s1, Slots2>>
       \/ subject \in Algorithms /\ s1 = Null /\ s1' \in Input /\ UNCHANGED Slots2

\* The browser calls a frame that was asked for, and a timeout that was set, and ends its transitions; the timer of
\* X-Ray goes on, its plugin serves every request, and the answers come.
Fairness ==
    /\ WF_slots(subject = "page" /\ (\E time \in Times : Page!Frame(time)) /\ UNCHANGED <<subject, Slots10>>)
    /\ WF_slots(subject = "force" /\ Layout!Tick /\ UNCHANGED <<subject, Slots14>>)
    /\ WF_slots(subject = "animations" /\ Moved!NextFrame /\ UNCHANGED <<subject, Slots7>>)
    /\ WF_slots(subject = "dialog" /\ Modal!Browser /\ UNCHANGED <<subject, Slots12>>)
    /\ WF_s3(subject = "xray" /\ Framework!Ask /\ UNCHANGED subject)
    /\ \A k \in Requests : WF_s3(subject = "xray" /\ Framework!Progress(k) /\ UNCHANGED subject)

Spec == Init /\ [][Next]_<<slots, vaadinVars, cafsVars>> /\ Fairness

------------------------------------------------------------------------------
(* Properties.                                                                *)

\* Drawing after drawing, an element whose datum is drawn stays, in its place, and a page
\* without timers shows what was drawn last (DataJoin: DrawnStay, AtRest).
PageDrawn ==
    /\ subject = "page" => Page!DrawnStay /\ Page!AtRest

\* A page that draws no more comes to rest, and so do a force layout that nobody touches
\* and animations that are not paused; a dialog that is hidden is gone (DataJoin, Force,
\* Animations, Dialog: Resting).
ComesToRest ==
    <>[](/\ subject = "page" => Page!Resting
         /\ subject = "force" => Layout!Resting
         /\ subject = "animations" => Moved!Resting
         /\ subject = "dialog" => Modal!Resting)

\* What X-Ray shows is one state of the framework, with icons and wires that can be told
\* apart (XRay: ShowsOneState, Readable, Apart).
XRayShown ==
    /\ subject = "xray" => Framework!ShowsOneState /\ Framework!Readable
    /\ subject = "framework" /\ s1 # Null => Framework!Apart(<<"a", "b", "c">>, s1[2], References(s1[1]))

\* A framework that changes no more is shown as it is, but for the wires of listeners that a
\* build has dropped for good, since it had read the bundles before they came.
XRayUpToDate == <>[](subject = "xray" => Framework!UpToDate)

\* The extent that is brushed and the view that is zoomed keep to their limits, and are
\* what is shown; a force layout that is hot runs, and holds only what the pointers hold
\* (Gestures: ExtentHeld, InView; Force: Runs, Unpinned).
GesturesHold ==
    /\ subject = "brush" => Brushed!ExtentHeld
    /\ subject = "wheel" => Wheel!InView
    /\ subject = "force" => Layout!Runs /\ Layout!Unpinned

\* What is moved or dragged follows the pointer, and what is zoomed stays under it
\* (Gestures: MovesAsAsked, Pinned; Force: Follows).
GesturesFollow ==
    [][/\ subject = "brush" => Brushed!MovesAsAsked
       /\ subject = "wheel" => Wheel!Pinned
       /\ subject = "force" => Layout!Follows]_slots

\* The elements of a drawing lie as their nodes do, what is dragged is under a finger, boxes
\* are those of the shapes, paths and transformations mean the same in all their forms,
\* listeners come in the order of their z-indexes, and animations go on (Layers: Linked;
\* Events: DragsEnd, Ordered; Paths: BBoxFresh, PathKept, PathsPaired, TransformsHold, Equalised;
\* Animations: Alive).
DrawingHolds ==
    /\ subject = "layers" => Paper!Linked
    /\ subject = "dragging" => Told!DragsEnd
    /\ subject = "box" => Outline!BBoxFresh
    /\ subject = "animations" => Moved!Alive
    /\ s1 # Null =>
        /\ subject = "order" => Told!Ordered(s1[1])
        /\ subject = "path" => Outline!PathKept(s1[1])
        /\ subject = "paths" => Outline!PathsPaired(s1[1], s1[2])
        /\ subject = "matrix" => Outline!TransformsHold(s1[1])
        /\ subject = "equal" => Outline!Equalised(s1[1], s1[2])

\* A dialog is displayed when it is shown, a tip when the pointer is over its element, one tab
\* is active, the scroll spy follows the page, a button is disabled while it loads, and an
\* alert goes when it is closed (Dialog, Tips, PageWidgets: InStep).
WidgetsInStep ==
    /\ subject = "dialog" => Modal!DialogInStep
    /\ subject = "tips" => Tip!TipInStep
    /\ subject = "tabs" => Widget!TabsInStep
    /\ subject = "spy" => Widget!SpyInStep
    /\ subject = "button" => Widget!ButtonInStep
    /\ subject = "alerts" => Widget!AlertsInStep

\* An event calls its listeners up to the one that stops it, a set is moved as a whole, and
\* an animation shows where it was paused, and a tab tells the one before it (Events: Heard; Layers:
\* MovedTogether; Animations: Continues; PageWidgets: Tells).
CallsDo ==
    [][/\ subject = "eve" => Told!Heard
       /\ subject = "layers" => Paper!MovedTogether
       /\ subject = "animations" => Moved!Continues
       /\ subject = "tabs" => Widget!Tells]_slots

\* Statistics, searches and nests of arrays agree with their definitions, and scales map
\* their domains onto their ranges, in order, with ticks that are round and bands that do
\* not overlap; what is interpolated starts and ends where it should, and stays in between
\* (Arrays, Scales).
NumbersFit ==
    s1 # Null =>
        /\ subject = "summary" => Scale!Summarized(s1[1])
        /\ subject = "bisect" => Scale!Bisected(s1[1], s1[2], s1[3][1], s1[3][2])
        /\ subject = "range" => Scale!Rearranged(s1[1], s1[2], s1[3], s1[4])
        /\ subject = "nest" => Scale!Nested(s1[1], s1[2], s1[3])
        /\ subject = "linear" => Scale!LinearFits(s1[1], s1[2], s1[3], s1[4])
        /\ subject = "ticks" => Scale!TicksFit(s1[1], s1[2])
        /\ subject = "classes" => Scale!Classed(s1[1], s1[2], s1[3], s1[4])
        /\ subject = "bands" => Scale!BandsApart(s1[1], Calls[s1[2]], s1[3], s1[4])
        /\ subject = "strings" => Scale!TextBetween(s1[1], s1[2], s1[3])
        /\ subject = "objects" => Scale!ValueBetween(s1[1], s1[2])
        /\ subject = "transforms" => Scale!TransformBetween(s1[1], s1[2], 1)

\* No two nodes of a layout come too near each other, parents stand above the middle of
\* their children, what is divided is divided without a rest, bundles join their ends, and
\* every point pushes the others once (TreeLayouts: TreeDrawn, ClusterDrawn, PartitionTiles;
\* TreemapTiles, BundlesJoin; Force: Holds, PushedOnce). Charts share out their space as the
\* numbers they show, and what is laid out is as it is configured; axes show the scale that
\* was drawn last, lines go through their points, areas fit together and arcs span their
\* angles (Charts: PieFits, StackFits, HistogramFits, ChordsFresh, ChordsFit; Shapes:
\* AxisTrue, Subdivided, LineDrawn, AreaFits, ArcSpans, ChordSpans).
LayoutsDrawn ==
    /\ subject = "chord" => Chart!ChordsFresh /\ Chart!ChordsFit
    /\ subject = "axis" => Graduated!AxisTrue
    /\ s1 # Null =>
        /\ subject = "tree" => Tree!TreeDrawn(s1[1]) /\ Tree!ClusterDrawn(s1[1])
        /\ subject = "partition" => Tree!PartitionTiles(s1[1])
        /\ subject = "treemap" =>
               \A again \in {Reverse(s1[1].value), [i \in DOMAIN s1[1].value |-> 1]} :
                   Tree!TreemapTiles(s1[1], s1[2], s1[3], again)
        /\ subject = "bundle" => Tree!BundlesJoin(s1[1])
        /\ subject = "quadtree" => Layout!Holds(s1[1]) /\ Layout!PushedOnce(s1[1], s1[2], s1[3])
        /\ subject = "subdivide" => Graduated!Subdivided(<<s1[1], s1[2]>>, TicksOf(s1[1], s1[2], s1[4]), s1[3])
        /\ subject = "line" => Graduated!LineDrawn(s1[1], s1[2], s1[3])
        /\ subject = "area" => Graduated!AreaFits(s1[1], 1, s1[2])
        /\ subject = "arc" => Graduated!ArcSpans(s1[1], 2, s1[2], s1[3])
        /\ subject = "chordpath" =>
               Graduated!ChordSpans([r |-> 1, start |-> s1[2][1], end |-> s1[2][2]],
                                [r |-> s1[1], start |-> s1[3][1], end |-> s1[3][2]])
        /\ subject = "pie" => Chart!PieFits(s1[1], s1[2], s1[3], s1[3] + 60 * Chart!Total(s1[1]))
        /\ subject = "stack" => Chart!StackFits(s1[1], s1[2], s1[3])
        /\ subject = "histogram" => Chart!HistogramFits(s1[1], s1[2])
=============================================================================
