------------------------------- MODULE Animations ----------------------------
(* The animations of raphael.js: the list that every frame goes through, and  *)
(* animate, status, pause, resume, stop and remove of its elements. Elements  *)
(* have one attribute; statuses and keyframes are in 64th of an animation.    *)
EXTENDS Integers, FiniteSets, SequencesExt

CONSTANTS
    Null,
    Element,
    Anims,      \* name -> [at, to: its keyframes; ms, del, times]
    Statuses,   \* those that the page sets
    Frame,      \* the time from one frame to the next
    MaxCalls    \* bound: how often the page calls

VARIABLES
    list,       \* animationElements; elapsed is the time since the start of an entry
    attr,       \* element -> its attribute
    removed,    \* the elements that are removed
    frames,     \* how many frames were asked for
    thrown,     \* a frame ended in an error
    calls

animVars == <<list, attr, removed, frames, thrown, calls>>

Init ==
    /\ list = <<>> /\ attr = [el \in Element |-> 0] /\ removed = {}
    /\ frames = 0 /\ thrown = FALSE /\ calls = 0

\* F of the value v, which is computed once.
With(v, F(_)) == CHOOSE r \in {F(x) : x \in {v}} : TRUE

\* The part of an animation that ends with keyframe k.
Part(a, k) ==
    LET prev == IF k = 1 THEN 0 ELSE Anims[a].at[k - 1]
    IN [prev |-> prev, span |-> Anims[a].at[k] - prev, ms |-> (Anims[a].ms * (Anims[a].at[k] - prev)) \div 64]

\* The attribute of an entry, time after the start of its part.
Value(e, time) == e.from + ((Anims[e.anim].to[e.k] - e.from) * time) \div Part(e.anim, e.k).ms
TimeOf(e, status) == ((status - Part(e.anim, e.k).prev) * Part(e.anim, e.k).ms) \div Part(e.anim, e.k).span

------------------------------------------------------------------------------
(* runAnimation: what it changes is [list, attr, frames, thrown].             *)

Entry(s, el, a, k) ==
    [el |-> el, anim |-> a, k |-> k, from |-> s.attr[el], elapsed |-> -Anims[a].del, status |-> 0, init |-> 0,
     stop |-> FALSE, paused |-> FALSE, repeat |-> Anims[a].times, origin |-> Null]

Pushed(s, e) == [s EXCEPT !.list = Append(@, e), !.frames = IF s.list = <<>> THEN @ + 1 ELSE @]

\* For a keyframe: the first of animate, or the next; the delay is for each of them.
RunKeyframe(s, el, a, k, origin, times) ==
    Pushed(s, [Entry(s, el, a, k) EXCEPT !.origin = origin, !.repeat = times])

\* For a status: the entry is made again, from the keyframe before it, without the origin
\* and with all repetitions; one that is not in the list stops after its frame.
RunStatus(s, el, a, status) ==
    LET i == SelectInSeq(s.list, LAMBDA e : e.el = el /\ e.anim = a)
        before == IF i = 0 \/ s.list[i].origin = Null THEN s.attr[el] ELSE s.list[i].origin
        over == {k \in DOMAIN Anims[a].at : Anims[a].at[k] <= status}
        cut == [s EXCEPT !.list = IF i = 0 THEN @ ELSE RemoveAt(@, i),
                         !.attr[el] = IF over = {} THEN before ELSE Anims[a].to[Cardinality(over)]]
        k == Cardinality(over) + 1
    IN IF status = 0 THEN s
       ELSE IF k > Len(Anims[a].at) THEN cut
       ELSE Pushed(cut, [Entry(cut, el, a, k) EXCEPT !.init = status, !.stop = (i = 0),
                                                   !.elapsed = (Part(a, k).ms * status) \div 64])

------------------------------------------------------------------------------
(* A frame.                                                                   *)

\* The end of a part: the next one, or the next repetition from the attributes that the
\* animation found - which one that was resumed no longer knows.
Ended(s, e) ==
    LET last == e.k = Len(Anims[e.anim].at)
        done == [s EXCEPT !.attr[e.el] = Anims[e.anim].to[e.k]]
    IN IF ~last THEN RunKeyframe(done, e.el, e.anim, e.k + 1, e.origin, e.repeat)
       ELSE IF e.repeat <= 1 THEN done
       ELSE IF e.origin = Null THEN [done EXCEPT !.thrown = TRUE]
       ELSE RunKeyframe([done EXCEPT !.attr[e.el] = e.origin], e.el, e.anim, 1, e.origin, e.repeat - 1)

\* animation: the entries from l on, those that are added by others too.
RECURSIVE Animated(_, _)
Animated(s, l) ==
    IF l > Len(s.list) THEN [s EXCEPT !.frames = IF s.list = <<>> THEN @ ELSE @ + 1]
    ELSE LET e == s.list[l]
             part == Part(e.anim, e.k)
             time == IF e.init # 0 THEN TimeOf(e, e.init) ELSE e.elapsed
             status == IF e.init # 0 THEN e.init ELSE part.prev + (part.span * e.elapsed) \div part.ms
             ends == time >= part.ms
             out == ends \/ (e.init # 0 /\ e.stop)
             kept == [s EXCEPT !.list = IF out THEN RemoveAt(@, l)
                                        ELSE [@ EXCEPT ![l] = [e EXCEPT !.status = status, !.init = 0]]]
             set == IF ends THEN Ended(kept, e)
                    ELSE IF time < 0 THEN kept ELSE [kept EXCEPT !.attr[e.el] = Value(e, time)]
         IN With(IF e.el \in removed \/ e.paused THEN [s |-> s, l |-> l + 1]
                 ELSE [s |-> set, l |-> IF out THEN l ELSE l + 1],
                 LAMBDA next : IF next.s.thrown /\ ~s.thrown THEN next.s ELSE Animated(next.s, next.l))

State == [list |-> list, attr |-> attr, frames |-> frames, thrown |-> thrown]

Becomes(s) == list' = s.list /\ attr' = s.attr /\ frames' = s.frames /\ thrown' = s.thrown

\* All the frames that were asked for come one after the other.
RECURSIVE AllFrames(_, _)
AllFrames(s, n) == IF n = 0 THEN s ELSE With(Animated(s, 1), LAMBDA next : AllFrames(next, n - 1))

\* Time after the end of a part is no different from its end.
Later(e) ==
    LET elapsed == e.elapsed + Frame
    IN [e EXCEPT !.elapsed = IF elapsed < Part(e.anim, e.k).ms THEN elapsed ELSE Part(e.anim, e.k).ms]

NextFrame ==
    /\ frames > 0
    /\ \E s \in {AllFrames([State EXCEPT !.list = [i \in DOMAIN list |-> Later(list[i])], !.frames = 0], frames)} :
           Becomes(s)
    /\ UNCHANGED <<removed, calls>>

------------------------------------------------------------------------------
(* The page's calls.                                                          *)

Count == calls < MaxCalls /\ calls' = calls + 1

animate(el, a) ==
    /\ Count /\ el \notin removed
    /\ Becomes(RunKeyframe(State, el, a, 1, attr[el], Anims[a].times))
    /\ UNCHANGED removed

\* status with a value, and setTime. The only entry of the list that stops is shown at once.
setStatus(el, a, value) ==
    /\ Count /\ el \notin removed
    /\ \E s \in {RunStatus(State, el, a, value)} :
           IF Len(s.list) = 1 /\ s.list[1].stop /\ s.list # list
           THEN \E shown \in {Animated([s EXCEPT !.frames = frames], 1)} : Becomes(shown)
           ELSE Becomes(s)
    /\ UNCHANGED removed

pause(el) ==
    /\ Count /\ el \notin removed
    /\ list' = [i \in DOMAIN list |-> IF list[i].el = el THEN [list[i] EXCEPT !.paused = TRUE] ELSE list[i]]
    /\ UNCHANGED <<attr, removed, frames, thrown>>

\* resume goes on in a list that it changes: what comes after an entry that it makes again
\* is passed over.
RECURSIVE Resumed(_, _, _)
Resumed(s, el, i) ==
    IF i > Len(s.list) THEN s
    ELSE LET e == s.list[i]
             going == [s EXCEPT !.list[i].paused = FALSE]
         IN With(IF e.el # el THEN s ELSE RunStatus(going, el, e.anim, e.status), LAMBDA next : Resumed(next, el, i + 1))

resume(el) == Count /\ el \notin removed /\ (\E s \in {Resumed(State, el, 1)} : Becomes(s)) /\ UNCHANGED removed

stop(el) ==
    /\ Count /\ el \notin removed /\ list' = SelectSeq(list, LAMBDA e : e.el # el)
    /\ UNCHANGED <<attr, removed, frames, thrown>>

remove(el) == Count /\ el \notin removed /\ removed' = removed \cup {el} /\ UNCHANGED <<list, attr, frames, thrown>>

Next ==
    \/ NextFrame
    \/ \E el \in Element :
           \/ pause(el) \/ resume(el) \/ stop(el) \/ remove(el)
           \/ \E a \in DOMAIN Anims : animate(el, a) \/ \E value \in Statuses : setStatus(el, a, value)

Fairness == WF_animVars(NextFrame)

Spec == Init /\ [][Next]_animVars /\ Fairness

------------------------------------------------------------------------------
(* Properties.                                                                *)

\* As long as something is in the list a frame will come, unless one ended in an error;
\* and attributes stay between those of the keyframes.
Alive ==
    /\ list # <<>> => frames > 0 \/ thrown
    /\ \A el \in Element : attr[el] \in 0 .. 64

\* What is resumed for the first time is shown next where it was paused, in whichever part
\* of the animation, if the element has no other animation; and one of a single keyframe
\* goes on from there. Of several keyframes it does not: runAnimation takes the status of
\* the whole for that of the part when it sets the start, and the frame after jumps.
Continues ==
    \A i \in DOMAIN list :
        LET e == list[i]
        IN /\ e.paused /\ e.status > 0 /\ e.origin # Null /\ attr[e.el] = Value(e, TimeOf(e, e.status))
           /\ \A j \in DOMAIN list \ {i} : list[j].el # e.el
           => \A j \in DOMAIN list' :
                  list'[j].el = e.el /\ list'[j].anim = e.anim /\ list'[j].init = e.status =>
                      /\ Value(list'[j], TimeOf(list'[j], e.status)) = attr[e.el]
                      /\ Len(Anims[e.anim].at) = 1 => list'[j].elapsed = TimeOf(list'[j], e.status)

\* The frames end when all animations have: those that are not paused, of elements that
\* are not removed.
Resting == frames = 0 \/ thrown \/ \E i \in DOMAIN list : list[i].paused \/ list[i].el \in removed
=============================================================================
