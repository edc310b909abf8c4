----------------------------- MODULE Navigation -----------------------------
(* $location, $route and ngView in angular-1.0.0.js: the url of the browser,  *)
(* the url of the application and the view follow each other.  The user and   *)
(* the application both navigate; the events of the browser come later, and   *)
(* so do templates.                                                           *)
EXTENDS Naturals, Sequences, TLAPS

CONSTANTS
    Url,          \* what the address bar may hold: records of a path and a search
    RouteOf,      \* path -> route, None where no route matches and there is no otherwise
    Redirect,     \* routes with redirectTo: route -> url
    Remote,       \* routes with a templateUrl: their templates come from the server
    Plain,        \* routes without any template
    KeepOnSearch, \* routes with reloadOnSearch: false
    None,
    MaxMoves      \* bound: navigations of the user and the application

VARIABLES
    browserUrl, lastBrowserUrl,
    event,        \* the url has changed under the application, its event is to come
    location,     \* $location
    changeCounter,
    queue,        \* the tasks of $rootScope
    turn,         \* "idle", or "digest"
    current,      \* $route.current: the number of the update, its route and params
    updates,      \* how many there were
    forceReload,  \* $route.reload was called
    waiting,      \* updates whose templates are under way
    view,         \* what ngView shows: an update, or None
    loaded,       \* the last update that got its locals
    adopted,      \* no update yet, or none since $location took a new url before its event
    moves

navVars == <<browserUrl, lastBrowserUrl, event, location, changeCounter, queue, turn,
             current, updates, forceReload, waiting, view, loaded, adopted, moves>>
bar == <<browserUrl, lastBrowserUrl>>
route == <<current, updates, forceReload, waiting>>
shown == <<view, loaded>>

NoRoute == [n |-> 0, route |-> None, search |-> None]

NavInit ==
    /\ browserUrl \in Url /\ lastBrowserUrl = browserUrl /\ location = browserUrl
    /\ event = FALSE /\ changeCounter = 0 /\ queue = <<>> /\ turn = "digest"
    /\ current = NoRoute /\ updates = 0 /\ forceReload = FALSE /\ waiting = {} /\ view = None /\ loaded = 0
    /\ adopted = TRUE /\ moves = 0

------------------------------------------------------------------------------
(* $route.                                                                    *)

HasTemplate(r) == r \notin Plain /\ r \notin DOMAIN Redirect

\* updateRoute at $locationChangeSuccess and reload (left: what that leaves behind).  A redirect changes $location at once;
\* the locals arrive in a later tick, or with the answer of the server.
UpdateRoute(url, tasks, left) ==
    LET r == RouteOf[url.path]
        next == [n |-> updates + 1, route |-> r, search |-> url.search]
        same == r # None /\ r = current.route /\ r \in KeepOnSearch /\ ~forceReload
    IN /\ adopted' = (left \/ (r \in DOMAIN Redirect /\ event /\ Redirect[r] = browserUrl))
       /\ IF same \/ (r = None /\ current.route = None)
          THEN /\ current' = [current EXCEPT !.search = IF same THEN url.search ELSE @]
               /\ queue' = tasks /\ location' = url /\ UNCHANGED <<updates, forceReload, waiting>>
          ELSE /\ current' = next /\ updates' = updates + 1 /\ forceReload' = FALSE
               /\ location' = IF r \in DOMAIN Redirect THEN Redirect[r] ELSE url
               /\ IF r \in Remote
                  THEN waiting' = waiting \cup {next} /\ queue' = tasks
                  ELSE queue' = Append(tasks, [is |-> "locals", of |-> next]) /\ UNCHANGED waiting

\* Mutant: an answer is shown whatever route is the current one by then.
SucceedLate(next) ==
    loaded' = current.n /\ view' = IF next.route # None /\ HasTemplate(next.route) THEN next.n ELSE None

\* $routeChangeSuccess and ngView: an answer for a route that is no longer the
\* current one is dropped.
Succeed(next) ==
    IF next.n = current.n \/ (next.route = None /\ current.route = None)
    THEN loaded' = current.n /\ view' = IF next.route # None /\ HasTemplate(next.route)
                                        THEN next.n ELSE None
    ELSE UNCHANGED shown

Template(next) ==
    /\ turn = "idle" /\ turn' = "digest"
    /\ next \in waiting /\ waiting' = waiting \ {next}
    /\ Succeed(next) \/ UNCHANGED shown   \* $routeChangeError leaves the view alone
    /\ UNCHANGED <<bar, event, location, changeCounter, queue, current, updates, forceReload, adopted,
                   moves>>

------------------------------------------------------------------------------
(* $browser and the tasks of $location.                                       *)

\* The user types a url or goes back: the application is told by an event.
UserMoves(url) ==
    /\ turn = "idle" /\ moves < MaxMoves /\ moves' = moves + 1
    /\ url # browserUrl /\ browserUrl' = url /\ event' = TRUE
    /\ UNCHANGED <<lastBrowserUrl, location, changeCounter, queue, turn, route, shown, adopted>>

\* fireUrlChange and the listener of $location.
UrlEvent ==
    /\ turn = "idle" /\ event /\ event' = FALSE /\ lastBrowserUrl' = browserUrl
    /\ IF lastBrowserUrl # browserUrl /\ location # browserUrl
       THEN /\ queue' = Append(queue, [is |-> "parse", of |-> browserUrl])
            /\ turn' = "digest"
       ELSE UNCHANGED <<queue, turn>>
    /\ UNCHANGED <<browserUrl, location, changeCounter, route, shown, adopted, moves>>

\* An event handler calls $location.url(url), or does something else.
ApplicationMoves(url) ==
    /\ turn = "idle" /\ moves < MaxMoves /\ moves' = moves + 1
    /\ location' = url /\ turn' = "digest"
    /\ adopted' = (adopted \/ (event /\ url = browserUrl))
    /\ UNCHANGED <<bar, event, changeCounter, queue, route, shown>>

Reload ==
    /\ turn = "idle" /\ moves < MaxMoves /\ moves' = moves + 1
    /\ forceReload' = TRUE /\ turn' = "digest"
    /\ queue' = Append(queue, [is |-> "reload", of |-> None])
    /\ UNCHANGED <<bar, event, location, changeCounter, current, updates, waiting, shown, adopted>>

\* $locationWatch sees a difference: its value is a counter, so that the digest
\* makes another pass, in which the task runs.
LocationWatch ==
    /\ turn = "digest" /\ queue = <<>>
    /\ changeCounter = 0 \/ browserUrl # location
    /\ changeCounter' = 1
    /\ queue' = <<[is |-> "change", of |-> browserUrl]>>
    /\ UNCHANGED <<bar, event, location, turn, route, shown, adopted, moves>>

Update(t) ==
    /\ \/ t.is = "parse" /\ UpdateRoute(t.of, Tail(queue), FALSE)
       \/ t.is = "reload" /\ UpdateRoute(location, Tail(queue), adopted)
    /\ UNCHANGED <<bar, shown>>

\* $locationChangeStart is prevented by a listener, or the browser gets the url.
Change(t) ==
    /\ t.is = "change"
    /\ \/ /\ location' = t.of /\ queue' = Tail(queue)
          /\ adopted' = (adopted \/ event)
          /\ UNCHANGED <<bar, route, shown>>
       \/ /\ browserUrl' = location /\ lastBrowserUrl' = location
          /\ UpdateRoute(location, Tail(queue), FALSE) /\ UNCHANGED shown

Locals(t) ==
    /\ t.is = "locals" /\ Succeed(t.of) /\ queue' = Tail(queue)
    /\ UNCHANGED <<bar, location, route, adopted>>

RunTask ==
    /\ turn = "digest" /\ queue # <<>>
    /\ Update(Head(queue)) \/ Change(Head(queue)) \/ Locals(Head(queue))
    /\ UNCHANGED <<event, changeCounter, turn, moves>>

EndDigest ==
    /\ turn = "digest" /\ queue = <<>> /\ changeCounter # 0 /\ browserUrl = location
    /\ turn' = "idle"
    /\ UNCHANGED <<bar, event, location, changeCounter, queue, route, shown, adopted, moves>>

NavNext ==
    \/ \E url \in Url : UserMoves(url) \/ ApplicationMoves(url)
    \/ Reload \/ UrlEvent \/ LocationWatch \/ RunTask \/ EndDigest
    \/ \E next \in waiting : Template(next)

NavSpec == NavInit /\ [][NavNext]_navVars

------------------------------------------------------------------------------
(* Properties.                                                                *)

\* Between events the address bar, the application and its route agree, unless the
\* user has just moved: whoever moved or was redirected, in whatever order the
\* events came.  Only when $location takes the url of a move before its event has
\* come, by a refusal, a redirect or by chance, the route is left behind until the next update.
InStep ==
    turn = "idle" /\ ~event /\ ~adopted =>
        /\ location = browserUrl /\ lastBrowserUrl = browserUrl
        /\ current.route = RouteOf[location.path]
        /\ current.route # None => current.search = location.search

\* The view belongs to the route that was current when its locals arrived, never
\* to one that was left while its template was under way, even when it is entered
\* again; when the current route has its locals, the view is that route's.
ViewIsCurrent ==
    /\ view # None => view = loaded
    /\ turn = "idle" /\ loaded = current.n /\ loaded # 0 =>
           view = IF current.route # None /\ HasTemplate(current.route) THEN loaded ELSE None

\* The address bar, $location, $route and ngView agree between events, and an answer that
\* comes late is never shown for another route.
RouteInStep == InStep /\ ViewIsCurrent

------------------------------------------------------------------------------
(* Theorems: for all urls and routes, and any number of moves.                *)

\* A sequence of one task.
LEMMA One == \A x : Tail(<<x>>) = <<>> /\ Head(<<x>>) = x /\ <<x>> # <<>> /\ Append(<<>>, x) = <<x>>
OBVIOUS

\* The digest takes its only task before it gets the next.
Pending(is) == queue # <<>> /\ Head(queue).is = is
Tasks ==
    /\ queue = <<>> \/ queue = <<Head(queue)>>
    /\ turn \in {"idle", "digest"} /\ (turn = "idle" => queue = <<>>)
    /\ event \in BOOLEAN /\ adopted \in BOOLEAN

\* The current update is the last one, and nothing is known of later ones.
Numbered ==
    /\ updates \in Nat /\ loaded \in Nat /\ loaded <= updates
    /\ current = [n |-> updates, route |-> current.route, search |-> current.search]

\* An update whose locals are under way is that of its number.
OfItsNumber(next) ==
    /\ next.n \in Nat /\ next.n <= updates
    /\ next.n = updates => next.route = current.route
Underway ==
    /\ \A next \in waiting : OfItsNumber(next)
    /\ Pending("locals") => OfItsNumber(Head(queue).of)

\* $route is that of the url.
Matches(url) == current.route = RouteOf[url.path] /\ (current.route # None => current.search = url.search)

\* While a move of the user is to be told, the url before it is that of $location and $route;
\* in a digest either $location is yet to be compared with the address bar, or they agree.
Agree ==
    /\ Pending("parse") => ~ event /\ Head(queue).of = browserUrl /\ lastBrowserUrl = browserUrl
    /\ Pending("change") => Head(queue).of = browserUrl
    /\ ~ adopted =>
        /\ turn = "idle" => /\ location = lastBrowserUrl /\ Matches(location)
                            /\ ~ event => browserUrl = lastBrowserUrl
        /\ turn = "digest" /\ ~ event =>
               /\ lastBrowserUrl = browserUrl
               /\ Matches(browserUrl) \/ Pending("parse")
               /\ Pending("reload") => location = browserUrl
        /\ turn = "digest" /\ event /\ location = browserUrl =>
               lastBrowserUrl = browserUrl /\ Matches(browserUrl)

\* The view is that of the last locals; those of the current route are shown.
Shows(n, r) == IF r # None /\ HasTemplate(r) THEN n ELSE None
ViewFits ==
    /\ view # None => view = loaded
    /\ loaded = updates /\ loaded # 0 => view = Shows(loaded, current.route)

NavInv == Tasks /\ Numbered /\ Underway /\ Agree /\ ViewFits

\* The page is at its first url, for which no route was looked up.
LEMMA NavInvInit == NavInit => NavInv
<1> SUFFICES ASSUME NavInit PROVE NavInv
  OBVIOUS
<1>1. Tasks
  BY DEF NavInit, Tasks
<1>2. Numbered
  BY DEF NavInit, Numbered, NoRoute
<1>3. Underway /\ Agree /\ ViewFits
  BY DEF NavInit, Pending, Underway, Agree, ViewFits
<1>q. QED BY <1>1, <1>2, <1>3 DEF NavInv

\* The route that $route takes is that of the url, and its redirection is not overlooked.
LEMMA Updated ==
    ASSUME NavInv, NEW url, NEW left \in BOOLEAN, UpdateRoute(url, <<>>, left), UNCHANGED <<loaded, view>>
    PROVE  /\ Numbered' /\ Underway' /\ ViewFits'
           /\ current'.route = RouteOf[url.path] /\ (current'.route # None => current'.search = url.search)
           /\ queue' = <<>> \/ (queue' = <<Head(queue')>> /\ Head(queue').is = "locals")
           /\ adopted' \in BOOLEAN
           /\ ~ adopted' => ~ left /\ (location' = url \/ ~ event \/ location' # browserUrl)
<1> DEFINE r == RouteOf[url.path]
           next == [n |-> updates + 1, route |-> r, search |-> url.search]
           same == r # None /\ r = current.route /\ r \in KeepOnSearch /\ ~forceReload
<1>1. CASE same \/ (r = None /\ current.route = None)
  <2>1. /\ current' = [current EXCEPT !.search = IF same THEN url.search ELSE @]
        /\ queue' = <<>> /\ location' = url /\ UNCHANGED <<updates, waiting>>
        /\ adopted' = (left \/ (r \in DOMAIN Redirect /\ event /\ Redirect[r] = browserUrl))
    BY ONLY <1>1, UpdateRoute(url, <<>>, left) DEF UpdateRoute
  <2>2. Numbered' /\ current'.route = current.route /\ (same => current'.search = url.search)
    BY <2>1 DEF NavInv, Numbered
  <2>3. Underway' /\ ViewFits'
    BY <2>1, <2>2 DEF NavInv, Underway, OfItsNumber, Pending, ViewFits, Shows
  <2>q. QED BY ONLY <1>1, <2>1, <2>2, <2>3
<1>2. CASE ~ (same \/ (r = None /\ current.route = None))
  <2>1. /\ current' = next /\ updates' = updates + 1
        /\ location' = IF r \in DOMAIN Redirect THEN Redirect[r] ELSE url
        /\ \/ waiting' = waiting \cup {next} /\ queue' = <<>>
           \/ queue' = Append(<<>>, [is |-> "locals", of |-> next]) /\ waiting' = waiting
        /\ adopted' = (left \/ (r \in DOMAIN Redirect /\ event /\ Redirect[r] = browserUrl))
    BY ONLY <1>2, UpdateRoute(url, <<>>, left) DEF UpdateRoute
  <2>2. Numbered' /\ next.route = r /\ next.search = url.search /\ next.n = updates'
    BY <2>1 DEF NavInv, Numbered
  <2>3. queue' = <<>> \/ (queue' = <<Head(queue')>> /\ Head(queue').is = "locals" /\ Head(queue').of = next)
    BY <2>1, One
  <2>4. ViewFits'
    BY <2>1 DEF NavInv, Numbered, ViewFits
  <2>5. Underway'
    BY <2>1, <2>2, <2>3 DEF NavInv, Numbered, Underway, OfItsNumber, Pending
  <2>q. QED BY ONLY <2>1, <2>2, <2>3, <2>4, <2>5, left \in BOOLEAN
<1>q. QED BY <1>1, <1>2

\* An answer is shown for the route that is current, or not at all.
LEMMA Succeeded ==
    ASSUME NavInv, NEW next, OfItsNumber(next), Succeed(next) \/ UNCHANGED shown, UNCHANGED <<current, updates>>
    PROVE  ViewFits' /\ Numbered'
<1>1. CASE Succeed(next) /\ ~ UNCHANGED shown
  <2>1. loaded' = updates /\ view' = Shows(next.n, next.route)
    BY <1>1 DEF Succeed, NavInv, Numbered, Shows
  <2>2. view' = Shows(loaded', current.route)
    <3>1. CASE next.n = updates
      BY <2>1, <3>1 DEF OfItsNumber
    <3>2. CASE next.n # updates
      BY <1>1, <2>1, <3>2 DEF Succeed, NavInv, Numbered, Shows
    <3>q. QED BY <3>1, <3>2
  <2>3. Numbered'
    BY <2>1 DEF NavInv, Numbered
  <2>q. QED BY <2>1, <2>2, <2>3 DEF ViewFits, Shows
<1>2. CASE UNCHANGED shown
  BY <1>2 DEF shown, NavInv, Numbered, ViewFits
<1>q. QED BY <1>1, <1>2

\* Every turn, task and answer keeps the invariant.
LEMMA NavInvNext == NavInv /\ [NavNext]_navVars => NavInv'
<1> SUFFICES ASSUME NavInv, [NavNext]_navVars PROVE NavInv'
  OBVIOUS
<1> USE DEF bar, route, shown
\* What leaves the current route and the view alone.
<1>a. ASSUME UNCHANGED <<current, updates, view, loaded>>, waiting' \subseteq waiting,
             Pending("locals")' => Pending("locals") /\ Head(queue').of = Head(queue).of
      PROVE  Numbered' /\ Underway' /\ ViewFits'
  BY <1>a DEF NavInv, Numbered, Underway, OfItsNumber, ViewFits, Shows
<1>1. ASSUME NEW next \in waiting, Template(next) PROVE NavInv'
  <2>1. OfItsNumber(next)
    BY DEF NavInv, Underway
  <2>2. ViewFits' /\ Numbered'
    BY <1>1, <2>1, Succeeded DEF Template
  <2>3. Underway' /\ Tasks' /\ Agree'
    BY <1>1 DEF Template, NavInv, Underway, OfItsNumber, Tasks, Agree, Pending, Matches
  <2>q. QED BY <2>2, <2>3 DEF NavInv
<1>2. ASSUME NEW url, UserMoves(url) PROVE NavInv'
  <2>1. Numbered' /\ Underway' /\ ViewFits'
    BY <1>2, <1>a DEF UserMoves, Pending
  <2>2. /\ turn = "idle" /\ queue = <<>> /\ event' = TRUE
        /\ UNCHANGED <<lastBrowserUrl, location, queue, turn, current, adopted>>
    BY <1>2 DEF UserMoves, NavInv, Tasks
  <2>3. Tasks'
    BY <2>2 DEF NavInv, Tasks
  <2>4. Agree'
    BY <2>2 DEF NavInv, Agree, Pending, Matches
  <2>q. QED BY <2>1, <2>3, <2>4 DEF NavInv
<1>3. CASE UrlEvent
  <2>1. /\ turn = "idle" /\ queue = <<>> /\ event' = FALSE /\ lastBrowserUrl' = browserUrl
        /\ UNCHANGED <<browserUrl, location, route, shown, adopted>>
    BY <1>3 DEF UrlEvent, NavInv, Tasks
  <2>2. CASE lastBrowserUrl # browserUrl /\ location # browserUrl
    <3>1. queue' = <<[is |-> "parse", of |-> browserUrl]>> /\ turn' = "digest"
      BY <1>3, <2>1, <2>2, One DEF UrlEvent
    <3>2. /\ queue' = <<Head(queue')>> /\ queue' # <<>>
          /\ Head(queue').is = "parse" /\ Head(queue').of = browserUrl
      BY <3>1, One
    <3>3. Numbered' /\ Underway' /\ ViewFits'
      BY <2>1, <3>2, <1>a DEF Pending
    <3>4. Tasks'
      BY <2>1, <3>1, <3>2 DEF NavInv, Tasks
    <3>5. Agree'
      BY <2>1, <3>1, <3>2 DEF Agree, Pending
    <3>q. QED BY <3>3, <3>4, <3>5 DEF NavInv
  <2>3. CASE ~ (lastBrowserUrl # browserUrl /\ location # browserUrl)
    <3>1. queue' = queue /\ turn' = turn
      BY <1>3, <2>3 DEF UrlEvent
    <3>2. Numbered' /\ Underway' /\ ViewFits'
      BY <2>1, <3>1, <1>a DEF Pending
    <3>3. Tasks' /\ Agree'
      BY <2>1, <2>3, <3>1 DEF NavInv, Tasks, Agree, Pending, Matches
    <3>q. QED BY <3>2, <3>3 DEF NavInv
  <2>q. QED BY <2>2, <2>3
<1>4. ASSUME NEW url, ApplicationMoves(url) PROVE NavInv'
  <2>1. Numbered' /\ Underway' /\ ViewFits'
    BY <1>4, <1>a DEF ApplicationMoves, Pending
  <2>2. /\ turn = "idle" /\ queue = <<>> /\ turn' = "digest" /\ location' = url
        /\ adopted' = (adopted \/ (event /\ url = browserUrl))
        /\ UNCHANGED <<bar, event, queue, current>>
    BY <1>4 DEF ApplicationMoves, NavInv, Tasks
  <2>3. Tasks'
    BY <2>2 DEF NavInv, Tasks
  <2>4. Agree'
    BY <2>2 DEF NavInv, Tasks, Agree, Pending, Matches
  <2>q. QED BY <2>1, <2>3, <2>4 DEF NavInv
<1>5. CASE Reload
  <2>1. /\ queue = <<>> /\ queue' = <<[is |-> "reload", of |-> None]>> /\ turn = "idle" /\ turn' = "digest"
        /\ UNCHANGED <<bar, event, location, current, updates, waiting, shown, adopted>>
    BY <1>5, One DEF Reload, NavInv, Tasks
  <2>2. queue' = <<Head(queue')>> /\ Head(queue').is = "reload"
    BY <2>1, One
  <2>3. Numbered' /\ Underway' /\ ViewFits'
    BY <2>1, <2>2, <1>a DEF Pending
  <2>4. Tasks' /\ Agree'
    BY <2>1, <2>2 DEF NavInv, Tasks, Agree, Pending, Matches
  <2>q. QED BY <2>3, <2>4 DEF NavInv
<1>6. CASE LocationWatch
  <2>1. /\ turn = "digest" /\ queue = <<>> /\ queue' = <<[is |-> "change", of |-> browserUrl]>>
        /\ UNCHANGED <<bar, event, location, turn, route, shown, adopted>>
    BY <1>6 DEF LocationWatch
  <2>2. queue' = <<Head(queue')>> /\ Head(queue').is = "change" /\ Head(queue').of = browserUrl
    BY <2>1, One
  <2>3. Numbered' /\ Underway' /\ ViewFits'
    BY <2>1, <2>2, <1>a DEF Pending
  <2>4. Tasks' /\ Agree'
    BY <2>1, <2>2 DEF NavInv, Tasks, Agree, Pending, Matches
  <2>q. QED BY <2>3, <2>4 DEF NavInv
<1>7. CASE RunTask
  <2> DEFINE t == Head(queue)
  <2>1. turn = "digest" /\ queue # <<>> /\ Tail(queue) = <<>> /\ UNCHANGED <<event, turn>>
    BY <1>7, One DEF RunTask, NavInv, Tasks
  <2>2. CASE t.is = "parse" /\ UpdateRoute(t.of, Tail(queue), FALSE) /\ UNCHANGED <<bar, shown>>
    <3>1. PICK url : url = t.of
      OBVIOUS
    <3>2. ~ event /\ url = browserUrl /\ lastBrowserUrl = browserUrl
      BY <2>1, <2>2, <3>1 DEF NavInv, Agree, Pending
    <3>3. UpdateRoute(url, <<>>, FALSE) /\ UNCHANGED <<loaded, view>>
      BY <2>1, <2>2, <3>1
    <3>4. /\ Numbered' /\ Underway' /\ ViewFits'
          /\ current'.route = RouteOf[url.path] /\ (current'.route # None => current'.search = url.search)
          /\ queue' = <<>> \/ (queue' = <<Head(queue')>> /\ Head(queue').is = "locals")
          /\ adopted' \in BOOLEAN
      BY ONLY NavInv, <3>3, Updated
    <3>5. Tasks'
      BY <2>1, <3>4 DEF NavInv, Tasks
    <3>6. Agree'
      BY <2>1, <2>2, <3>2, <3>4 DEF Agree, Pending, Matches
    <3>q. QED BY <3>4, <3>5, <3>6 DEF NavInv
  <2>3. CASE t.is = "reload" /\ UpdateRoute(location, Tail(queue), adopted) /\ UNCHANGED <<bar, shown>>
    <3>1. PICK url : url = location
      OBVIOUS
    <3>2. UpdateRoute(url, <<>>, adopted) /\ UNCHANGED <<loaded, view>> /\ adopted \in BOOLEAN
      BY <2>1, <2>3, <3>1 DEF NavInv, Tasks
    <3>4. /\ Numbered' /\ Underway' /\ ViewFits'
          /\ current'.route = RouteOf[url.path] /\ (current'.route # None => current'.search = url.search)
          /\ queue' = <<>> \/ (queue' = <<Head(queue')>> /\ Head(queue').is = "locals")
          /\ adopted' \in BOOLEAN
          /\ ~ adopted' => ~ adopted /\ (location' = url \/ ~ event \/ location' # browserUrl)
      BY ONLY NavInv, <3>2, Updated
    <3>5. Tasks'
      BY <2>1, <3>4 DEF NavInv, Tasks
    <3>6. Agree'
      BY <2>1, <2>3, <3>1, <3>4 DEF NavInv, Agree, Pending, Matches
    <3>q. QED BY <3>4, <3>5, <3>6 DEF NavInv
  <2>4. CASE t.is = "change" /\ location' = t.of /\ queue' = Tail(queue) /\ adopted' = (adopted \/ event)
             /\ UNCHANGED <<bar, route, shown>>
    <3>1. Numbered' /\ Underway' /\ ViewFits'
      BY <2>1, <2>4, <1>a DEF Pending
    <3>2. Tasks'
      BY <2>1, <2>4 DEF NavInv, Tasks
    <3>3. Agree'
      BY <2>1, <2>4 DEF NavInv, Tasks, Agree, Pending, Matches
    <3>q. QED BY <3>1, <3>2, <3>3 DEF NavInv
  <2>5. CASE browserUrl' = location /\ lastBrowserUrl' = location
             /\ UpdateRoute(location, Tail(queue), FALSE) /\ UNCHANGED shown
    <3>1. PICK url : url = location
      OBVIOUS
    <3>2. UpdateRoute(url, <<>>, FALSE) /\ UNCHANGED <<loaded, view>>
      BY <2>1, <2>5, <3>1
    <3>4. /\ Numbered' /\ Underway' /\ ViewFits'
          /\ current'.route = RouteOf[url.path] /\ (current'.route # None => current'.search = url.search)
          /\ queue' = <<>> \/ (queue' = <<Head(queue')>> /\ Head(queue').is = "locals")
          /\ adopted' \in BOOLEAN
      BY ONLY NavInv, <3>2, Updated
    <3>5. Tasks'
      BY <2>1, <3>4 DEF NavInv, Tasks
    <3>6. Agree'
      BY <2>1, <2>5, <3>1, <3>4 DEF Agree, Pending, Matches
    <3>q. QED BY <3>4, <3>5, <3>6 DEF NavInv
  <2>6. CASE Locals(t)
    <3>1. PICK next : next = t.of
      OBVIOUS
    <3>2. OfItsNumber(next) /\ Succeed(next) /\ queue' = <<>>
          /\ UNCHANGED <<bar, location, route, adopted>>
      BY <2>1, <2>6, <3>1 DEF Locals, NavInv, Underway, Pending
    <3>3. ViewFits' /\ Numbered'
      BY ONLY NavInv, <3>2, Succeeded DEF route
    <3>4. Underway' /\ Tasks'
      BY <2>1, <3>2 DEF NavInv, Underway, OfItsNumber, Tasks, Pending
    <3>5. Agree'
      BY <2>1, <2>6, <3>2 DEF Locals, NavInv, Agree, Pending, Matches
    <3>q. QED BY <3>3, <3>4, <3>5 DEF NavInv
  <2>q. QED
    BY ONLY <1>7, <2>2, <2>3, <2>4, <2>5, <2>6 DEF RunTask, Update, Change, bar, route, shown
<1>8. CASE EndDigest
  <2>1. Numbered' /\ Underway' /\ ViewFits'
    BY <1>8, <1>a DEF EndDigest, Pending
  <2>2. Tasks' /\ Agree'
    BY <1>8 DEF EndDigest, NavInv, Tasks, Agree, Pending, Matches
  <2>q. QED BY <2>1, <2>2 DEF NavInv
<1>9. CASE UNCHANGED navVars
  BY <1>9 DEF navVars, NavInv, Tasks, Numbered, Underway, OfItsNumber, Agree, Pending, Matches, ViewFits, Shows
<1>q. QED BY <1>1, <1>2, <1>3, <1>4, <1>5, <1>6, <1>7, <1>8, <1>9, [NavNext]_navVars DEF NavNext

\* Whatever the urls, routes and redirects are, and however moves, events and answers
\* interleave: between events the address bar, $location and $route agree, unless the user has just
\* moved or $location was ahead of the event, and ngView shows the current route or none that was left.
THEOREM RouteStaysInStep == NavSpec => []RouteInStep
<1>1. NavInv => RouteInStep
  <2> SUFFICES ASSUME NavInv PROVE RouteInStep
    OBVIOUS
  <2>1. InStep
    BY DEF NavInv, Tasks, Agree, Matches, InStep
  <2>2. ViewIsCurrent
    BY DEF NavInv, Numbered, ViewFits, Shows, ViewIsCurrent
  <2>q. QED BY <2>1, <2>2 DEF RouteInStep
<1>q. QED BY <1>1, NavInvInit, NavInvNext, PTL DEF NavSpec
=============================================================================
