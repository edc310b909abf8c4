# TLA+ models of aQute

This directory holds TLA+ models of the aQute bundles (a collection of OSGi
components by bndtools, with their web pages and the scripts of these), the TLC
configurations that check them on small instances, and proofs that TLAPS
checks. Paths below are relative to `src/`.

Run from this directory:

    tlc -workers 2 -config TaskQueueNode.cfg MCTaskQueue     # and the other TaskQueue*.cfg
    tlc -workers 2 -config FileCacheReap.cfg FileCache       # and FileCachePartial.cfg
    tlc -workers 2 -config WebClient.cfg WebClient
    tlc -workers 2 -config WebScripts.cfg WebScripts
    tlc -workers 2 -config XRayListeners.cfg XRay
    tlc -workers 2 -config VaadinCleanup.cfg Vaadin
    tlapm TaskQueueProofs.tla
    tlapm CafsProofs.tla
    tlapm FileCacheProofs.tla
    tlapm Navigation.tla
    tlapm QueueProofs.tla
    tlapm PromisesProofs.tla
    tlapm HttpClientProofs.tla
    tlapm VaadinProofs.tla

## 1. The system

The repository is a collection of OSGi bundles. There is no single program:
components find each other through the service registry, and what couples them
is the store (Mongo), Hazelcast, the file system and the servlet container. The
pages that they serve are built on a handful of scripts that the bundles bring
along; by volume these scripts are the larger part of the program.

| # | Component | Source | State it keeps | Operations | Modules |
|---|-----------|--------|----------------|------------|---------|
| 1 | Task queue | `aQute.libsync/src/aQute/impl/task`, `service/task` | task records (Mongo), the shared map of active tasks and the sweep period (Hazelcast); per node a queue, a semaphore, the workers | queue, cancel, sweep, poll and execute, addWorker/removeWorker, activate/deactivate | `TaskQueue`, `TaskBoard` |
| 2 | File cache | `aQute.libsync/src/aQute/impl/filecache/simple` | files in the cache directory, names locked | get (create under a lock), reap | `FileCache` |
| 3 | Web client: scopes, promises, HTTP | `aQute.libsync/site/js/angular-1.0.0.js`, `angular-resource-1.0.0.js` | scope tree with watchers and tasks, deferreds and ticks, cache, requests and timers, resource instances | $new, $destroy, $digest; then, resolve, all; $http, $timeout; get, save, query, remove | `RootScope`, `PromiseQueue`, `Promises`, `HttpClient`, `Resource` |
| 4 | Web client: navigation | `angular-1.0.0.js` | address bar, $location, route, view | browse, set, reject, redirect, load a template; parse and compose urls | `Navigation`, `Urls` |
| 5 | Web client: pages | `angular-1.0.0.js` | validity of forms and controls, rows and options, compiled directives, handlers and data of elements | validate, add and remove controls; render; compile and link; on, off, trigger, remove; filters | `Forms`, `Lists`, `Compile`, `JqLite`, `Filters` |
| 6 | Web client: injector, expressions | `angular-1.0.0.js` | loaded modules, caches of providers and instances | load, get, invoke; lex, parse, get and set paths | `Injector`, `Expressions` |
| 7 | JSON | `aQute.javascript/scripts/json2.js` | gap, indent, rep | stringify, parse | `Json` |
| 8 | d3 | `aQute.xray/src/aQute/impl/xray/d3.js` | elements and data, transitions, the timer queue, layouts, behaviours | join, transition, remove, frame; scales, arrays, layouts, shapes; brush, zoom, drag, force | `DataJoin`, `Arrays`, `Scales`, `TreeLayouts`, `Charts`, `Shapes`, `Force`, `Gestures` |
| 9 | raphael and eve | `aQute.javascript/scripts/resources/raphael.js` | event tree, list of animations, order of elements, drags, cached boxes | on, off, once, fire, stop; animate, pause, resume, seek; toFront, insertAfter, remove; drag; paths | `Events`, `Animations`, `Layers`, `Paths` |
| 10 | X-Ray | `aQute.xray/src/aQute/impl/xray` (Java and `state.js`) | listeners by service; what the page shows | listener hook, state.json, layout; ask, draw | `XRay` |
| 11 | Site widgets | `aQute.jsite/site/js/bootstrap-*.js` | dialog and backdrops, tips, active tab, scroll offsets, button states | show, hide, the ends of transitions and timeouts, clicks and scrolls | `Dialog`, `Tips`, `PageWidgets` |
| 12 | Vaadin manager | `aQute.vaadin` | http services with their servlets, application factories, instances | set and unset an http service, add and remove an application, make an instance, close | `Vaadin` |
| 13 | CAFS | `aQute.libsync/src/aQute/impl/cafs` | content in the store by its digest, the tree of a builder | add, setTime, build, store, getCatalog, getEntry | `Cafs` |
| 14 | Mongo store, Hazelcast wrapper, executor | `aQute.libsync/src/aQute/impl/{store,hazelcast}`, `aQute.executor` | collections; an instance; a pool | update, find, filter; delegation; execute | as `TaskQueue` and `Cafs` use them |
| 15 | Library, importer, GitHub hook, REST | `aQute.libsync/src/aQute/impl/{library,gitposthook,github,rest}` | programs and revisions in the store | import, find, post hook, dispatch | none |
| 16 | Whiteboard servlet, JavaScript session, timer, web server, payments, AWS, and others | `aQute.servlet.whiteboard`, `aQute.javascript`, `aQute.timer`, ... | maps, a script scope, little | see section 10 | none |

How they interact. The task queue stores `TaskData` through the Mongo store,
claims tasks by `IMap.remove` of Hazelcast, sends the work to an
`java.util.concurrent.Executor` service and calls `Worker` services. CAFS and the
library share the store. The servlets are called by the container on many
threads while OSGi adds and removes the services they use on others. In the
browser there is one thread, but many turns: events, answers, timers, frames and
the ends of transitions come in any order between the calls of the page, and a
callback may call back into the library that is calling it. angular's $http and
$timeout resolve promises whose callbacks run in a digest; $location and $route
are watchers and listeners of the root scope; X-Ray's page polls its plugin and
draws with d3; a d3 transition, force layout or behaviour lives on d3's one timer
queue; raphael's animations and drags tell the page through eve.

What is hard in each:

* **Task queue.** Several nodes with a main thread and executor threads each,
  asynchronous events, a map that is no transaction with the database, clocks, a
  claim that times out and is retried, crashes, workers that throw, cancel racing
  an execution. Correct means: a task is executed once, not before its time, not
  after it is settled, eventually; one node sweeps at a time; permits are kept.
* **File cache, CAFS.** Find-then-create without a transaction, from many threads
  and processes that may die. Correct means: what is handed out is complete.
* **Web client.** Listeners that change the tree a digest walks over, promises
  resolved with promises, answers that race timers, a template that comes after
  the next navigation, controls that leave with their errors. Correct means: nothing is
  lost, called twice or shown for something else, and everything settles.
* **Drawing and widgets.** Drawings that supersede running transitions, pointers
  and fingers that come while others are down, callbacks of transitions that
  are late, lists that change under their own iteration. Correct means: the page
  ends up as the last call says, and what is dragged follows the pointer.
* **X-Ray, Vaadin.** Maps changed by service events while requests read them.
  Correct means: answers are of one state; no servlet of a service that is gone.
* **Pure parts** (expressions, urls, filters, JSON, scales, layouts, paths):
  boundary values and conversions that have to be undone exactly.

PROJECT.json lists every hazard with its line.

## 2. Plan and layout

The plan of the project, in its order, with what became of it:

1. `TaskQueue` with `TaskBoard`, its abstract specification; proofs: done
   (sections 3, 8 and 9).
2. `FileCache`; proofs: done (sections 4, 8 and 9).
3. The web client, module by module, and `WebClient`, which checks them: done
   (section 5).
4. The drawing libraries, X-Ray and the widgets, and `WebScripts`: done
   (section 6).
5. `Vaadin` and `Cafs`: done (section 7); proofs about both: done (section 9).
6. Theorems about `Navigation`, `HttpClient` and `Promises`: done (section 9).
7. Left: theorems about the other modules without recursive operators: `Forms`,
   `Tips`, `PageWidgets`.

**One run for many modules.** `WebClient` and `WebScripts` put modules that do not
share a variable side by side. The variable `subject` says which one moves in a
behaviour; the module's variables are substituted by the slots `s1, s2, ...`, and the
slots it does not need are `Null`. So each run is the union of the state graphs of
its subjects, each module on an instance of its own, given in the `INSTANCE` of the
run's module. A module that is an algorithm has one step, which picks an input; its
property compares what the algorithm makes of it with a definition of what it
should be. `CHECK_DEADLOCK FALSE`: such a subject stops after its step. The modules
that do work together are composed directly: `HttpClient` and `Promises` extend
`PromiseQueue`, `XRay` shares the matching of keys (`Arrays`) with `DataJoin`. The modules that have theorems, `Navigation`, `HttpClient`, `Promises`,
`Vaadin` and `Cafs`, are extended and not instantiated: the run checks the very property that the theorem is about, on the
constants of the cfg, and their variables stay as they are at first while another subject moves.

## 3. The task queue model

`TaskQueue.tla` models `TaskQueueImpl`, `BuilderImpl`, `TaskData` and the way
they use the executor, Hazelcast and Mongo. A `Node` is one activation of the
component.

| Variable | Code |
|----------|------|
| `state`, `after`, `before` | the fields of `TaskData` in the database (TaskData.java:9-22) |
| `activeTasks` | the keys of the Hazelcast map (TaskQueueImpl.java:147); the value is only a copy of the record |
| `added[n][t]` | `entryAdded` events on their way to the listener of `n` (:68) |
| `sweep`, `deadline[n]` | the shared number (:148) and the local of `run()` (:197) |
| `current` | the nodes for which `compareAndSet(deadline, ..)` would succeed |
| `cursor`, `expired`, `renewTo`, `renewed` | the loop of `sweep()` (:381-392): what the query found, the part past `before` at `now`, `now + latency`, the task between update and put |
| `queue[n]`, `held[n]` | the local queue (:41) and the polled task |
| `throttle[n]` | the semaphore (:51) |
| `stage[n][th]`, `job[n][th]` | the Runnables given to the executor (:240-300), waiting or running |
| `taskWorkers[n]` | the types with a worker (:42) |
| `inserting[n]`, `canceling[n]` | client threads between the two calls of `insert` (:182-184) and `cancel` (:112-113) |
| `mode`, `pc` | the life cycle of the component and the place of its main thread |
| `due`, `canceled`, `lost` | history, read by properties only |

Every call to the database, the map, the number, the semaphore or the executor
is a step of its own, so the calls of nodes, threads and clients interleave in
every order. A crash may come between any two steps and takes the node's
threads, queue, semaphore and pending events with it; the map and the number
survive on the other members.

**Time is relative.** A variable that stands for an instant holds how many
ticks are left until it. The clock (`Tick`) moves all of them together, so
time is unbounded while the state space is finite. `after` goes on to -1
because the sweep's query compares it with `<`; the others stop at 0. Two
deadlines that have both passed would be confused by their values; `current`
keeps apart which node's deadline still equals the shared number.
One clock serves all nodes, as the code assumes synchronised clocks.

**Left out.** `nosweep` and `clearForTest` (for tests), the `failures > 3`
disjunct (nothing ever increments `failures`), the 10 ms of slack in `insert`
(0 here), `stateChange`, the list of workers of one type (only its first is
used: a set of types here), the sleep after a failure in the loop, the queries
`getTask` and `getTasks`, an exception of the very first `sweep.get()` (it ends
the thread), the reflection by which `TaskWorker` finds the type of a worker.
Assertions are disabled,
as they are in production; with them, a sweep that overruns its period would end
the main thread (:218).

**Bounds.** `MaxBacklog` bounds the undelivered and queued offers of one task
at a node (`Room`): a task can be offered again only after its entry was
removed from the map, so a second copy in a queue, the interesting case, needs
`MaxBacklog = 1` for a late copy and 2 for a copy that is stale. `Thread` is
the executor threads plus the executor's queue; one more than the permits, so a
lost or minted permit shows. A client queues each task once, and cancels it
until a cancel returns true.

**Environment assumptions, each a constant.**
`Timely = TRUE`: time passes only when no thread can make a step, other than a
worker, or an offer that waits for a permit, before its task is due for another offer. This
is what the class doc's "only once" silently needs. `Timely = FALSE`: threads are arbitrarily slow.
`Faults = TRUE`: any remote call or the executor may throw.
`Late`, `Crashable`, `Stoppable`, `Cancelable`, `Dynamic` say what may happen
to which node, task or worker type.

**Fairness.** `ScheduledSpec`: threads are scheduled (the JVM), events arrive and
calls return (Hazelcast), time passes; a worker may fail every time. `FairSpec`
adds that a worker that is called with a task again and again does not throw
every time (strong fairness of its return: without it nothing can promise
success). Nothing obliges a client to queue or
cancel, a node to crash or stop, a worker service to come or go, or a call to
throw. `Acquire` needs only weak fairness since the main thread is the only
one to acquire.

**The abstract specification.** `TaskBoard.tla` says what the queue promises of a
claim, without queues, events, sweeps, permits or time: tasks are offered on a
board, a node takes one off it, gives it to a thread, the thread may record the
outcome. `ImplementsTaskBoard` maps the board to `activeTasks`, the records to
`state`, the running tasks to `job` and a node's claim to `Claimed`, the task it
holds between `activeTasks.remove` and `executor.execute`. What a step of the
queue may be, seen from there: an insert stores; a put (by a client, a sweep or
a Runnable without a worker) offers, and only a task that has a record; a
remove by a cancel or an expiry withdraws; `Claim` takes, `Execute` runs,
`LoopFails` may abandon; all else stutters. So an execution uses up an offer of
its own, and no step but a client's or an executor's writes a record's state.

## 4. The file cache model

`FileCache.tla` models `SimpleFileCacheImpl`: threads that call `get`, the
reaper, `deactivate`, the death of the process.

| Variable | Code |
|----------|------|
| `disk`, `readOnly`, `recency` | the directory: the file of each name (none, partial, complete, torn by a crash), its permission, the order of the modification times |
| `bytes` | what of each file is written: its length so far, in blocks; a creator truncates and writes it piece by piece |
| `writer`, `open` | whose content a file will have: the thread that opened, and so truncated, it last; a thread whose file was deleted writes to an unlinked file, and is not in `open` |
| `locks` | the set `locks` (SimpleFileCacheImpl.java:44) |
| `pc`, `name`, `max` | each thread's place in `get` and its locals |
| `reaper`, `victims`, `size` | the timer task, then the sorted set and the local of `reap()` (:182-202); `stopped` only matters to a reap that was submitted and has not scanned |
| `lost` | history: the blocks that creators truncated or deleted since the scan; no guard reads it |

The calls to the file system and to `locks` are steps of their own. `lock` is
modelled as it is written: when the name is there it returns too, because the
deadline, a minute ahead, is still in the future (:151); only a thread that
needed a minute to enter the monitor (`MayStall`) gets to `wait`, which throws,
as it does not own the monitor of `this`. A name stands for its digest. The
scan of the directory is one step, which adds up the lengths of that moment (:218), those of
half-written files among them; the loop over the set is left as soon as the size is below the limit. Of
files with equal modification times the sorted set keeps one, so the scan may
keep any of the files.

**Left out.** The choice of the directory, a cache without a directory (every
`get` then has a temporary file of its own), subdirectories (nothing makes
them), logging, and the two methods on expiration (stubs). `Limit` is
`config.size()` in blocks, and files are of one length when they are whole. The code catches
`Exception` (:123), so an `Error` of the callback would leave its partial file: a throw of the model is an `Exception`. A new activation while threads of the old one are
still in `get` is not modelled: the component comes back after a crash only.

**Fairness.** `FairSpec`: each thread in `get` goes on; callbacks and file
operations return or throw. Nothing obliges the reaper, a callback to succeed, a
client to call, the component to stop or the process to die.

**Bounds.** None: two threads and two names make the state space finite. Two
threads are needed for each race of a creator with another caller; two names so
that the size of one file keeps the reaper busy with the other. A file has one block, so a
half-written one is empty or as long as a whole one, and the limit is two: what matters to the
reaper is whether a length that it added up is still there.

## 5. The web client

All of it models `angular-1.0.0.js` (AN below), `angular-resource-1.0.0.js` and `json2.js`.
The names of variables and actions are those of the code.

| Module | What it models, and how | Bounds in the run |
|--------|-------------------------|-------------------|
| `RootScope` | scopes with their sibling links, watchers with `last`, `$evalAsync` queues; a digest is a machine whose steps are one task or one watcher, since listeners and tasks may create and destroy scopes and write what others watch; a listener may digest a detached scope, so digests nest | 4 operations (`Budget`), 3 scopes, `TTL` 1 |
| `PromiseQueue`, `Promises` | deferreds, callbacks, ticks; callbacks return values, rejections or promises, or throw; `$q.all` | 4 deferreds, 2 calls of then and all (`MaxLinks`) |
| `HttpClient` | `$http` with cache and timeout, `$httpBackend`, `$timeout`, the counter of `$browser`; an event is a turn with its ticks, whose digest may throw | three requests, two of one cached url, two with timers, one whose `transformResponse` may throw (`Throwing`), one whose digest may throw at its limit (`Unstable`); a `$timeout` |
| `Resource` | instances over a server, whose answers are late or lost; `Route.url` on templates | 2 instances, 2 calls |
| `Navigation` | address bar, `$location`, the `$locationWatch`, `$route.update`, `ngView` and templates | 3 moves (`MaxMoves`), a redirect, a remote template |
| `Urls` | LocationUrl, LocationHashbangUrl and their conversions, on sequences of characters | |
| `Forms` | form and model controllers over nested forms, parsers and validators, those among them that answer when their control has left; every form and control is made once, what comes again being another | a form in a form, two controls of one model |
| `Lists` | `ngRepeat` with its `HashQueueMap`; `select` with `ngOptions` | 3 items |
| `Compile` | collectDirectives to link with priorities, terminal, transclusion, `templateUrl` | up to 3 of 8 directives, 2 copies |
| `JqLite` | handlers, expandos and data of elements, nested triggers, removal | 3 elements, 2 expandos |
| `Filters` | filter, orderBy, limitTo, number, date | |
| `Injector` | loading modules that require each other, providers, instances, errors | 4 modules, 3 services, 2 gets |
| `Expressions` | lex and parser on sequences of characters; getters and setters | trees of depth 2 |
| `Json` | `stringify` with replacers, toJSON and gaps; `parse` with its test and revivers | |

**Fairness** (`WebClient`): a digest that runs takes its next step, ticks run and turns end (one
JavaScript thread), an open request is answered or aborted and a timer fires. Nothing obliges the
application to call, nor a promise to be resolved.

**Where the code does less than one might expect**, the property states the exception in its comment, or the
instance leaves the case out:

* `done` removes the url of a failed request from the cache; if the entry has been evicted since, `cache.remove`
  throws and the promise is never answered (AN:8839, `Done` in `HttpClient`). The cache of the instance holds both urls.
* A validator that answers after its control was removed writes to the form all the same (AN:11654): if it finds the
  control invalid, the form is so for good, though all that is in it is valid, unlike what the comment of `$valid` says (AN:10462).
  `ErrorsExact` names these controls (`late`) beside those in the form. Only a nested form that was destroyed is told nothing.
* A digest that throws out of `done` leaves `outstandingRequestCount` one too high for good (AN:8984-8985): what waits for
  no outstanding requests waits for ever. `OutstandingExact` says that the requests whose `done` threw (`lost`) are counted
  and nothing else that is over.
* When a `transformResponse` throws, the application hears of what was thrown, not of the answer (AN:8638, `HeardOnce`).
* `encodeUriQuery` writes "null" for null (AN, `Urls`).
* An instance of a resource that is saved again before its first answer is saved as a second record, and the later answer
  overwrites the earlier (`InstanceTracks` asks for answers that were awaited). A parameter that
  stands in two places, or whose value looks like another parameter or like `$1`, is not read back (`UrlFits`).
* When `$location` takes the url of a move before the event of the move has come, the route stays behind (`InStep`).
* json2's `parse` accepts some texts that are not JSON (`Lax`), but never one that indexes or calls. Its `gap`, `indent` and `rep`
  belong to the module: a `toJSON` that calls `stringify` changes them for the rest of the outer call.

## 6. The drawing libraries, X-Ray and the widgets

| Module | What it models, and how | Bounds in the run |
|--------|-------------------------|-------------------|
| `DataJoin` | `data(key)`, enter, exit, order, `transition`, `remove` and the timer queue of d3 with its frames; a drawing is what a page does with them | 3 drawings of 5 data sets, 4 elements |
| `Arrays`, `Scales` | summaries, bisect, range, nest; linear, quantize, quantile and ordinal scales, ticks (also of log scales) and nice; interpolation of strings, objects and transforms | domains and ranges of up to 4 values |
| `TreeLayouts`, `Charts`, `Shapes` | tree, cluster, partition, treemap, bundle; pie, stack, histogram, chord; lines, areas, arcs, chords and axes, in units chosen so that nothing is rounded | trees of up to 8 nodes |
| `Force` | the force layout with hovering and dragging, one dimension; the quadtree | 2 nodes, 4 calls |
| `Gestures` | the brush (`BrushInit`, `BrushNext`) and the zoom behaviour with mouse, wheel and fingers in any order, and a page that sets the view (`ZoomInit`, `ZoomNext`), one dimension | a range of 4 pixels, an extent that has left it is followed as far again; scales 1 and 2, two fingers, two places, a lost view is followed to the next reset |
| `Events` | the tree of names with wildcards, z-indexes, stop, once, events within events; drags with fingers, and a page that drags, undrags or throws when it is told of an end | 4 calls; lists of 2 drags, `drag()` twice for an element |
| `Animations` | the list that every frame walks, keyframes, pause, resume, seek, repeat, stop, remove | 3 calls, frames of 16 ms |
| `Layers`, `Paths` | the order of elements and of sets; paths absolute, relative and as curves, transformations, cached boxes | 5 calls; paths of 4 segments |
| `XRay` | the build of the state with its layout; the listener hook, the requests and the page that draws them with `DataJoin`'s joins | 2 changes, 2 open requests, 1 lost answer |
| `Dialog`, `Tips`, `PageWidgets` | show and hide with their transitions and timeouts; tips with delays; tabs and dropdowns, scroll spy, buttons, alerts | 3 calls, 2 delays |

**Fairness** (`WebScripts`): a frame or timeout that was asked for comes (page, force, animations), the
browser ends the transitions of a dialog and its backdrop, with or without an event; the timer of X-Ray fires, its plugin serves every request
and the answers come. Where weak fairness on a frame is by a time step, frames may be of any of the
lengths in the instance.

**Where the code does less than one might expect** (stated as exceptions in the comments of the properties, or left out of the
instance):

* d3: the keys of the data differ, as a join does not keep elements with one key apart (`DataJoin`). A listener of the end of a
  force layout that heats it again gets no ticks (d3.js:5187), and a second finger makes the window forget the drag of the
  first, whose node stays fixed (:4668) (`Force`: `Runs`, `Unpinned`). The space bar while alt is held takes the extent out of its
  range (:4427, `astray` in `ExtentHeld`). Fingers leave their locations in the variable of the wheel (:4868): a wheel that
  turns before the mouse moves makes the translation NaN (`Lost` in `InView` and `Pinned`), and a touch that goes on after
  mouse or wheel throws or does the same (:4884). A view that the page sets while the wheel turns jumps back (`meddled`).
* raphael: two listeners of eve with one z-index have one place in the queue (`Ordered`); the second `resume` of an animation loses
  its origin, and the second frame after a `resume` jumps where there are several keyframes (:2942, `Continues`); `undrag` takes the document's handlers while something else is dragged, and a page that throws, or takes the last
  draggable away, when it is told of the end of a drag leaves the list full (raphael.js:2014): nothing is dragged ever after
  (`cut` in `DragsEnd`); an element that
  is put next to a set is put next to the set itself in the list (`Linked`); a box is stale if it was asked for without its
  transformation in between (`BBoxFresh`).
* X-Ray: icons may lie upon each other in the first column (XRayWebPlugin.java:280; `Apart`), and the last rows of a column may
  be full with four bundles, which ends the build (`Occupy`). A listener that a build has dropped for good (:247) is not shown
  (`missed` in `UpToDate`; without the exception `ProvidesState`, finding 5).
* bootstrap: a dialog that is shown while it, or a backdrop, is on its way out gets a second backdrop (`early` in `Dialog`). A
  browser may drop the event that ends a transition (bootstrap-modal.js:133): for the dialog there is a timeout, for its backdrop
  there is none, so the dialog is not displayed (:174) or the backdrop stays (:181) until the backdrop moves again (`dropped`).

## 7. The Vaadin manager and CAFS

`Vaadin.tla` models `VaadinOSGiManager`. What is done under its lock is one action: `SetHttp`,
`UnsetHttp`, `AddApplication`, `RemoveApplication`. They register the servlets of a map in an order of its
own and stop at the first that throws, with its entry made already (`Register`). `registerServlet` may throw for any
of them: the alias is taken, by this bundle or another, or is malformed, or the servlet's `init` fails; those that are
registered have aliases that were free. `https` and `apps` are the
fields, `registered` is what the http services themselves hold. The keys of `apps` are distinct objects
(an identity map with a new string for each factory), so `apps` is a set of factories, and nothing is ever
taken out of it. `servlets` and `closers` are the closing outside of the lock: `Close`, `Dispose`,
`Clear` are the steps of `close()`, between which `GetNewApplication` and `PutInstance` put new instances in the
same map; `CloseThrows` is an application that throws or a walk that finds its map changed.
A pair of an http service and a factory has one servlet at most, so it is its name; a service that
went and came again is another one. `ConfigureThrows` is an http service under which `/VAADIN` cannot be registered: it
never gets into `https`.

The shadow registry is what the doc calls it, but for what could not be registered (`Shadowed`): the entries that
`registered` has are in `https`, and an entry of `https` is either registered or a servlet that never was. A
factory is served everywhere unless a registration has thrown with the same service or for the same alias (`Served`);
`Excused` says so of the servlets that were made, so an excuse never expires.

The doc of the servlet says that all its instances are disposed if it is closed. They are, if they were put before
and nothing throws (`Disposed`); an instance that is put while it is closed may be missed and then
forgotten by `clear()`.

`Cafs.tla` models builders and the store they share. A digest is what it is the digest of: `<<"data", c>>`
or `<<"catalog", entries>>`. `Build` computes the digests of the tree (`Digests` is `fixupCatalogs` and
`getCatalogData`, as a recursive function on the paths); `Find` and `Insert` are the two calls of `CAFSImpl.store`, for the nodes in any order;
`Fail` is an insert that fails or a process that dies; `Restart` another builder. The query for what is
stored already (CatalogBuilderImpl.java:41) never finds anything, as `MongoCursorImpl.in` leaves the values
out of the query (MongoCursorImpl.java:241-256): every node is asked for. A builder whose insert
comes second fails, since `_id` is unique (the comment at CAFSImpl.java:69-71 expects duplicates instead).
`getEntry` looks a folder up only where what is left of the path is a slash, since it asks for a
slash behind the first character (CatalogImpl.java:20, :32): `/`, and `/` below a folder, find the folder of that name, and no other
folder is an entry. The root of a catalog never gets its digest, so `getId()` is null, and comments are not written: neither is in the model.

## 8. What the runs show

| Run | Instance | Question |
|-----|----------|----------|
| `TaskQueueNode` | 1 node, 2 permits, 3 threads, a periodic task, workers come and go, cancel, stop, crash, every call may throw | `TypeOK`; `PermitAccounting`: on every path of `run()` each permit is somewhere, except those lost when a call throws between acquire and execute |
| `TaskQueueSweep` | 2 nodes of arbitrary speed, one may crash, the other joins late, a delayed task | `SweepExclusive`: two nodes sweep together only if one overran its period; `NotBeforeDue`: a delayed task is not offered early; `ImplementsTaskBoard`; `SettledStays`: late events, stale queue entries and later sweeps do not bring a finished task back |
| `TaskQueueOnce` | 2 timely nodes, one may crash, a one-shot task with an expiry and a periodic one, workers may throw | `ExecutedOnce`; `EventuallyExecuted`; `ExpiryEndsRetries`: once expired, a task is at last neither offered nor run |
| `FileCacheReap` | 2 threads, 2 names, a limit of two blocks; everything may throw, stall, stop, crash | `TypeOK`; until the reaper deletes: `SoleCreator`, although the lock keeps nobody out, and `CompleteStays`; always: `NoDebris` (every partial file has a thread that will complete or delete it), `NeverBelowLimit` (the reaper deletes only while what is there, with what creators took back since its scan, reaches the limit: its sizes are stale, not wrong), `GetReturns` |
| `WebClient` | sections 2 and 5 | digests settle and end, promises are kept, requests counted, heard and answered; route and view, forms and models in step; modules and directives once, in order; what is written is read back |
| `WebScripts` | sections 2, 6 and 7 | drawings show the last data and come to rest, gestures follow the pointer, numbers, layouts and charts fit; X-Ray shows one state, and the last at last but for the listeners of finding 5; widgets show what was asked; servlets and their instances (`ServicesHold`), catalogs (`CatalogLeads`) |
| `TaskQueueOverrun` | as little as 1 node that is not timely | finding: `ExecutedOnce` fails |
| `TaskQueueCancelRace` | 1 timely node | finding: `CancelFinal` fails |
| `TaskQueueLateNode` | a node joins late, the other crashes | finding: `EventuallyExecuted` fails |
| `FileCachePartial` | 2 threads, 1 name, nothing fails | finding: `GetsComplete` fails |
| `XRayListeners` | a bundle that listens comes while the state is built | finding: `ProvidesState` fails |
| `VaadinCleanup` | 1 http service, 1 factory | finding: `CleanedUp` fails |

Why the instances are large enough: the task queue treats tasks independently
except for permits and the queue order, and two nodes are enough for each race
(finder and claimer, sweeper and sweeper, executor and canceller; that a cancelled task
stays so with two nodes is proved, section 9). A latency of
2 ticks gives a sweep time of 1, so that a period ends before a claim does, as
in the code (`latency / 2`). In the browser two actors of each kind make every race of the code:
two requests of a url, two fingers, two transitions of an element, two builders. Where three are
needed there are three: items of a list, scopes (a parent with two children), elements around a set,
factories (two of one alias and another behind them). The inputs of algorithms go over every
combination of a few values with the boundaries among them: empty lists, null and NaN, equal and reversed
values, one more than a limit.

The runs of the task queue use `CHECK_DEADLOCK FALSE`: a cluster whose nodes have all crashed or
stopped has nothing to do.

### Findings

1. *A task may be executed twice* (`TaskQueueOverrun`). The sweep puts a QUEUED
   task back in the map `latency` after it was offered, whether or not a worker
   is still busy with it (TaskQueueImpl.java:387-389); nothing extends the
   claim. The class doc promises "executed correctly only once" (:23).
2. *A cancelled task may end up SUCCEEDED* (`TaskQueueCancelRace`). `cancel`
   returns true and the record is CANCELED, then the executing Runnable writes
   SUCCEEDED without looking at the state (:267). The test asserts CANCELED
   after cancel (TaskQueueTest.java:95-96).
3. *A task may never be executed* (`TaskQueueLateNode`). A node that joins while
   the task is in the map gets no `entryAdded`; when the node that had it
   queued crashes, every later sweep puts a key that is still present, which
   raises `entryUpdated`, and that is ignored (:101-103). The comment says the
   sweep verifies "that all to be active tasks are actually" (:377).
4. *A file may be handed out before its content* (`FileCachePartial`).
   `createNewFile` makes an empty file, `isFile` is then true for everybody
   (:110), and the second thread returns it at once. The test expects the whole
   content (FileCacheTest.java:61). Holding the lock longer would not help: it
   does not exclude (:151).
5. *X-Ray may stop answering for good* (`XRayListeners`). A listener of a bundle that came after
   `getBundles` was read is removed from the list of its service (XRayWebPlugin.java:250); the list stays, empty,
   the service has no row, and every later build throws. The class comment says the servlet provides
   the state of the framework (:33-34).
6. *A factory that is gone is registered* (`VaadinCleanup`). `removeApplication` does not take it out of
   `apps`, so the next http service gets a servlet of it; and if a factory with the same alias came since, as after an
   update of its bundle, one of the two registrations throws and the rest of the http service is left without
   servlets. The class doc says the data structures are cleaned up (VaadinOSGiManager.java:26-27).

`TaskQueueOnce` shows that without the causes of 1 and 3 (timely workers, both nodes there from
the start) a task is executed in the end, and never by two Runnables at a time. That is less than the
doc's "only once": a node that dies after its worker returned and before the record says so (TaskQueueImpl.java:261-271)
leaves a task that another node executes again, one after the other.

## 9. What is proved

`TaskQueueProofs.tla` proves for every number of nodes, tasks, threads and
types, every latency, period and parallelism, from `TaskQueueAssumption` (and for `TimelyTasksRunOnce` from `Timely`):

| Theorem | States | Argument |
|---------|--------|----------|
| `TypeCorrect` | `Spec => []TypeOK` | `TypeInv` adds what the types need: a task is held wherever the main thread will use it, and a busy Runnable has one (`JobTask`) |
| `SweepsAreExclusive` | `Spec => []SweepExclusive` | `SweepInv`: a node whose copy of the deadline is current has the shared value, and any other node's copy has been reached; so when a node wins the compareAndSet, no other node that is still sweeping is within its own period |
| `TasksWaitUntilDue` | `Spec => []NotBeforeDue` | `DueInv`: while `due > 0` the record's `after` is not before it, so no query finds the task, and nothing that could offer it is under way |
| `SettledTasksStay` | `Spec => SettledStays` | `UntouchedStays`: nothing but a query or an insert starts an offer, and both look at the state; no record is written but by a cancel of a QUEUED task or by a Runnable that has the task |
| `PermitsAreAccounted` | `Spec => []PermitAccounting` | `PermitInv` adds that a node not yet active has no thread; `BusyThreads` counts the Runnables |
| `TimelyTasksRunOnce` | `Timely` gives `Spec => []ExecutedOnce` | `OnceInv`: a task in the map is in no hand, and no task in two (`OneHand`); the record of a task that is in a hand, or on offer where a free thread may take it, has not passed its `after` (`InTime`), so no query finds it and a sweep that found a task before puts it back while nobody has it (`VisitsIdle`) |
| `QueueImplementsBoard` | `Spec => ImplementsTaskBoard` | `BoardInv` adds to `TypeInv` and `DueInv` that an idle thread has no task; by `DueInv` a task on its way to the map has a record, by `IdleJob` the thread a claim is given to is free. One lemma per kind of step (`MainThreadImplements`, ...) |

`FileCacheProofs.tla` proves from `FileCacheAssumption`, for any number of
threads, names and rounds, any length of the files and any limit:

| Theorem | States | Argument |
|---------|--------|----------|
| `OneCreator` | `Spec => []SoleCreator` | `CreatorsFile`: as long as nothing is reaped a creator finds its file as it left it, so it exists and `createNewFile` refuses everybody else |
| `CompleteFilesStay` | `Spec => CompleteStays` | the same: whoever opens or deletes a file finds it partial |
| `NoDebrisIsLeft` | `Spec => []NoDebris` | `Attended`: a partial file is in the hands of the thread that opened it last, or of its creator if nobody has; this also holds while the reaper deletes files under their creators |
| `CacheTyped` | `Spec => []TypeOK` | `TypeInv`: a thread in `get` has a name, and `recency` has every file there is once (`Ordered`), a stream that is not unlinked has its file (`Linked`), with lemmas about sequences without their kth element |
| `ReaperKeepsLimit` | `Spec => NeverBelowLimit` | `ReapInv`: the size the reaper still counts on is at most the number of blocks there are or were taken back since the scan (`Accounted`); whatever threads do, these only grow (`ThreadsAccount`), and a file that is evicted leaves with no more blocks than the reaper subtracts |

**What `Timely` assumes, and why.** In `ExecutedOnce` the code relies on two facts of which it makes sure of neither:
workers return, and an offer that waits for a permit gets it, before the task is due for the next sweep. The
first is the cause of finding 1. The second was found by the proof: with workers in time only, `OnceInv` is not inductive and TLC has a
behaviour of 2 nodes and 3 tasks in which a node with one permit holds a polled task for so long that its sweep
offers it again, and both offers are taken. `Quiescent` states both, and `TaskQueueOverrun` shows that the
property fails without them.

`Navigation.tla` has its theorem itself. It is proved for all urls, routes and redirects, and without bounds on the moves:

| Theorem | States | Argument |
|---------|--------|----------|
| `RouteStaysInStep` | `NavSpec => []RouteInStep` | `NavInv`: the digest has one task at most (`Tasks`); updates of `$route` are numbered and the locals under way are those of their number (`Numbered`, `Underway`), so a late template is told from a current one; in each phase of a digest the address bar, the browser's last url, `$location` and `$route` agree up to the comparison that is pending (`Agree`) |

`HttpClientProofs.tla` proves, for any requests, urls and timers, finitely many, and any callbacks, two theorems. The first is for a
cache of any capacity, the second for one that has room for every url (`Roomy`). The cache of `$http` is made without a capacity (AN:8245),
so it has; with one that evicts, `done` throws for a request whose entry is gone and its promise is never resolved (see section 5):
then it is rightly in `pendingRequests` for good. Any `transformResponse` and any digest may throw (`Throwing` and `Unstable` are arbitrary).

| Theorem | States | Argument |
|---------|--------|----------|
| `AnswersHeardOnce` | `HttpSpec => [](OutstandingExact /\ PendingExact /\ HeardOnce)` | `HttpInv` for the count: within a turn it also holds what the turn completes (`Counted`), which is the answer of one request at most (`Ending`). `AnswerInv` for the rest, on top of the `QueueInv` of the promises (below): every request that was made is served by one request of its url, itself or the one whose promise or answer was in the cache (`Serves`), and until that one is answered both its callbacks wait, the one that takes it off `pendingRequests` and the one that passes the answer on; what is in the cache is the promise of a request that was made, or an answer that came (`Stored`); each answer is one that came for the url (`Told`); what was heard is over and nothing waits to be heard again (`HeardBy`). `RequestChained` says what `sendReq` leaves in the queue in its three cases |
| `RequestsStayAccounted` | `Roomy` gives `HttpSpec => []RequestsAccounted` | `HttpInv`: the cache holds, for each open request that shares its answer, the promise of this request (`Placeheld`), so a second request of the url finds it, whatever else was put, removed or aborted in between; nothing is under way for a request that was not made (`Unsent`) nor for a timeout that ran or was cancelled (`TimersOver`); with `AnswerInv` |

`PromisesProofs.tla` proves, for any number of deferreds, of callbacks and of calls of `$q.all`:

| Theorem | States | Argument |
|---------|--------|----------|
| `PromisesDeliver` | `PromisesSpec => []AllDelivered` | `PromisesInv`. Of the queue, in `QueueProofs.tla` (`QueueInv`): no deferred waits for itself, that is, a rank decreases along the deferreds that were resolved with each other (`Ranked`); a callback is in one place only, in the list of a deferred or in a tick (`Once`), and that is where what it was added to has come to (`Placed`). Of the application: what ran waits no more and ran with what its promise came to (`RanOver`), a callback of then waits until it runs (`NoneLost`), and a part of `$q.all` that is missing waits or was rejected (`Parted`) |

What a promise has come to (`Final`) is a recursion along the deferreds. That it satisfies its equation (`EndsEquation`), that a
resolution moves just what had come to the deferred (`FinalOnResolve`) and keeps the ranks (`RankOnResolve`: what led to the deferred is
ranked above all the rest) is proved by induction over the rank. `ResolveKeeps`, `HandKeeps` and `ThenKeeps` say what the
operations leave of `QueueInv`, for any callbacks; the theorems about `$http` rest on them as well.

`VaadinProofs.tla` proves, for any http services, factories and aliases, finitely many and distinct objects (`Registrations`):

| Theorem | States | Argument |
|---------|--------|----------|
| `ServicesStayInStep` | `VaadinSpec => []ServicesHold` | `VaadinInv`: whatever stands under an alias is a servlet that was made for a factory of this alias (`Entries`, `Made`), the shadow follows the http services but for servlets that were never reached (`Follows`), what is being closed is closed or unregistered (`Closings`), and each servlet accounts for its instances: put, left to close, disposed (`Accounted`). `RegisterEnters` says what `register` leaves in the maps, for pairs in any order and wherever it throws: what was registered stays, and either every pair is registered or one is left that is not reached (`StillExcused`, `StillServed`); `Coming` and `Going` carry the invariant over services that come and go |

`CafsProofs.tla` proves, for any number of builders, any names, folders and contents, and any order of the nodes:

| Theorem | States | Argument |
|---------|--------|----------|
| `CatalogsLead` | `CafsSpec => []CatalogLeads` | `CafsInv`: trees are closed under the folders of a path and of bounded depth; what a build has found in its tree is stored, left to be stored, or the node it is at, and is the digest of something. When nothing is left the digests of all nodes are in the store, so `TreeLeads` can follow any path: an entry's digest is that of the node below (`Follow`, `ReachedThere`), and the digest after the last name is that of the file, whose content it is (a folder is found only where what is left of its name is a slash). What is stored stays stored, whoever fails |

Digests and the search in a catalog are recursive functions. That they satisfy the equations that define them is proved
too (`DigestsEquation`), from the deepest nodes upwards. The induction theorems of the library have an operator
parameter, which none of the provers can instantiate; `Least` and `Induct` state them for sets, from the
well-foundedness of the natural numbers.

Each proof has one step per action; the temporal steps are by PTL.

### Only model-checked

The liveness properties
(`EventuallyExecuted`, `ExpiryEndsRetries`, `GetReturns`, `DigestEnds`, `Answered`,
`ComesToRest`, `XRayUpToDate`: the prover does not reason about fairness). Of the web client, the drawing
libraries and the services behind them everything but the navigation (`RouteInStep`), the requests (`RequestsAccounted`), the promises (`AllDelivered`), the Vaadin manager
(`ServicesHold`) and the catalogs (`CatalogLeads`): many of their modules define trees, texts and
lists by recursive operators, about which the prover cannot reason, and what an algorithm computes for all inputs would be an
induction over each of them.

## 10. Not modelled

Of the scripts: attributes, text, colours and the VML backend of raphael; colours, geography, maps of the DOM
and the monotone interpolator of d3; scope events, decorators, isolate scopes, link rewriting and most of the small
directives of angular; placement in tips. They are shorthands for the browser or layout, with little state.

Of the bundles:

* **Library and importer, GitHub hook.** The importer decides by `Verifier` patterns from another
  project which fields are good: `check` (LibraryImporterImpl.java) gives the pattern the name of the field and not
  its value, so what a model would do depends on a class that is not here. The worker of the hook catches every exception, so its task
  is SUCCEEDED whatever the import came to. What is left is one read, change and write of a program, whose hazard is in the list.
* **Mongo store.** Filters and codecs are conversions for an external database. `TaskQueue` and `Cafs` model the
  updates, finds and inserts they make as atomic. (`orderBy` puts the order into the options of the projection, and `in`
  leaves its values out.)
* **JavaScript session.** Not reachable: the servlet makes its first session in a field initialiser, before its
  constructor sets what that needs.
* **Whiteboard servlet.** Its reference tracks `HttpService`, which it then casts to `HttpServlet`; no servlet can be added.
* **Timer.** The list of tasks it keeps is never read; java.util.Timer does the work.
* **Executor, Hazelcast wrapper.** Delegation; modelled as the task queue uses them.
* **Web server.** Requests are served under one lock. Its cache by path is checked against the times of the file and of the
  bundle; an entry is not looked up again when a directory or another bundle takes its path over. A model would consist of the
  times of files and bundles; it was left for the components with more than one actor.
* **REST, configurer, exporter, mail, blob store, AWS, payments, loans, flow, sockets, logger, dynamic DNS, key store,
  site generator, editor, samples.** Sequential code that parses, formats or calls an external service; no state that two actors share.
