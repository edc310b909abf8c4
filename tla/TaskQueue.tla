------------------------------ MODULE TaskQueue ------------------------------
(***************************************************************************)
(* The clustered task queue of aQute.libsync (aQute.impl.task).  Every     *)
(* Node is one activation of TaskQueueImpl: a main thread, a local queue,  *)
(* a semaphore and an executor.  The nodes share the task records kept in  *)
(* Mongo (state, after, before), the Hazelcast map activeTasks, whose      *)
(* entryAdded events reach every listening node asynchronously, and the    *)
(* Hazelcast number that holds the end of the current sweep period.        *)
(*                                                                         *)
(* Time is relative: a variable that holds an instant in the code holds    *)
(* here how many ticks of the clock are left until that instant.  `after'  *)
(* distinguishes "now" (0) from "passed" (-1) because the sweep compares   *)
(* it with <, deadlines and `before' are compared with <= and stop at 0.   *)
(* So time is unbounded in a finite model.                                 *)
(***************************************************************************)
EXTENDS Integers, Sequences, FiniteSets

CONSTANTS
    Node,        \* activations of the component in the cluster
    Task,        \* task ids
    NoTask,      \* no task (a null)
    Thread,      \* executor threads and executor queue slots of one node
    Type,        \* class names of the work objects
    Dynamic,     \* types whose workers come and go while the node runs
    TypeOf,      \* the type of each task
    Periodic,    \* the tasks built with periodic(..)
    Period,      \* their period, in ticks
    Parallel,    \* permits of the throttle
    Latency,     \* ticks a task may take before a sweep offers it again
    Delays,      \* values of Builder.delay a client uses
    Expiries,    \* values of Builder.expires a client uses, or Forever
    Forever,     \* Long.MAX_VALUE
    Late,        \* nodes that join while the others are already running
    Cancelable,  \* tasks a client may cancel
    Crashable,   \* nodes that may crash
    Stoppable,   \* nodes that may be deactivated
    Faults,      \* TRUE: calls to the map, the database, the executor may throw
    Timely,      \* TRUE: time passes only between the threads' steps
    MaxBacklog   \* bound on the undelivered or queued offers of a task at a node

SweepTime == Latency \div 2

ASSUME TaskQueueAssumption ==
    /\ NoTask \notin Task
    /\ IsFiniteSet(Thread)
    /\ TypeOf \in [Task -> Type]
    /\ Dynamic \subseteq Type
    /\ Periodic \subseteq Task
    /\ Period \in Nat \ {0}
    /\ Parallel \in Nat \ {0}
    /\ Latency \in Nat /\ Latency >= 2
    /\ Delays \subseteq Nat
    /\ Forever \notin Int
    /\ Expiries \subseteq Nat \cup {Forever}
    /\ Cancelable \subseteq Task
    /\ Late \subseteq Node /\ Crashable \subseteq Node /\ Stoppable \subseteq Node
    /\ Faults \in BOOLEAN /\ Timely \in BOOLEAN
    /\ MaxBacklog \in Nat \ {0}

VARIABLES
    state,       \* TaskData.state in the database, ABSENT before the insert
    after,       \* TaskData.after
    before,      \* TaskData.before
    due,         \* history: when the client first allowed the task to run
    canceled,    \* history: tasks for which a cancel returned true
    activeTasks, \* keys of the shared map
    sweep,       \* the shared number: the end of the sweep period
    added,       \* added[n][t]: entryAdded events of t on their way to n
    mode,        \* life cycle of the component
    pc,          \* where the main thread is
    deadline,    \* the main thread's local `deadline'
    current,     \* nodes whose local `deadline' equals the shared number
    cursor,      \* what the sweep of a node has still to visit
    expired,     \* the part of cursor that was past `before' at the query
    renewTo,     \* now + latency of the running sweep
    renewed,     \* the task between the sweep's update and its put
    queue,       \* the local LinkedBlockingQueue
    held,        \* the task the main thread has polled
    throttle,    \* available permits
    lost,        \* history: permits lost to a call that threw
    stage,       \* stage[n][th]: how far the Runnable on th is
    job,         \* job[n][th]: its task
    taskWorkers, \* types for which the node has a worker
    inserting,   \* tasks inserted in the database, not yet put in the map
    canceling    \* tasks whose cancel removed the entry, not yet updated

database == <<state, after, before, due, canceled>>
shared   == <<activeTasks, sweep, added>>
node     == <<mode, taskWorkers>>
sweeper  == <<deadline, current, cursor, expired, renewTo, renewed>>
loop     == <<pc, sweeper, queue, held>>
permits  == <<throttle, lost>>
runner   == <<stage, job>>
work     == <<queue, held, permits, runner>>
clients  == <<inserting, canceling>>
vars     == <<database, shared, node, loop, permits, runner, clients>>

States == {"ABSENT", "QUEUED", "SUCCEEDED", "EXPIRED", "CANCELED"}
Modes  == {"new", "up", "stopping", "stopped", "crashed"}
Places == {"start", "loop", "reread", "sweep", "sweeping", "polled",
           "acquired", "claimed", "ended"}
Stages == {"idle", "submitted", "working", "worked", "ending"}

TypeOK ==
    /\ state \in [Task -> States]
    /\ after \in [Task -> Nat \cup {-1}]
    /\ before \in [Task -> Nat \cup {Forever}]
    /\ due \in [Task -> Nat]
    /\ canceled \in SUBSET Task
    /\ activeTasks \in SUBSET Task
    /\ sweep \in Nat
    /\ added \in [Node -> [Task -> Nat]]
    /\ mode \in [Node -> Modes]
    /\ pc \in [Node -> Places]
    /\ deadline \in [Node -> Nat]
    /\ current \in SUBSET Node
    /\ cursor \in [Node -> SUBSET Task]
    /\ expired \in [Node -> SUBSET Task]
    /\ renewTo \in [Node -> Nat \cup {-1}]
    /\ renewed \in [Node -> Task \cup {NoTask}]
    /\ queue \in [Node -> Seq(Task)]
    /\ held \in [Node -> Task \cup {NoTask}]
    /\ throttle \in [Node -> Nat]
    /\ lost \in [Node -> Nat]
    /\ stage \in [Node -> [Thread -> Stages]]
    /\ job \in [Node -> [Thread -> Task \cup {NoTask}]]
    /\ taskWorkers \in [Node -> SUBSET Type]
    /\ inserting \in [Node -> SUBSET Task]
    /\ canceling \in [Node -> SUBSET Task]

Init ==
    /\ state = [t \in Task |-> "ABSENT"]
    /\ after = [t \in Task |-> -1]
    /\ before = [t \in Task |-> Forever]
    /\ due = [t \in Task |-> 0]
    /\ canceled = {}
    /\ activeTasks = {}
    /\ sweep = 0
    /\ added = [n \in Node |-> [t \in Task |-> 0]]
    /\ mode = [n \in Node |-> IF n \in Late THEN "new" ELSE "up"]
    /\ pc = [n \in Node |-> IF n \in Late THEN "ended" ELSE "start"]
    /\ deadline = [n \in Node |-> 0]
    /\ current = {}
    /\ cursor = [n \in Node |-> {}]
    /\ expired = [n \in Node |-> {}]
    /\ renewTo = [n \in Node |-> -1]
    /\ renewed = [n \in Node |-> NoTask]
    /\ queue = [n \in Node |-> <<>>]
    /\ held = [n \in Node |-> NoTask]
    /\ lost = [n \in Node |-> 0]
    /\ throttle = [n \in Node |-> IF n \in Late THEN 0 ELSE Parallel]
    /\ stage = [n \in Node |-> [th \in Thread |-> "idle"]]
    /\ job = [n \in Node |-> [th \in Thread |-> NoTask]]
    /\ taskWorkers = [n \in Node |-> Type \ Dynamic]
    /\ inserting = [n \in Node |-> {}]
    /\ canceling = [n \in Node |-> {}]

Alive(n) == mode[n] \in {"up", "stopping", "stopped"}

-----------------------------------------------------------------------------
(* The shared map.                                                         *)

\* An offer of t that reaches a node finds room there (bound of the model).
Room(t) ==
    t \notin activeTasks =>
        \A n \in Node : mode[n] = "up" =>
            added[n][t] + Len(queue[n]) < MaxBacklog

\* activeTasks.put: only a key that was absent raises entryAdded, at every
\* listener; a key that was present raises entryUpdated, which is ignored.
Put(t) ==
    /\ Room(t)
    /\ activeTasks' = activeTasks \cup {t}
    /\ added' = IF t \in activeTasks THEN added
                ELSE [n \in Node |->
                        IF mode[n] = "up"
                        THEN [added[n] EXCEPT ![t] = @ + 1]
                        ELSE added[n]]

\* activeTasks.remove
Remove(t) == activeTasks' = activeTasks \ {t} /\ UNCHANGED added

\* entryAdded at n: without a worker for the type the offer is dropped.
EntryAdded(n, t) ==
    /\ mode[n] = "up"
    /\ added[n][t] > 0
    /\ added' = [added EXCEPT ![n][t] = @ - 1]
    /\ queue' = IF TypeOf[t] \in taskWorkers[n]
                THEN [queue EXCEPT ![n] = Append(@, t)]
                ELSE queue
    /\ UNCHANGED <<database, node, sweeper, permits, runner, clients,
                   activeTasks, sweep, pc, held>>

-----------------------------------------------------------------------------
(* Life cycle.                                                             *)

\* activate(): the listener is registered and the main thread started.
Activate(n) ==
    /\ mode[n] = "new"
    /\ mode' = [mode EXCEPT ![n] = "up"]
    /\ pc' = [pc EXCEPT ![n] = "start"]
    /\ throttle' = [throttle EXCEPT ![n] = Parallel]
    /\ UNCHANGED <<database, shared, sweeper, runner, clients, taskWorkers,
                   queue, held, lost>>

\* deactivate(): the listener is removed and the main thread interrupted.
Deactivate(n) ==
    /\ n \in Stoppable
    /\ mode[n] = "up"
    /\ mode' = [mode EXCEPT ![n] = "stopping"]
    /\ added' = [added EXCEPT ![n] = [t \in Task |-> 0]]
    /\ UNCHANGED <<database, loop, permits, runner, clients, activeTasks,
                   sweep, taskWorkers>>

\* The interrupt is seen in queue.poll or throttle.acquire: run() returns.
Interrupted(n) ==
    /\ mode[n] = "stopping"
    /\ pc[n] \in {"loop", "polled"}
    /\ mode' = [mode EXCEPT ![n] = "stopped"]
    /\ pc' = [pc EXCEPT ![n] = "ended"]
    /\ queue' = [queue EXCEPT ![n] = <<>>]
    /\ held' = [held EXCEPT ![n] = NoTask]
    /\ deadline' = [deadline EXCEPT ![n] = 0]
    /\ current' = current \ {n}
    /\ UNCHANGED <<database, shared, permits, runner, clients, taskWorkers,
                   cursor, expired, renewTo, renewed>>

\* The process of n dies.  Hazelcast keeps the map and the number on the
\* other members; they are gone with the last one.
Crash(n) ==
    /\ n \in Crashable
    /\ Alive(n)
    /\ mode' = [mode EXCEPT ![n] = "crashed"]
    /\ pc' = [pc EXCEPT ![n] = "ended"]
    /\ IF \E m \in Node \ {n} : Alive(m)
       THEN UNCHANGED <<activeTasks, sweep>>
       ELSE activeTasks' = {} /\ sweep' = 0
    /\ added' = [added EXCEPT ![n] = [t \in Task |-> 0]]
    /\ queue' = [queue EXCEPT ![n] = <<>>]
    /\ held' = [held EXCEPT ![n] = NoTask]
    /\ throttle' = [throttle EXCEPT ![n] = 0]
    /\ deadline' = [deadline EXCEPT ![n] = 0]
    /\ current' = current \ {n}
    /\ cursor' = [cursor EXCEPT ![n] = {}]
    /\ expired' = [expired EXCEPT ![n] = {}]
    /\ renewed' = [renewed EXCEPT ![n] = NoTask]
    /\ renewTo' = [renewTo EXCEPT ![n] = -1]
    /\ stage' = [stage EXCEPT ![n] = [th \in Thread |-> "idle"]]
    /\ job' = [job EXCEPT ![n] = [th \in Thread |-> NoTask]]
    /\ taskWorkers' = [taskWorkers EXCEPT ![n] = {}]
    /\ inserting' = [inserting EXCEPT ![n] = {}]
    /\ canceling' = [canceling EXCEPT ![n] = {}]
    /\ UNCHANGED <<database, lost>>

AddWorker(n, ty) ==
    /\ mode[n] \in {"new", "up"}
    /\ ty \in Dynamic \ taskWorkers[n]
    /\ taskWorkers' = [taskWorkers EXCEPT ![n] = @ \cup {ty}]
    /\ UNCHANGED <<database, shared, loop, permits, runner, clients, mode>>

RemoveWorker(n, ty) ==
    /\ mode[n] \in {"new", "up", "stopping"}
    /\ ty \in Dynamic \cap taskWorkers[n]
    /\ taskWorkers' = [taskWorkers EXCEPT ![n] = @ \ {ty}]
    /\ UNCHANGED <<database, shared, loop, permits, runner, clients, mode>>

-----------------------------------------------------------------------------
(* Clients: BuilderImpl.queue -> insert, and cancel.                       *)

\* verify() refuses a task that expires before it can run.
Verified(delay, expiry) == expiry # Forever => delay <= expiry

\* The first half of insert.  A delayed task is only stored; one that may run
\* now is stored with after = now + latency.
Insert(n, t, delay, expiry) ==
    /\ mode[n] = "up"
    /\ state[t] = "ABSENT"
    /\ Verified(delay, expiry)
    /\ state' = [state EXCEPT ![t] = "QUEUED"]
    /\ before' = [before EXCEPT ![t] = expiry]
    /\ due' = [due EXCEPT ![t] = delay]
    /\ IF delay > 0
       THEN /\ after' = [after EXCEPT ![t] = delay]
            /\ UNCHANGED inserting
       ELSE /\ after' = [after EXCEPT ![t] = Latency]
            /\ inserting' = [inserting EXCEPT ![n] = @ \cup {t}]
    /\ UNCHANGED <<shared, node, loop, permits, runner, canceled, canceling>>

\* The second half of insert: activeTasks.put.
InsertPut(n, t) ==
    /\ t \in inserting[n]
    /\ Put(t)
    /\ inserting' = [inserting EXCEPT ![n] = @ \ {t}]
    /\ UNCHANGED <<database, node, loop, permits, runner, sweep, canceling>>

\* The first half of cancel: activeTasks.remove.  (A bound of the model: one
\* cancel of a task at a time, and none after one that returned true.)
Cancel(n, t) ==
    /\ mode[n] = "up"
    /\ t \in Cancelable /\ state[t] # "ABSENT"
    /\ t \notin canceled /\ \A m \in Node : t \notin canceling[m]
    /\ Remove(t)
    /\ canceling' = [canceling EXCEPT ![n] = @ \cup {t}]
    /\ UNCHANGED <<database, node, loop, permits, runner, sweep, inserting>>

\* The second half: the record becomes CANCELED if it is still QUEUED, and
\* the caller learns whether it was.
CancelUpdate(n, t) ==
    /\ t \in canceling[n]
    /\ canceling' = [canceling EXCEPT ![n] = @ \ {t}]
    /\ IF state[t] = "QUEUED"
       THEN /\ state' = [state EXCEPT ![t] = "CANCELED"]
            /\ canceled' = canceled \cup {t}
       ELSE UNCHANGED <<state, canceled>>
    /\ UNCHANGED <<shared, node, loop, permits, runner, after, before, due,
                   inserting>>

\* The second call throws: the client is told, nothing is undone.
ClientFails(n, t) ==
    /\ Faults
    /\ t \in inserting[n] \cup canceling[n]
    /\ inserting' = [inserting EXCEPT ![n] = @ \ {t}]
    /\ canceling' = [canceling EXCEPT ![n] = @ \ {t}]
    /\ UNCHANGED <<database, shared, node, loop, permits, runner>>

-----------------------------------------------------------------------------
(* The main thread: the sweep.                                             *)

Goto(n, place) == pc' = [pc EXCEPT ![n] = place]

\* deadline = sweep.get(), when the thread starts and after a lost race.
ReadDeadline(n) ==
    /\ pc[n] \in {"start", "reread"}
    /\ deadline' = [deadline EXCEPT ![n] = sweep]
    /\ current' = current \cup {n}
    /\ Goto(n, "loop")
    /\ UNCHANGED <<database, shared, node, work, clients, cursor, expired,
                   renewTo, renewed>>

BeginPeriod(n) ==
    /\ pc[n] = "loop"
    /\ deadline[n] = 0
    /\ sweep' = SweepTime
    /\ deadline' = [deadline EXCEPT ![n] = SweepTime]
    /\ current' = {n}
    /\ Goto(n, "sweep")
    /\ UNCHANGED <<database, node, work, clients, activeTasks, added, cursor,
                   expired, renewTo, renewed>>

\* Variant: the period is taken whatever the shared number says.
SweepWonBlindly(n) == BeginPeriod(n)

\* The period is over and compareAndSet(deadline, now + sweep time) succeeds.
SweepWon(n) == n \in current /\ BeginPeriod(n)

\* compareAndSet fails: another node has begun the next period.
SweepLost(n) ==
    /\ pc[n] = "loop"
    /\ deadline[n] = 0
    /\ n \notin current
    /\ Goto(n, "reread")
    /\ UNCHANGED <<database, shared, node, work, sweeper, clients>>

\* sweep(): now, and the query &(after<now)(state=QUEUED).
Query(n, found, past) ==
    /\ pc[n] = "sweep"
    /\ cursor' = [cursor EXCEPT ![n] = found]
    /\ expired' = [expired EXCEPT ![n] = found \cap past]
    /\ renewTo' = [renewTo EXCEPT ![n] = Latency]
    /\ Goto(n, "sweeping")
    /\ UNCHANGED <<database, shared, node, work, clients, deadline, current,
                   renewed>>

Queued == {t \in Task : state[t] = "QUEUED"}
AfterPassed == {t \in Task : after[t] < 0}
BeforeReached == {t \in Task : before[t] = 0}

\* Variants: the query forgets (after<now), the query forgets (state=QUEUED),
\* `before' is not looked at.
SweepQueryUntimed(n) == Query(n, Queued, BeforeReached)
SweepQueryAnyState(n) == Query(n, AfterPassed, BeforeReached)
SweepQueryUnexpiring(n) == Query(n, Queued \cap AfterPassed, {})

SweepQuery(n) == Query(n, Queued \cap AfterPassed, BeforeReached)

\* A task past its `before': the update to EXPIRED is built but never sent
\* (no update() call), so only the entry goes.
SweepExpire(n, t) ==
    /\ pc[n] = "sweeping" /\ renewed[n] = NoTask
    /\ t \in cursor[n] \cap expired[n]
    /\ Remove(t)
    /\ cursor' = [cursor EXCEPT ![n] = @ \ {t}]
    /\ UNCHANGED <<database, node, work, clients, sweep, pc, deadline, current,
                   expired, renewTo, renewed>>

\* Otherwise its `after' is set, whatever its state is by now ...
SweepRenew(n, t) ==
    /\ pc[n] = "sweeping" /\ renewed[n] = NoTask
    /\ t \in cursor[n] \ expired[n]
    /\ after' = [after EXCEPT ![t] = renewTo[n]]
    /\ cursor' = [cursor EXCEPT ![n] = @ \ {t}]
    /\ renewed' = [renewed EXCEPT ![n] = t]
    /\ UNCHANGED <<shared, node, work, clients, state, before, due, canceled,
                   pc, deadline, current, expired, renewTo>>

\* Variant: the sweep updates the record and forgets the put.
SweepPutNothing(n) ==
    /\ pc[n] = "sweeping" /\ renewed[n] # NoTask
    /\ renewed' = [renewed EXCEPT ![n] = NoTask]
    /\ UNCHANGED <<database, shared, node, work, clients, pc, deadline,
                   current, cursor, expired, renewTo>>

\* ... and the task is put in the map.
SweepPut(n) ==
    /\ pc[n] = "sweeping" /\ renewed[n] # NoTask
    /\ Put(renewed[n])
    /\ renewed' = [renewed EXCEPT ![n] = NoTask]
    /\ UNCHANGED <<database, node, work, clients, sweep, pc, deadline, current,
                   cursor, expired, renewTo>>

\* The cursor is exhausted, or a call throws and run() logs it and goes on.
SweepEnd(n) ==
    /\ pc[n] = "sweeping"
    /\ Faults \/ (cursor[n] = {} /\ renewed[n] = NoTask)
    /\ cursor' = [cursor EXCEPT ![n] = {}]
    /\ expired' = [expired EXCEPT ![n] = {}]
    /\ renewed' = [renewed EXCEPT ![n] = NoTask]
    /\ renewTo' = [renewTo EXCEPT ![n] = -1]
    /\ Goto(n, "loop")
    /\ UNCHANGED <<database, shared, node, work, clients, deadline, current>>

-----------------------------------------------------------------------------
(* The main thread: the queue.                                             *)

Poll(n) ==
    /\ pc[n] = "loop"
    /\ deadline[n] > 0
    /\ queue[n] # <<>>
    /\ held' = [held EXCEPT ![n] = Head(queue[n])]
    /\ queue' = [queue EXCEPT ![n] = Tail(@)]
    /\ Goto(n, "polled")
    /\ UNCHANGED <<database, shared, node, sweeper, permits, runner, clients>>

TakePermit(n) ==
    /\ pc[n] = "polled"
    /\ throttle' = [throttle EXCEPT ![n] = @ - 1]
    /\ Goto(n, "acquired")
    /\ UNCHANGED <<database, shared, node, sweeper, runner, clients, queue,
                   held, lost>>

\* Variant: the semaphore is not waited for.
AcquireAnyway(n) == TakePermit(n)

\* throttle.acquire()
Acquire(n) == throttle[n] > 0 /\ TakePermit(n)

RemoveHeld(n) ==
    /\ pc[n] = "acquired"
    /\ Remove(held[n])
    /\ Goto(n, "claimed")
    /\ UNCHANGED <<database, node, sweeper, work, clients, sweep>>

\* Variant: the result of the remove is not looked at.
ClaimAnyway(n) == RemoveHeld(n)

\* activeTasks.remove returns the entry: this node runs the task.
Claim(n) == held[n] \in activeTasks /\ RemoveHeld(n)

\* The main thread is done with the task it holds.
Continue(n) ==
    /\ held' = [held EXCEPT ![n] = NoTask]
    /\ Goto(n, "loop")
    /\ UNCHANGED <<database, shared, node, sweeper, clients, queue>>

\* Variant: the early `continue' forgets throttle.release().
AlreadyGoneKeeping(n) ==
    /\ pc[n] = "acquired" /\ held[n] \notin activeTasks
    /\ Continue(n)
    /\ UNCHANGED <<permits, runner>>

\* It returns null: "The task was already gone for some reason".
AlreadyGone(n) ==
    /\ pc[n] = "acquired" /\ held[n] \notin activeTasks
    /\ Continue(n)
    /\ throttle' = [throttle EXCEPT ![n] = @ + 1]
    /\ UNCHANGED <<runner, lost>>

\* executor.execute(r)
Execute(n, th) ==
    /\ pc[n] = "claimed"
    /\ stage[n][th] = "idle"
    /\ stage' = [stage EXCEPT ![n][th] = "submitted"]
    /\ job' = [job EXCEPT ![n][th] = held[n]]
    /\ Continue(n)
    /\ UNCHANGED permits

\* The remove or the execute throws: run() logs it and goes on without the
\* permit; after a claim the entry is gone too.
LoopFails(n) ==
    /\ Faults
    /\ pc[n] \in {"acquired", "claimed"}
    /\ Continue(n)
    /\ lost' = [lost EXCEPT ![n] = @ + 1]
    /\ UNCHANGED <<runner, throttle>>

-----------------------------------------------------------------------------
(* The Runnable on an executor thread.                                     *)

Step(n, th, s) == stage' = [stage EXCEPT ![n][th] = s]

\* A worker for the type is found and its execute method called.
Start(n, th) ==
    /\ stage[n][th] = "submitted"
    /\ TypeOf[job[n][th]] \in taskWorkers[n]
    /\ Step(n, th, "working")
    /\ UNCHANGED <<database, shared, node, loop, permits, clients, job>>

\* No worker any more: the task is offered again.
NoWorker(n, th) ==
    /\ stage[n][th] = "submitted"
    /\ TypeOf[job[n][th]] \notin taskWorkers[n]
    /\ Put(job[n][th])
    /\ Step(n, th, "ending")
    /\ UNCHANGED <<database, node, loop, permits, clients, sweep, job>>

\* The worker returns.
Return(n, th) ==
    /\ stage[n][th] = "working"
    /\ Step(n, th, "worked")
    /\ UNCHANGED <<database, shared, node, loop, permits, clients, job>>

\* The worker throws, or a call of the Runnable does: it is logged and the
\* record stays as it is, QUEUED, for a sweep.
Throw(n, th) ==
    /\ \/ stage[n][th] = "working"
       \/ Faults /\ stage[n][th] \in {"submitted", "worked"}
    /\ Step(n, th, "ending")
    /\ UNCHANGED <<database, shared, node, loop, permits, clients, job>>

\* The outcome is recorded, whatever the state of the record is by now.
Record(n, th) ==
    /\ stage[n][th] = "worked"
    /\ IF job[n][th] \in Periodic
       THEN /\ after' = [after EXCEPT ![job[n][th]] = Period]
            /\ UNCHANGED state
       ELSE /\ state' = [state EXCEPT ![job[n][th]] = "SUCCEEDED"]
            /\ UNCHANGED after
    /\ Step(n, th, "ending")
    /\ UNCHANGED <<shared, node, loop, permits, clients, before, due, canceled,
                   job>>

\* finally: throttle.release()
Release(n, th) ==
    /\ stage[n][th] = "ending"
    /\ Step(n, th, "idle")
    /\ job' = [job EXCEPT ![n][th] = NoTask]
    /\ throttle' = [throttle EXCEPT ![n] = @ + 1]
    /\ UNCHANGED <<database, shared, node, loop, clients, lost>>

-----------------------------------------------------------------------------
(* The clock.                                                              *)

\* One tick nearer to an instant; an instant already reached stays reached.
Nearer(left) == IF left \in Nat \ {0} THEN left - 1 ELSE left

\* The same for an instant that is compared with <, so that can be passed.
NearerOrPassed(left) == IF left >= 0 THEN left - 1 ELSE left

\* A task that n has queued or polled.
Waits(n, t) == held[n] = t \/ \E i \in DOMAIN queue[n] : queue[n][i] = t

\* Nothing is left to do at n before time passes, every worker that is called
\* will be back, and every task on offer that waits for a permit will get one,
\* before the task is due for another offer.
Quiescent(n) ==
    /\ \/ pc[n] = "ended"
       \/ mode[n] = "up" /\ pc[n] = "loop" /\ deadline[n] > 0 /\ queue[n] = <<>>
       \/ mode[n] = "up" /\ pc[n] = "polled" /\ throttle[n] = 0
    /\ \A t \in Task : added[n][t] = 0
    /\ inserting[n] = {} /\ canceling[n] = {}
    /\ \A th \in Thread :
        \/ stage[n][th] = "idle"
        \/ /\ stage[n][th] = "working"
           /\ state[job[n][th]] = "QUEUED" => after[job[n][th]] > 0
    /\ \A t \in activeTasks : Waits(n, t) /\ state[t] = "QUEUED" => after[t] > 0

Tick ==
    /\ Timely => \A n \in Node : Quiescent(n)
    /\ after' = [t \in Task |-> NearerOrPassed(after[t])]
    /\ before' = [t \in Task |-> Nearer(before[t])]
    /\ due' = [t \in Task |-> Nearer(due[t])]
    /\ sweep' = Nearer(sweep)
    /\ deadline' = [n \in Node |-> Nearer(deadline[n])]
    /\ renewTo' = [n \in Node |-> NearerOrPassed(renewTo[n])]
    /\ UNCHANGED <<node, work, clients, state, canceled, activeTasks, added,
                   pc, current, cursor, expired, renewed>>

-----------------------------------------------------------------------------
MainThread(n) ==
    \/ ReadDeadline(n) \/ Interrupted(n)
    \/ SweepWon(n) \/ SweepLost(n) \/ SweepQuery(n) \/ SweepPut(n) \/ SweepEnd(n)
    \/ \E t \in Task : SweepExpire(n, t) \/ SweepRenew(n, t)
    \/ Poll(n) \/ Acquire(n) \/ Claim(n) \/ AlreadyGone(n) \/ LoopFails(n)
    \/ \E th \in Thread : Execute(n, th)

Runnable(n, th) ==
    \/ Start(n, th) \/ NoWorker(n, th) \/ Return(n, th) \/ Throw(n, th)
    \/ Record(n, th) \/ Release(n, th)

Client(n, t) ==
    \/ \E d \in Delays, e \in Expiries : Insert(n, t, d, e)
    \/ InsertPut(n, t) \/ Cancel(n, t) \/ CancelUpdate(n, t) \/ ClientFails(n, t)

LifeCycle(n) ==
    \/ Activate(n) \/ Deactivate(n) \/ Crash(n)
    \/ \E ty \in Type : AddWorker(n, ty) \/ RemoveWorker(n, ty)

Next ==
    \/ \E n \in Node :
        \/ MainThread(n)
        \/ \E th \in Thread : Runnable(n, th)
        \/ \E t \in Task : Client(n, t) \/ EntryAdded(n, t)
        \/ LifeCycle(n)
    \/ Tick

Spec == Init /\ [][Next]_vars

Returns(t) == \E n \in Node, th \in Thread : job[n][th] = t /\ Return(n, th)

\* The threads are scheduled, events arrive, calls return, time passes.
Scheduling ==
    /\ \A n \in Node :
        /\ WF_vars(Activate(n))
        /\ WF_vars(MainThread(n))
        /\ \A th \in Thread : WF_vars(Runnable(n, th))
        /\ \A t \in Task :
            /\ WF_vars(EntryAdded(n, t))
            /\ WF_vars(InsertPut(n, t))
            /\ WF_vars(CancelUpdate(n, t))
    /\ WF_vars(Tick)

\* A worker that is called again and again with a task does not fail each time.
Fairness == \A t \in Task : SF_vars(Returns(t))

ScheduledSpec == Spec /\ Scheduling

FairSpec == ScheduledSpec /\ Fairness

-----------------------------------------------------------------------------
(* Properties.                                                             *)

Busy(n) == {th \in Thread : stage[n][th] # "idle"}
Permit(n) == IF pc[n] \in {"acquired", "claimed"} THEN 1 ELSE 0

\* Throttling: the permits of a running node are with its Runnables, with its
\* main thread or in the semaphore, on every path through run(): tasks that
\* were already gone, had no worker, failed.  A call that throws between
\* acquire and execute loses a permit, nothing else does and nothing mints one.
PermitAccounting ==
    \A n \in Node : Alive(n) =>
        Cardinality(Busy(n)) + Permit(n) + throttle[n] + lost[n] = Parallel

Sweeping(n) == pc[n] \in {"sweep", "sweeping"}

\* "see if we can get the lock on this sweep period": two nodes are in
\* sweep() together only if one of them has overrun the period it won.
SweepExclusive ==
    \A n, m \in Node :
        n # m /\ Sweeping(n) /\ Sweeping(m) => deadline[n] = 0 \/ deadline[m] = 0

\* A task is neither on offer nor with an executor before the time its
\* builder's after/delay asked for, whoever sweeps, crashes or retries.
NotBeforeDue ==
    \A t \in Task : due[t] > 0 =>
        t \notin activeTasks /\ \A n \in Node, th \in Thread : job[n][th] # t

\* Nothing that could offer or run the task is under way.
Untouched(t) ==
    /\ t \notin activeTasks
    /\ \A n \in Node :
        /\ t \notin cursor[n] \cup inserting[n]
        /\ t # renewed[n]
        /\ pc[n] = "claimed" => held[n] # t
        /\ \A th \in Thread : job[n][th] # t

Settled(t) == state[t] \in {"SUCCEEDED", "CANCELED"} /\ Untouched(t)

\* A task that succeeded or was cancelled, and of which no step is under way,
\* never comes back: copies in other nodes' queues, late events and later
\* sweeps leave it alone.
SettledStays == [][\A t \in Task : Settled(t) => Settled(t)']_vars

Executions(t) ==
    {e \in Node \X Thread : /\ job[e[1]][e[2]] = t
                            /\ stage[e[1]][e[2]] \in {"submitted", "working", "worked"}}

\* "the task will be executed correctly only once on any of the clustered
\* system": no two executions at a time, none of a task that has succeeded.
ExecutedOnce ==
    \A t \in Task :
        /\ Cardinality(Executions(t)) <= 1
        /\ state[t] = "SUCCEEDED" => Executions(t) = {}

\* A cancel that returned true is final for the record of the task.
CancelFinal == \A t \in canceled : state[t] = "CANCELED"

\* A queued task that does not expire is eventually executed by a worker that
\* returns, or leaves the QUEUED state, whatever nodes crash and workers throw.
\* A periodic task is executed again and again.
EventuallyExecuted ==
    \A t \in Task :
        state[t] = "QUEUED" /\ before[t] = Forever ~>
            \/ state[t] # "QUEUED"
            \/ \E e \in Executions(t) : stage[e[1]][e[2]] = "worked"

\* The retries of a failing task end when it expires.
ExpiryEndsRetries ==
    \A t \in Task :
        state[t] # "ABSENT" /\ before[t] = 0 ~>
            [](t \notin activeTasks /\ Executions(t) = {})

\* A node has taken a task from its claim until it has given it to the executor.
Claimed == [n \in Node |-> IF pc[n] = "claimed" THEN held[n] ELSE NoTask]

\* The claims, abstractly.
Board == INSTANCE TaskBoard WITH
    record <- state, board <- activeTasks, claimed <- Claimed, running <- job

\* Whatever is late, stale, failing or dead, an execution uses up an offer of
\* its own: the shared map hands each put of a task to at most one node, and
\* only clients and executors that have a task write the state of its record.
ImplementsTaskBoard == Board!Spec
=============================================================================
