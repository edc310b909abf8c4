--------------------------- MODULE TaskQueueProofs ---------------------------
(***************************************************************************)
(* Theorems about TaskQueue for every cluster, workload and bound.         *)
(***************************************************************************)
EXTENDS TaskQueue, FiniteSetTheorems, TLAPS

\* What types alone do not say: the main thread holds a task from poll to
\* execute, and a Runnable that is not idle has a task.
HeldTask == \A n \in Node : pc[n] \in {"polled", "acquired", "claimed"} => held[n] \in Task
JobTask == \A n \in Node, th \in Thread : stage[n][th] # "idle" => job[n][th] \in Task

TypeInv == TypeOK /\ HeldTask /\ JobTask

\* activeTasks.put keeps the types of the map and of the events.
LEMMA PutType ==
    ASSUME TypeOK, NEW t \in Task, Put(t)
    PROVE  activeTasks' \in SUBSET Task /\ added' \in [Node -> [Task -> Nat]]
<1>1. CASE t \in activeTasks
  BY <1>1 DEF Put, TypeOK
<1>2. CASE t \notin activeTasks
  BY <1>2 DEF Put, TypeOK
<1>q. QED BY <1>1, <1>2

\* The type invariant and the two facts above hold at the start ...
LEMMA TypeInvInit == Init => TypeInv
BY TaskQueueAssumption DEF Init, TypeInv, TypeOK, HeldTask, JobTask, States, Modes, Places, Stages

\* ... and every step keeps them.
LEMMA TypeInvNext == TypeInv /\ [Next]_vars => TypeInv'
<1> SUFFICES ASSUME TypeInv, [Next]_vars PROVE TypeInv'
  OBVIOUS
<1> USE TaskQueueAssumption DEF TypeInv, TypeOK, HeldTask, JobTask, States, Modes, Places, Stages,
    database, shared, node, sweeper, loop, permits, runner, work, clients
<1>1. ASSUME NEW n \in Node, ReadDeadline(n) PROVE TypeInv'
  BY <1>1 DEF ReadDeadline, Goto
<1>2. ASSUME NEW n \in Node, Interrupted(n) PROVE TypeInv'
  BY <1>2 DEF Interrupted
<1>3. ASSUME NEW n \in Node, SweepWon(n) PROVE TypeInv'
  BY <1>3 DEF SweepWon, BeginPeriod, Goto, SweepTime
<1>4. ASSUME NEW n \in Node, SweepLost(n) PROVE TypeInv'
  BY <1>4 DEF SweepLost, Goto
<1>5. ASSUME NEW n \in Node, SweepQuery(n) PROVE TypeInv'
  BY <1>5 DEF SweepQuery, Query, Goto, Queued, AfterPassed, BeforeReached
<1>6. ASSUME NEW n \in Node, SweepPut(n) PROVE TypeInv'
  <2>1. renewed[n] \in Task /\ Put(renewed[n])
    BY <1>6 DEF SweepPut
  <2>2. activeTasks' \in SUBSET Task /\ added' \in [Node -> [Task -> Nat]]
    BY <2>1, PutType
  <2>q. QED BY <1>6, <2>2 DEF SweepPut
<1>7. ASSUME NEW n \in Node, SweepEnd(n) PROVE TypeInv'
  BY <1>7 DEF SweepEnd, Goto
<1>8. ASSUME NEW n \in Node, NEW t \in Task, SweepExpire(n, t) PROVE TypeInv'
  BY <1>8 DEF SweepExpire, Remove
<1>9. ASSUME NEW n \in Node, NEW t \in Task, SweepRenew(n, t) PROVE TypeInv'
  BY <1>9 DEF SweepRenew
<1>10. ASSUME NEW n \in Node, Poll(n) PROVE TypeInv'
  <2>1. queue[n] \in Seq(Task) /\ queue[n] # <<>>
    BY <1>10 DEF Poll
  <2>2. Head(queue[n]) \in Task /\ Tail(queue[n]) \in Seq(Task)
    BY ONLY <2>1
  <2>3. held' \in [Node -> Task \cup {NoTask}] /\ held'[n] \in Task
    BY <1>10, <2>2 DEF Poll
  <2>4. queue' \in [Node -> Seq(Task)]
    BY <1>10, <2>2 DEF Poll
  <2>q. QED BY <1>10, <2>3, <2>4 DEF Poll, Goto
<1>11. ASSUME NEW n \in Node, Acquire(n) PROVE TypeInv'
  <2>1. /\ throttle' \in [Node -> Nat] /\ pc' \in [Node -> Places] /\ HeldTask'
    BY <1>11 DEF Acquire, TakePermit, Goto
  <2>q. QED BY <1>11, <2>1 DEF Acquire, TakePermit
<1>12. ASSUME NEW n \in Node, Claim(n) PROVE TypeInv'
  <2>1. /\ activeTasks' \in SUBSET Task /\ pc' \in [Node -> Places] /\ HeldTask'
    BY <1>12 DEF Claim, RemoveHeld, Remove, Goto
  <2>q. QED BY <1>12, <2>1 DEF Claim, RemoveHeld, Remove
<1>13. ASSUME NEW n \in Node, AlreadyGone(n) PROVE TypeInv'
  <2>1. /\ held' \in [Node -> Task \cup {NoTask}] /\ pc' \in [Node -> Places]
        /\ throttle' \in [Node -> Nat] /\ HeldTask'
    BY <1>13 DEF AlreadyGone, Continue, Goto
  <2>q. QED BY <1>13, <2>1 DEF AlreadyGone, Continue
<1>14. ASSUME NEW n \in Node, LoopFails(n) PROVE TypeInv'
  <2>1. /\ held' \in [Node -> Task \cup {NoTask}] /\ pc' \in [Node -> Places]
        /\ lost' \in [Node -> Nat] /\ HeldTask'
    BY <1>14 DEF LoopFails, Continue, Goto
  <2>q. QED BY <1>14, <2>1 DEF LoopFails, Continue
<1>15. ASSUME NEW n \in Node, NEW th \in Thread, Execute(n, th) PROVE TypeInv'
  <2>1. held' \in [Node -> Task \cup {NoTask}] /\ pc' \in [Node -> Places] /\ HeldTask'
    BY <1>15 DEF Execute, Continue, Goto
  <2>2. held[n] \in Task
    BY <1>15 DEF Execute
  <2>3. /\ stage' \in [Node -> [Thread -> Stages]]
        /\ job' \in [Node -> [Thread -> Task \cup {NoTask}]] /\ JobTask'
    BY <1>15, <2>2 DEF Execute
  <2>q. QED BY <1>15, <2>1, <2>3 DEF Execute, Continue
<1>16. ASSUME NEW n \in Node, NEW th \in Thread, Start(n, th) PROVE TypeInv'
  <2>1. stage[n][th] # "idle" /\ \E s \in Stages : stage' = [stage EXCEPT ![n][th] = s]
    BY ONLY <1>16 DEF Start, Step, Stages
  <2>2. stage' \in [Node -> [Thread -> Stages]] /\ job' = job /\ JobTask'
    BY <1>16, <2>1 DEF Start
  <2>q. QED BY <1>16, <2>2 DEF Start
<1>17. ASSUME NEW n \in Node, NEW th \in Thread, NoWorker(n, th) PROVE TypeInv'
  <2>1. job[n][th] \in Task /\ Put(job[n][th])
    BY <1>17 DEF NoWorker
  <2>2. activeTasks' \in SUBSET Task /\ added' \in [Node -> [Task -> Nat]]
    BY <2>1, PutType
  <2>3. stage[n][th] # "idle" /\ stage' = [stage EXCEPT ![n][th] = "ending"] /\ job' = job
    BY <1>17 DEF NoWorker, Step
  <2>4. stage' \in [Node -> [Thread -> Stages]] /\ JobTask'
    BY <2>3
  <2>q. QED BY <1>17, <2>2, <2>3, <2>4 DEF NoWorker
<1>18. ASSUME NEW n \in Node, NEW th \in Thread, Return(n, th) PROVE TypeInv'
  <2>1. stage[n][th] # "idle" /\ \E s \in Stages : stage' = [stage EXCEPT ![n][th] = s]
    BY ONLY <1>18 DEF Return, Step, Stages
  <2>2. stage' \in [Node -> [Thread -> Stages]] /\ job' = job /\ JobTask'
    BY <1>18, <2>1 DEF Return
  <2>q. QED BY <1>18, <2>2 DEF Return
<1>19. ASSUME NEW n \in Node, NEW th \in Thread, Throw(n, th) PROVE TypeInv'
  <2>1. stage[n][th] # "idle" /\ \E s \in Stages : stage' = [stage EXCEPT ![n][th] = s]
    BY ONLY <1>19 DEF Throw, Step, Stages
  <2>2. stage' \in [Node -> [Thread -> Stages]] /\ job' = job /\ JobTask'
    BY <1>19, <2>1 DEF Throw
  <2>q. QED BY <1>19, <2>2 DEF Throw
<1>20. ASSUME NEW n \in Node, NEW th \in Thread, Record(n, th) PROVE TypeInv'
  <2>1. state' \in [Task -> States] /\ after' \in [Task -> Nat \cup {-1}]
    <3>1. CASE job[n][th] \in Periodic
      <4>1. state' = state /\ after' = [after EXCEPT ![job[n][th]] = Period]
        BY ONLY <1>20, <3>1 DEF Record
      <4>q. QED BY <4>1
    <3>2. CASE job[n][th] \notin Periodic BY <1>20, <3>2 DEF Record
    <3>q. QED BY <3>1, <3>2
  <2>2. stage' \in [Node -> [Thread -> Stages]] /\ JobTask'
    BY <1>20 DEF Record, Step
  <2>q. QED BY <1>20, <2>1, <2>2 DEF Record
<1>21. ASSUME NEW n \in Node, NEW th \in Thread, Release(n, th) PROVE TypeInv'
  <2>1. /\ stage' \in [Node -> [Thread -> Stages]]
        /\ job' \in [Node -> [Thread -> Task \cup {NoTask}]] /\ JobTask'
    BY <1>21 DEF Release, Step
  <2>2. throttle' \in [Node -> Nat]
    BY <1>21 DEF Release
  <2>q. QED BY <1>21, <2>1, <2>2 DEF Release
<1>22. ASSUME NEW n \in Node, NEW t \in Task, NEW d \in Delays, NEW e \in Expiries, Insert(n, t, d, e) PROVE TypeInv'
  <2>1. after' \in [Task -> Nat \cup {-1}] /\ inserting' \in [Node -> SUBSET Task]
    <3>1. CASE d > 0
      <4>1. after' = [after EXCEPT ![t] = d] /\ inserting' = inserting
        BY ONLY <1>22, <3>1 DEF Insert
      <4>q. QED BY <1>22, <4>1
    <3>2. CASE ~(d > 0)
      <4>1. /\ after' = [after EXCEPT ![t] = Latency]
            /\ inserting' = [inserting EXCEPT ![n] = @ \cup {t}]
        BY ONLY <1>22, <3>2 DEF Insert
      <4>q. QED BY <1>22, <4>1
    <3>q. QED BY <3>1, <3>2
  <2>2. /\ state' \in [Task -> States] /\ due' \in [Task -> Nat]
        /\ before' \in [Task -> Nat \cup {Forever}]
    BY <1>22 DEF Insert
  <2>q. QED BY <1>22, <2>1, <2>2 DEF Insert
<1>23. ASSUME NEW n \in Node, NEW t \in Task, InsertPut(n, t) PROVE TypeInv'
  <2>1. t \in Task /\ Put(t)
    BY <1>23 DEF InsertPut
  <2>2. activeTasks' \in SUBSET Task /\ added' \in [Node -> [Task -> Nat]]
    BY <2>1, PutType
  <2>q. QED BY <1>23, <2>2 DEF InsertPut
<1>24. ASSUME NEW n \in Node, NEW t \in Task, Cancel(n, t) PROVE TypeInv'
  <2>1. activeTasks' \in SUBSET Task /\ canceling' \in [Node -> SUBSET Task]
    BY <1>24 DEF Cancel, Remove
  <2>q. QED BY <1>24, <2>1 DEF Cancel, Remove
<1>25. ASSUME NEW n \in Node, NEW t \in Task, CancelUpdate(n, t) PROVE TypeInv'
  <2>1. state' \in [Task -> States] /\ canceled' \in SUBSET Task
    <3>1. CASE state[t] = "QUEUED"
      <4>1. /\ state' = [state EXCEPT ![t] = "CANCELED"]
            /\ canceled' = canceled \cup {t}
        BY ONLY <1>25, <3>1 DEF CancelUpdate
      <4>q. QED BY <1>25, <4>1
    <3>2. CASE state[t] # "QUEUED" BY <1>25, <3>2 DEF CancelUpdate
    <3>q. QED BY <3>1, <3>2
  <2>2. canceling' \in [Node -> SUBSET Task]
    BY <1>25 DEF CancelUpdate
  <2>q. QED BY <1>25, <2>1, <2>2 DEF CancelUpdate
<1>26. ASSUME NEW n \in Node, NEW t \in Task, ClientFails(n, t) PROVE TypeInv'
  <2>1. inserting' \in [Node -> SUBSET Task] /\ canceling' \in [Node -> SUBSET Task]
    BY <1>26 DEF ClientFails
  <2>q. QED BY <1>26, <2>1 DEF ClientFails
<1>27. ASSUME NEW n \in Node, NEW t \in Task, EntryAdded(n, t) PROVE TypeInv'
  <2>1. added' \in [Node -> [Task -> Nat]]
    <3>1. added[n][t] \in Nat /\ added[n][t] > 0
      BY <1>27 DEF EntryAdded
    <3>2. added' = [added EXCEPT ![n][t] = @ - 1]
      BY ONLY <1>27 DEF EntryAdded
    <3>q. QED BY <3>1, <3>2
  <2>2. queue' \in [Node -> Seq(Task)]
    <3>1. queue[n] \in Seq(Task) /\ Append(queue[n], t) \in Seq(Task)
      OBVIOUS
    <3>2. queue' = queue \/ queue' = [queue EXCEPT ![n] = Append(@, t)]
      BY ONLY <1>27 DEF EntryAdded
    <3>3. queue \in [Node -> Seq(Task)]
      OBVIOUS
    <3>q. QED BY ONLY <3>1, <3>2, <3>3
  <2>q. QED BY <1>27, <2>1, <2>2 DEF EntryAdded
<1>28. ASSUME NEW n \in Node, Activate(n) PROVE TypeInv'
  BY <1>28 DEF Activate
<1>29. ASSUME NEW n \in Node, Deactivate(n) PROVE TypeInv'
  BY <1>29 DEF Deactivate
<1>30. ASSUME NEW n \in Node, Crash(n) PROVE TypeInv'
  <2>1. activeTasks' \in SUBSET Task /\ sweep' \in Nat
    BY <1>30 DEF Crash
  <2>2. /\ added' \in [Node -> [Task -> Nat]] /\ mode' \in [Node -> Modes]
        /\ pc' \in [Node -> Places] /\ deadline' \in [Node -> Nat]
        /\ current' \in SUBSET Node /\ cursor' \in [Node -> SUBSET Task]
        /\ expired' \in [Node -> SUBSET Task]
        /\ renewTo' \in [Node -> Nat \cup {-1}]
        /\ renewed' \in [Node -> Task \cup {NoTask}]
    BY <1>30 DEF Crash
  <2>3. /\ queue' \in [Node -> Seq(Task)] /\ held' \in [Node -> Task \cup {NoTask}]
        /\ throttle' \in [Node -> Nat] /\ stage' \in [Node -> [Thread -> Stages]]
        /\ job' \in [Node -> [Thread -> Task \cup {NoTask}]]
    BY <1>30 DEF Crash
  <2>4. /\ taskWorkers' \in [Node -> SUBSET Type]
        /\ inserting' \in [Node -> SUBSET Task] /\ canceling' \in [Node -> SUBSET Task]
    BY <1>30 DEF Crash
  <2>5. HeldTask' /\ JobTask'
    BY <1>30 DEF Crash
  <2>q. QED BY <1>30, <2>1, <2>2, <2>3, <2>4, <2>5 DEF Crash
<1>31. ASSUME NEW n \in Node, NEW ty \in Type, AddWorker(n, ty) PROVE TypeInv'
  BY <1>31 DEF AddWorker
<1>32. ASSUME NEW n \in Node, NEW ty \in Type, RemoveWorker(n, ty) PROVE TypeInv'
  BY <1>32 DEF RemoveWorker
<1>33. ASSUME Tick PROVE TypeInv'
  BY <1>33, SMTT(30) DEF Tick, Nearer, NearerOrPassed
<1>34. CASE UNCHANGED vars
  BY <1>34 DEF vars
<1>q. QED
  BY <1>1, <1>2, <1>3, <1>4, <1>5, <1>6, <1>7, <1>8, <1>9, <1>10, <1>11, <1>12, <1>13, <1>14, <1>15, <1>16, <1>17, <1>18, <1>19, <1>20, <1>21, <1>22, <1>23, <1>24, <1>25, <1>26, <1>27, <1>28, <1>29, <1>30, <1>31, <1>32, <1>33, <1>34 DEF Next, MainThread, Runnable, Client, LifeCycle

\* The state of every node and of the shared structures stays well typed.
THEOREM TypeCorrect == Spec => []TypeOK
<1>1. TypeInv => TypeOK
  BY DEF TypeInv
<1>q. QED BY <1>1, TypeInvInit, TypeInvNext, PTL DEF Spec

-----------------------------------------------------------------------------
(* One sweep per period.  The local deadline of a node whose copy is        *)
(* current is the shared one, and that of any other node has been reached:  *)
(* so when a node wins the compareAndSet, no node that is still sweeping    *)
(* is within its own period.                                                *)

Running == \A n \in Node : pc[n] # "ended" => mode[n] \in {"up", "stopping"}

DeadlineCopy ==
    \A n \in Node :
        /\ n \in current => pc[n] # "ended" /\ deadline[n] = sweep
        /\ n \notin current => deadline[n] = 0

SweepInv == Running /\ DeadlineCopy /\ SweepExclusive

LEMMA SweepInvInit == Init => SweepInv
BY DEF Init, SweepInv, Running, DeadlineCopy, SweepExclusive, Sweeping

LEMMA SweepInvNext == TypeOK /\ SweepInv /\ [Next]_vars => SweepInv'
<1> SUFFICES ASSUME TypeOK, SweepInv, [Next]_vars PROVE SweepInv'
  OBVIOUS
<1> USE TaskQueueAssumption DEF TypeOK, SweepInv, Running, DeadlineCopy, SweepExclusive, Sweeping,
    database, shared, node, sweeper, loop, permits, runner, work, clients
<1>1. ASSUME UNCHANGED <<mode, pc, deadline, current, sweep>> PROVE SweepInv'
  BY <1>1
<1>2. ASSUME NEW n \in Node, ReadDeadline(n) PROVE SweepInv'
  BY <1>2 DEF ReadDeadline, Goto
<1>3. ASSUME NEW n \in Node, Interrupted(n) PROVE SweepInv'
  BY <1>3 DEF Interrupted
<1>4. ASSUME NEW n \in Node, SweepWon(n) PROVE SweepInv'
  <2>1. \A m \in Node : deadline[m] = 0
    BY <1>4 DEF SweepWon, BeginPeriod
  <2>2. Running' /\ DeadlineCopy'
    BY <1>4, <2>1 DEF SweepWon, BeginPeriod, Goto
  <2>3. SweepExclusive'
    BY <1>4, <2>1 DEF SweepWon, BeginPeriod, Goto
  <2>q. QED BY <2>2, <2>3
<1>5. ASSUME NEW n \in Node, SweepLost(n) PROVE SweepInv'
  BY <1>5 DEF SweepLost, Goto
<1>6. ASSUME NEW n \in Node, SweepQuery(n) PROVE SweepInv'
  BY <1>6 DEF SweepQuery, Query, Goto
<1>7. ASSUME NEW n \in Node, SweepEnd(n) PROVE SweepInv'
  BY <1>7 DEF SweepEnd, Goto
<1>8. ASSUME NEW n \in Node, NEW p \in {"loop", "polled", "acquired", "claimed"},
             pc[n] # "ended", pc' = [pc EXCEPT ![n] = p],
             UNCHANGED <<mode, deadline, current, sweep>>
      PROVE  SweepInv'
  BY <1>8
<1>9. ASSUME NEW n \in Node,
             \/ Poll(n) \/ Acquire(n) \/ Claim(n) \/ AlreadyGone(n) \/ LoopFails(n)
             \/ \E th \in Thread : Execute(n, th)
      PROVE  SweepInv'
  <2>1. CASE Poll(n) BY <1>8, <2>1 DEF Poll, Goto
  <2>2. CASE Acquire(n) BY <1>8, <2>2 DEF Acquire, TakePermit, Goto
  <2>3. CASE Claim(n) BY <1>8, <2>3 DEF Claim, RemoveHeld, Goto
  <2>4. CASE AlreadyGone(n) BY <1>8, <2>4 DEF AlreadyGone, Continue, Goto
  <2>5. CASE LoopFails(n) BY <1>8, <2>5 DEF LoopFails, Continue, Goto
  <2>6. CASE \E th \in Thread : Execute(n, th) BY <1>8, <2>6 DEF Execute, Continue, Goto
  <2>q. QED BY <1>9, <2>1, <2>2, <2>3, <2>4, <2>5, <2>6
<1>10. ASSUME NEW n \in Node, Activate(n) \/ Deactivate(n) PROVE SweepInv'
  <2>1. CASE Activate(n) BY <2>1 DEF Activate
  <2>2. CASE Deactivate(n) BY <2>2 DEF Deactivate
  <2>q. QED BY <1>10, <2>1, <2>2
<1>11. ASSUME NEW n \in Node, Crash(n) PROVE SweepInv'
  <2>1. \A m \in Node \ {n} : m \in current => sweep' = sweep
    BY <1>11 DEF Crash, Alive
  <2>2. Running'
    BY <1>11 DEF Crash
  <2>3. DeadlineCopy'
    BY <1>11, <2>1 DEF Crash
  <2>4. SweepExclusive'
    BY <1>11 DEF Crash
  <2>q. QED BY <2>2, <2>3, <2>4
<1>12. CASE Tick
  BY <1>12 DEF Tick, Nearer
<1>q. QED
  <2>1. ASSUME NEW n \in Node,
               SweepPut(n) \/ \E ty \in Type : AddWorker(n, ty) \/ RemoveWorker(n, ty)
        PROVE  SweepInv'
    BY <1>1, <2>1 DEF SweepPut, AddWorker, RemoveWorker
  <2>2. ASSUME NEW n \in Node, NEW t \in Task,
               SweepExpire(n, t) \/ SweepRenew(n, t) \/ EntryAdded(n, t) \/ Client(n, t)
        PROVE  SweepInv'
    BY <1>1, <2>2 DEF SweepExpire, SweepRenew, EntryAdded, Client, Insert, InsertPut,
        Cancel, CancelUpdate, ClientFails
  <2>3. ASSUME NEW n \in Node, NEW th \in Thread, Runnable(n, th) PROVE SweepInv'
    BY <1>1, <2>3 DEF Runnable, Start, NoWorker, Return, Throw, Record, Release
  <2>4. ASSUME NEW n \in Node, MainThread(n) PROVE SweepInv'
    BY ONLY <1>2, <1>3, <1>4, <1>5, <1>6, <1>7, <1>9, <2>1, <2>2, <2>4 DEF MainThread
  <2>5. ASSUME NEW n \in Node, LifeCycle(n) PROVE SweepInv'
    BY ONLY <1>10, <1>11, <2>1, <2>5 DEF LifeCycle
  <2>6. CASE UNCHANGED vars
    BY <1>1, <2>6 DEF vars
  <2>q. QED
    BY ONLY <1>12, <2>2, <2>3, <2>4, <2>5, <2>6, [Next]_vars DEF Next

\* Two nodes sweep together only if one of them has overrun its period.
THEOREM SweepsAreExclusive == Spec => []SweepExclusive
<1>1. SweepInv => SweepExclusive
  BY DEF SweepInv
<1>q. QED BY <1>1, TypeCorrect, SweepInvInit, SweepInvNext, PTL DEF Spec

-----------------------------------------------------------------------------
(* Tasks nothing refers to.  Only two steps can begin to refer to a task:   *)
(* its insertion without delay, and a sweep's query that finds it QUEUED    *)
(* and past its `after'.  Both the delay of a task and the quiet of a       *)
(* finished one follow from that.                                           *)

LEMMA UntouchedStays ==
    ASSUME TypeInv, [Next]_vars, NEW x \in Task, Untouched(x),
           x \notin Queued \cap AfterPassed,
           state[x] = "ABSENT" => state'[x] = "ABSENT" \/ due'[x] > 0
    PROVE  Untouched(x)'
<1> USE TaskQueueAssumption DEF TypeInv, TypeOK, HeldTask, JobTask, Untouched,
    database, shared, node, sweeper, loop, permits, runner, work, clients
<1>1. ASSUME UNCHANGED <<activeTasks, cursor, inserting, renewed, pc, held, job>>
      PROVE  Untouched(x)'
  BY <1>1
<1>2. ASSUME NEW n \in Node, NEW p \in Places \ {"claimed"}, pc' = [pc EXCEPT ![n] = p],
             UNCHANGED <<activeTasks, cursor, inserting, renewed, held, job>>
      PROVE  Untouched(x)'
  BY <1>2
<1>3. ASSUME NEW n \in Node, MainThread(n) PROVE Untouched(x)'
  <2>1. CASE ReadDeadline(n) BY <1>2, <2>1 DEF ReadDeadline, Goto, Places
  <2>2. CASE Interrupted(n) BY <2>2 DEF Interrupted
  <2>3. CASE SweepWon(n) BY <1>2, <2>3 DEF SweepWon, BeginPeriod, Goto, Places
  <2>4. CASE SweepLost(n) BY <1>2, <2>4 DEF SweepLost, Goto, Places
  <2>5. CASE SweepQuery(n) BY <2>5 DEF SweepQuery, Query, Goto
  <2>6. CASE SweepPut(n) BY <2>6 DEF SweepPut, Put
  <2>7. CASE SweepEnd(n) BY <2>7 DEF SweepEnd, Goto
  <2>8. ASSUME NEW t \in Task, SweepExpire(n, t) PROVE Untouched(x)'
    BY <2>8 DEF SweepExpire, Remove
  <2>9. ASSUME NEW t \in Task, SweepRenew(n, t) PROVE Untouched(x)'
    <3>1. t # x
      BY <2>9 DEF SweepRenew
    <3>2. /\ cursor' = [cursor EXCEPT ![n] = @ \ {t}] /\ renewed' = [renewed EXCEPT ![n] = t]
          /\ UNCHANGED <<activeTasks, inserting, pc, held, job>>
      BY ONLY <2>9 DEF SweepRenew, shared, work, runner, clients
    <3>q. QED BY <3>1, <3>2
  <2>10. CASE Poll(n) BY <2>10 DEF Poll, Goto
  <2>11. CASE Acquire(n) BY <1>2, <2>11 DEF Acquire, TakePermit, Goto, Places
  <2>12. CASE Claim(n) BY <2>12 DEF Claim, RemoveHeld, Remove, Goto
  <2>13. ASSUME AlreadyGone(n) \/ LoopFails(n) PROVE Untouched(x)'
    <3>1. Continue(n) /\ UNCHANGED runner
      BY <2>13 DEF AlreadyGone, LoopFails
    <3>q. QED BY <3>1 DEF Continue, Goto
  <2>14. ASSUME NEW th \in Thread, Execute(n, th) PROVE Untouched(x)'
    BY <2>14 DEF Execute, Continue, Goto
  <2>q. QED
    BY ONLY <1>3, <2>1, <2>2, <2>3, <2>4, <2>5, <2>6, <2>7, <2>8, <2>9, <2>10, <2>11, <2>12,
            <2>13, <2>14 DEF MainThread
<1>4. ASSUME NEW n \in Node, NEW th \in Thread, Runnable(n, th) PROVE Untouched(x)'
  <2>1. CASE Start(n, th) \/ Return(n, th) \/ Throw(n, th) \/ Record(n, th)
    BY <1>1, <2>1 DEF Start, Return, Throw, Record
  <2>2. CASE NoWorker(n, th) BY <2>2 DEF NoWorker, Put
  <2>3. CASE Release(n, th) BY <2>3 DEF Release
  <2>q. QED BY ONLY <1>4, <2>1, <2>2, <2>3 DEF Runnable
<1>5. ASSUME NEW n \in Node, NEW t \in Task, Client(n, t) PROVE Untouched(x)'
  <2>1. ASSUME NEW d \in Delays, NEW e \in Expiries, Insert(n, t, d, e) PROVE Untouched(x)'
    <3>1. CASE t = x
      <4>1. inserting' = inserting
        BY <2>1, <3>1 DEF Insert
      <4>q. QED BY <1>1, <2>1, <4>1 DEF Insert
    <3>2. CASE t # x
      <4>1. \/ inserting' = inserting
            \/ inserting' = [inserting EXCEPT ![n] = @ \cup {t}]
        BY ONLY <2>1 DEF Insert
      <4>2. \A m \in Node : x \notin inserting[m] /\ inserting'[m] \subseteq inserting[m] \cup {t}
        <5>1. CASE inserting' = inserting BY <5>1
        <5>2. CASE inserting' = [inserting EXCEPT ![n] = @ \cup {t}] BY <5>2
        <5>q. QED BY <4>1, <5>1, <5>2
      <4>q. QED BY <2>1, <3>2, <4>2 DEF Insert
    <3>q. QED BY <3>1, <3>2
  <2>2. CASE InsertPut(n, t) BY <2>2 DEF InsertPut, Put
  <2>3. CASE Cancel(n, t) BY <2>3 DEF Cancel, Remove
  <2>4. CASE CancelUpdate(n, t) BY <1>1, <2>4 DEF CancelUpdate
  <2>5. CASE ClientFails(n, t) BY <2>5 DEF ClientFails
  <2>q. QED BY ONLY <1>5, <2>1, <2>2, <2>3, <2>4, <2>5 DEF Client
<1>6. ASSUME NEW n \in Node, NEW t \in Task, EntryAdded(n, t) PROVE Untouched(x)'
  BY <1>1, <1>6 DEF EntryAdded
<1>7. ASSUME NEW n \in Node, LifeCycle(n) PROVE Untouched(x)'
  <2>1. CASE Activate(n) BY <1>2, <2>1 DEF Activate, Places
  <2>2. CASE Deactivate(n) BY <1>1, <2>2 DEF Deactivate
  <2>3. CASE Crash(n)
    <3>1. /\ activeTasks' \subseteq activeTasks
          /\ pc' = [pc EXCEPT ![n] = "ended"] /\ held' = [held EXCEPT ![n] = NoTask]
          /\ cursor' = [cursor EXCEPT ![n] = {}] /\ inserting' = [inserting EXCEPT ![n] = {}]
          /\ renewed' = [renewed EXCEPT ![n] = NoTask]
          /\ job' = [job EXCEPT ![n] = [th \in Thread |-> NoTask]]
      BY ONLY <2>3 DEF Crash
    <3>q. QED BY <3>1
  <2>4. ASSUME NEW ty \in Type, AddWorker(n, ty) \/ RemoveWorker(n, ty) PROVE Untouched(x)'
    BY <1>1, <2>4 DEF AddWorker, RemoveWorker
  <2>q. QED BY ONLY <1>7, <2>1, <2>2, <2>3, <2>4 DEF LifeCycle
<1>8. CASE Tick BY <1>1, <1>8 DEF Tick
<1>9. CASE UNCHANGED vars BY <1>1, <1>9 DEF vars
<1>q. QED BY ONLY <1>3, <1>4, <1>5, <1>6, <1>7, <1>8, <1>9, [Next]_vars DEF Next

DueInv ==
    \A t \in Task :
        /\ due[t] > 0 => state[t] # "ABSENT" /\ after[t] = due[t]
        /\ state[t] = "ABSENT" \/ due[t] > 0 => Untouched(t)

LEMMA DueInvInit == Init => DueInv
BY TaskQueueAssumption DEF Init, DueInv, Untouched

LEMMA DueInvNext == TypeInv /\ DueInv /\ [Next]_vars => DueInv'
<1> SUFFICES ASSUME TypeInv, DueInv, [Next]_vars, NEW x \in Task
             PROVE  /\ due'[x] > 0 => state'[x] # "ABSENT" /\ after'[x] = due'[x]
                    /\ state'[x] = "ABSENT" \/ due'[x] > 0 => Untouched(x)'
  BY DEF DueInv
<1> DEFINE Kept == /\ state'[x] = "ABSENT" => state[x] = "ABSENT"
                   /\ due'[x] > 0 => /\ state'[x] # "ABSENT" /\ after'[x] = due'[x]
                                     /\ state[x] = "ABSENT" \/ due[x] > 0
<1>1. Kept
  <2> USE TaskQueueAssumption DEF TypeInv, TypeOK, DueInv,
      database, shared, node, sweeper, loop, permits, runner, work, clients
  <2>1. ASSUME UNCHANGED <<state, due, after>> PROVE Kept
    BY <2>1
  <2>2. ASSUME NEW n \in Node, NEW t \in Task, SweepRenew(n, t) PROVE Kept
    <3>1. due[x] > 0 => t # x
      BY <2>2 DEF SweepRenew, Untouched
    <3>q. QED BY <2>2, <3>1 DEF SweepRenew
  <2>3. ASSUME NEW n \in Node, MainThread(n) PROVE Kept
    <3>1. \/ \E t \in Task : SweepRenew(n, t)
          \/ UNCHANGED <<state, due, after>>
      BY ONLY <2>3 DEF MainThread, ReadDeadline, Interrupted, SweepWon, BeginPeriod, SweepLost,
         SweepQuery, Query, SweepPut, SweepEnd, SweepExpire, Poll, Acquire, TakePermit, Claim,
         RemoveHeld, AlreadyGone, LoopFails, Execute, Continue, database
    <3>q. QED BY ONLY <2>1, <2>2, <3>1
  <2>4. ASSUME NEW n \in Node, NEW th \in Thread, Runnable(n, th) PROVE Kept
    <3>1. CASE Record(n, th)
      <4>1. due[x] > 0 => job[n][th] # x
        BY DEF Untouched
      <4>2. /\ due' = due
            /\ \/ after' = [after EXCEPT ![job[n][th]] = Period] /\ state' = state
               \/ state' = [state EXCEPT ![job[n][th]] = "SUCCEEDED"] /\ after' = after
        BY ONLY <3>1 DEF Record
      <4>q. QED BY <4>1, <4>2
    <3>2. CASE ~Record(n, th)
      BY <2>1, <2>4, <3>2 DEF Runnable, Start, NoWorker, Return, Throw, Release
    <3>q. QED BY <3>1, <3>2
  <2>5. ASSUME NEW n \in Node, NEW t \in Task, Client(n, t) PROVE Kept
    <3>1. ASSUME NEW d \in Delays, NEW e \in Expiries, Insert(n, t, d, e) PROVE Kept
      <4>1. /\ state[t] = "ABSENT" /\ state' = [state EXCEPT ![t] = "QUEUED"]
            /\ due' = [due EXCEPT ![t] = d]
            /\ d > 0 => after' = [after EXCEPT ![t] = d]
            /\ ~(d > 0) => after' = [after EXCEPT ![t] = Latency]
        BY ONLY <3>1 DEF Insert
      <4>2. CASE d > 0 BY <4>1, <4>2
      <4>3. CASE ~(d > 0) BY <4>1, <4>3
      <4>q. QED BY <4>2, <4>3
    <3>2. CASE CancelUpdate(n, t)
      <4>1. /\ due' = due /\ after' = after
            /\ state' = state \/ state' = [state EXCEPT ![t] = "CANCELED"]
        BY ONLY <3>2 DEF CancelUpdate
      <4>q. QED BY <4>1
    <3>3. CASE InsertPut(n, t) \/ Cancel(n, t) \/ ClientFails(n, t)
      BY <2>1, <3>3 DEF InsertPut, Cancel, ClientFails
    <3>q. QED BY ONLY <2>5, <3>1, <3>2, <3>3 DEF Client
  <2>6. ASSUME NEW n \in Node, LifeCycle(n) PROVE Kept
    BY <2>1, <2>6 DEF LifeCycle, Activate, Deactivate, Crash, AddWorker, RemoveWorker
  <2>7. ASSUME NEW n \in Node, NEW t \in Task, EntryAdded(n, t) PROVE Kept
    BY <2>1, <2>7 DEF EntryAdded
  <2>8. CASE Tick BY <2>8 DEF Tick, Nearer, NearerOrPassed
  <2>9. CASE UNCHANGED vars BY <2>1, <2>9 DEF vars
  <2>q. QED BY ONLY <2>3, <2>4, <2>5, <2>6, <2>7, <2>8, <2>9, [Next]_vars DEF Next
<1>2. ASSUME state'[x] = "ABSENT" \/ due'[x] > 0 PROVE Untouched(x)'
  <2>1. state[x] = "ABSENT" \/ due[x] > 0
    BY <1>1, <1>2
  <2>2. Untouched(x) /\ x \notin Queued \cap AfterPassed
    BY <2>1 DEF DueInv, Queued, AfterPassed, TypeInv, TypeOK
  <2>q. QED BY <1>2, <2>2, UntouchedStays
<1>q. QED BY <1>1, <1>2

\* No task is offered or run before the delay its builder asked for is over.
THEOREM TasksWaitUntilDue == Spec => []NotBeforeDue
<1>1. DueInv => NotBeforeDue
  BY DEF DueInv, NotBeforeDue, Untouched
<1>q. QED BY <1>1, TypeInvInit, TypeInvNext, DueInvInit, DueInvNext, PTL DEF Spec

\* A finished task of which no step is under way stays finished and alone.
THEOREM SettledTasksStay == Spec => SettledStays
<1>1. ASSUME TypeInv, [Next]_vars PROVE [\A t \in Task : Settled(t) => Settled(t)']_vars
  <2> SUFFICES ASSUME NEW x \in Task, Settled(x) PROVE Settled(x)'
    OBVIOUS
  <2> USE TaskQueueAssumption DEF TypeInv, TypeOK, JobTask,
      database, shared, node, sweeper, loop, permits, runner, work, clients
  <2>1. Untouched(x)'
    BY <1>1, UntouchedStays DEF Settled, Queued
  <2>2. state'[x] = state[x]
    <3>1. ASSUME NEW n \in Node, NEW th \in Thread, Record(n, th) PROVE state'[x] = state[x]
      <4>1. job[n][th] # x
        BY DEF Settled, Untouched
      <4>2. state' = state \/ state' = [state EXCEPT ![job[n][th]] = "SUCCEEDED"]
        BY ONLY <3>1 DEF Record
      <4>q. QED BY <1>1, <4>1, <4>2
    <3>2. ASSUME NEW n \in Node, NEW t \in Task, Client(n, t) PROVE state'[x] = state[x]
      <4>1. \/ state' = state
            \/ state[t] \in {"ABSENT", "QUEUED"} /\ \E v \in States : state' = [state EXCEPT ![t] = v]
        BY ONLY <3>2 DEF Client, Insert, InsertPut, Cancel, CancelUpdate, ClientFails, database, States
      <4>q. QED BY <1>1, <4>1 DEF Settled
    <3>3. ASSUME NEW n \in Node, MainThread(n) PROVE state' = state
      BY ONLY <3>3 DEF MainThread, ReadDeadline, Interrupted, SweepWon, BeginPeriod, SweepLost,
         SweepQuery, Query, SweepPut, SweepEnd, SweepExpire, SweepRenew, Poll, Acquire, TakePermit,
         Claim, RemoveHeld, AlreadyGone, LoopFails, Execute, Continue, database
    <3>4. ASSUME NEW n \in Node, NEW th \in Thread, Runnable(n, th), ~Record(n, th) PROVE state' = state
      BY ONLY <3>4 DEF Runnable, Start, NoWorker, Return, Throw, Release, database
    <3>5. ASSUME NEW n \in Node, LifeCycle(n) \/ \E t \in Task : EntryAdded(n, t) PROVE state' = state
      BY ONLY <3>5 DEF LifeCycle, Activate, Deactivate, Crash, AddWorker, RemoveWorker, EntryAdded,
         database
    <3>6. CASE Tick \/ UNCHANGED vars
      BY ONLY <3>6 DEF Tick, vars, database
    <3>q. QED BY ONLY <1>1, <3>1, <3>2, <3>3, <3>4, <3>5, <3>6 DEF Next
  <2>q. QED BY <2>1, <2>2 DEF Settled
<1>q. QED BY <1>1, TypeInvInit, TypeInvNext, PTL DEF Spec, SettledStays

-----------------------------------------------------------------------------
(* Permits.                                                                *)

Permits(n) == Cardinality(Busy(n)) + Permit(n) + throttle[n] + lost[n]

Fresh == \A n \in Node :
    mode[n] = "new" => /\ pc[n] = "ended" /\ lost[n] = 0
                       /\ \A th \in Thread : stage[n][th] = "idle"

PermitInv == PermitAccounting /\ Fresh

\* A Runnable that changes from one stage to another leaves the number of
\* busy threads as it is, one more, or one less.
LEMMA BusyThreads ==
    ASSUME TypeOK, NEW n \in Node, NEW th \in Thread, NEW s \in Stages,
           stage' = [stage EXCEPT ![n][th] = s]
    PROVE  /\ Cardinality(Busy(n)) \in Nat
           /\ Cardinality(Busy(n)') = IF stage[n][th] = "idle" /\ s # "idle"
                                      THEN Cardinality(Busy(n)) + 1
                                      ELSE IF stage[n][th] # "idle" /\ s = "idle"
                                      THEN Cardinality(Busy(n)) - 1
                                      ELSE Cardinality(Busy(n))
           /\ \A m \in Node \ {n} : Busy(m)' = Busy(m)
<1>1. IsFiniteSet(Busy(n))
  BY TaskQueueAssumption, FS_Subset DEF Busy
<1>2. Cardinality(Busy(n)) \in Nat
  BY <1>1, FS_CardinalityType
<1>3. \A m \in Node \ {n} : Busy(m)' = Busy(m)
  BY DEF Busy, TypeOK
<1>4. CASE s # "idle"
  <2>1. Busy(n)' = Busy(n) \cup {th}
    BY <1>4 DEF Busy, TypeOK
  <2>2. th \in Busy(n) <=> stage[n][th] # "idle"
    BY DEF Busy
  <2>3. Cardinality(Busy(n)') = IF stage[n][th] # "idle" THEN Cardinality(Busy(n))
                                ELSE Cardinality(Busy(n)) + 1
    BY <1>1, <2>1, <2>2, FS_AddElement
  <2>q. QED BY ONLY <1>2, <1>3, <1>4, <2>3
<1>5. CASE s = "idle"
  <2>1. Busy(n)' = Busy(n) \ {th}
    BY <1>5 DEF Busy, TypeOK
  <2>2. th \in Busy(n) <=> stage[n][th] # "idle"
    BY DEF Busy
  <2>3. Cardinality(Busy(n)') = IF stage[n][th] # "idle" THEN Cardinality(Busy(n)) - 1
                                ELSE Cardinality(Busy(n))
    BY <1>1, <2>1, <2>2, FS_RemoveElement
  <2>q. QED BY ONLY <1>2, <1>3, <1>5, <2>3
<1>q. QED BY <1>4, <1>5

LEMMA PermitInvInit == Init => PermitInv
<1> SUFFICES ASSUME Init PROVE PermitInv
  OBVIOUS
<1>1. \A n \in Node : Cardinality(Busy(n)) = 0
  <2>1. \A n \in Node : Busy(n) = {}
    BY DEF Init, Busy
  <2>q. QED BY ONLY <2>1, FS_EmptySet
<1>2. \A n \in Node : Permit(n) = 0 /\ lost[n] = 0
  BY DEF Init, Permit
<1>3. \A n \in Node : Alive(n) => throttle[n] = Parallel
  BY DEF Init, Alive
<1>4. PermitAccounting
  BY ONLY <1>1, <1>2, <1>3, TaskQueueAssumption DEF PermitAccounting
<1>5. Fresh
  BY DEF Init, Fresh
<1>q. QED BY <1>4, <1>5 DEF PermitInv

LEMMA PermitInvNext == TypeOK /\ PermitInv /\ [Next]_vars => PermitInv'
<1> SUFFICES ASSUME TypeOK, PermitInv, [Next]_vars PROVE PermitInv'
  OBVIOUS
<1> USE TaskQueueAssumption DEF TypeOK
<1>0. \A n \in Node : Cardinality(Busy(n)) \in Nat
  BY FS_Subset, FS_CardinalityType DEF Busy
\* A step that changes no life cycle and no sum.
<1>1. ASSUME \A n \in Node : /\ mode'[n] = mode[n] \/ {mode'[n], mode[n]} \subseteq {"up", "stopping", "stopped"}
                             /\ mode[n] # "new" => Permits(n)' = Permits(n)
                             /\ mode[n] = "new" => pc'[n] = pc[n] /\ lost'[n] = lost[n] /\ stage'[n] = stage[n]
      PROVE  PermitInv'
  <2>1. ASSUME NEW n \in Node, Alive(n)' PROVE Permits(n)' = Parallel
    <3>1. Alive(n) /\ mode[n] # "new"
      BY ONLY <1>1, <2>1 DEF Alive
    <3>2. Permits(n) = Parallel
      BY ONLY PermitInv, <3>1 DEF PermitInv, PermitAccounting, Permits
    <3>q. QED BY ONLY <1>1, <3>1, <3>2
  <2>2. PermitAccounting'
    BY ONLY <2>1 DEF PermitAccounting, Permits
  <2>3. Fresh'
    BY ONLY PermitInv, <1>1 DEF PermitInv, Fresh
  <2>q. QED BY ONLY <2>2, <2>3 DEF PermitInv
\* Only the place of the main thread of a node changes, and its permit not.
<1>2. ASSUME NEW n \in Node, NEW p \in Places, pc' = [pc EXCEPT ![n] = p], mode[n] # "new",
             pc[n] \in {"acquired", "claimed"} <=> p \in {"acquired", "claimed"},
             UNCHANGED <<throttle, lost, stage, mode>>
      PROVE  PermitInv'
  <2>1. \A m \in Node : Permit(m)' = Permit(m) /\ Busy(m)' = Busy(m)
    BY <1>2 DEF Permit, Busy
  <2>q. QED BY <1>1, <1>2, <2>1 DEF Permits
<1>3. ASSUME UNCHANGED <<pc, throttle, lost, stage, mode>> PROVE PermitInv'
  <2>1. \A m \in Node : Permit(m)' = Permit(m) /\ Busy(m)' = Busy(m)
    BY <1>3 DEF Permit, Busy
  <2>q. QED BY <1>1, <1>3, <2>1 DEF Permits
\* A Runnable goes from one stage to another, neither being idle.
<1>4. ASSUME NEW n \in Node, NEW th \in Thread, NEW s \in Stages \ {"idle"}, stage[n][th] # "idle",
             stage' = [stage EXCEPT ![n][th] = s], UNCHANGED <<pc, throttle, lost, mode>>
      PROVE  PermitInv'
  <2>1. mode[n] # "new"
    BY <1>4 DEF PermitInv, Fresh
  <2>2. \A m \in Node : Permit(m)' = Permit(m) /\ Cardinality(Busy(m)') = Cardinality(Busy(m))
    BY <1>4, BusyThreads DEF Permit
  <2>q. QED BY <1>1, <1>4, <2>1, <2>2 DEF Permits
<1>5. ASSUME NEW n \in Node, MainThread(n) PROVE PermitInv'
  <2>0. pc[n] # "ended" => mode[n] # "new"
    BY DEF PermitInv, Fresh
  <2>1. CASE ReadDeadline(n)
    BY <1>2, <2>0, <2>1 DEF ReadDeadline, Goto, Places, work, permits, runner, node
  <2>2. CASE Interrupted(n)
    <3>1. \A m \in Node : Permit(m)' = Permit(m) /\ Busy(m)' = Busy(m)
      BY <2>2 DEF Interrupted, Permit, Busy, runner
    <3>q. QED BY <1>1, <2>2, <3>1 DEF Interrupted, Permits, permits, runner
  <2>3. CASE SweepWon(n)
    BY <1>2, <2>0, <2>3 DEF SweepWon, BeginPeriod, Goto, Places, work, permits, runner, node
  <2>4. CASE SweepLost(n)
    BY <1>2, <2>0, <2>4 DEF SweepLost, Goto, Places, work, permits, runner, node
  <2>5. CASE SweepQuery(n)
    BY <1>2, <2>0, <2>5 DEF SweepQuery, Query, Goto, Places, work, permits, runner, node
  <2>6. CASE SweepEnd(n)
    BY <1>2, <2>0, <2>6 DEF SweepEnd, Goto, Places, work, permits, runner, node
  <2>7. CASE SweepPut(n) \/ \E t \in Task : SweepExpire(n, t) \/ SweepRenew(n, t)
    BY <1>3, <2>7 DEF SweepPut, SweepExpire, SweepRenew, work, permits, runner, node
  <2>8. CASE Poll(n)
    BY <1>2, <2>0, <2>8 DEF Poll, Goto, Places, permits, runner, node
  <2>9. CASE Acquire(n)
    <3>1. \A m \in Node : Busy(m)' = Busy(m)
      BY <2>9 DEF Acquire, TakePermit, Busy, runner
    <3>2. \A m \in Node \ {n} : Permit(m)' = Permit(m) /\ throttle'[m] = throttle[m]
      BY <2>9 DEF Acquire, TakePermit, Goto, Permit
    <3>3. Permit(n) = 0 /\ Permit(n)' = 1 /\ throttle'[n] = throttle[n] - 1
      BY <2>9 DEF Acquire, TakePermit, Goto, Permit
    <3>4. mode' = mode /\ lost' = lost /\ stage' = stage
      BY ONLY <2>9 DEF Acquire, TakePermit, node, runner
    <3>5. mode[n] # "new" /\ \A m \in Node \ {n} : pc'[m] = pc[m]
      BY <2>0, <2>9 DEF Acquire, TakePermit, Goto
    <3>6. throttle[n] \in Int /\ lost[n] \in Int
      OBVIOUS
    <3>7. \A m \in Node : Permits(m)' = Permits(m)
      BY ONLY <1>0, <3>1, <3>2, <3>3, <3>4, <3>6 DEF Permits
    <3>q. QED BY ONLY <1>1, <3>4, <3>5, <3>7
  <2>10. CASE Claim(n)
    BY <1>2, <2>0, <2>10 DEF Claim, RemoveHeld, Goto, Places, work, permits, runner, node
  <2>11. CASE AlreadyGone(n)
    <3>1. \A m \in Node : Busy(m)' = Busy(m)
      BY <2>11 DEF AlreadyGone, Busy, runner
    <3>2. \A m \in Node \ {n} : Permit(m)' = Permit(m) /\ throttle'[m] = throttle[m]
      BY <2>11 DEF AlreadyGone, Continue, Goto, Permit
    <3>3. Permit(n) = 1 /\ Permit(n)' = 0 /\ throttle'[n] = throttle[n] + 1
      BY <2>11 DEF AlreadyGone, Continue, Goto, Permit
    <3>4. mode' = mode /\ lost' = lost /\ stage' = stage
      BY ONLY <2>11 DEF AlreadyGone, Continue, node, runner
    <3>5. mode[n] # "new" /\ \A m \in Node \ {n} : pc'[m] = pc[m]
      BY <2>0, <2>11 DEF AlreadyGone, Continue, Goto
    <3>6. throttle[n] \in Int /\ lost[n] \in Int
      OBVIOUS
    <3>7. \A m \in Node : Permits(m)' = Permits(m)
      BY ONLY <1>0, <3>1, <3>2, <3>3, <3>4, <3>6 DEF Permits
    <3>q. QED BY ONLY <1>1, <3>4, <3>5, <3>7
  <2>12. CASE LoopFails(n)
    <3>1. \A m \in Node : Busy(m)' = Busy(m)
      BY <2>12 DEF LoopFails, Busy, runner
    <3>2. \A m \in Node \ {n} : Permit(m)' = Permit(m) /\ lost'[m] = lost[m]
      BY <2>12 DEF LoopFails, Continue, Goto, Permit
    <3>3. Permit(n) = 1 /\ Permit(n)' = 0 /\ lost'[n] = lost[n] + 1
      BY <2>12 DEF LoopFails, Continue, Goto, Permit
    <3>4. mode' = mode /\ throttle' = throttle /\ stage' = stage
      BY ONLY <2>12 DEF LoopFails, Continue, node, runner
    <3>5. mode[n] # "new" /\ \A m \in Node \ {n} : pc'[m] = pc[m]
      BY <2>0, <2>12 DEF LoopFails, Continue, Goto
    <3>6. throttle[n] \in Int /\ lost[n] \in Int
      OBVIOUS
    <3>7. \A m \in Node : Permits(m)' = Permits(m)
      BY ONLY <1>0, <3>1, <3>2, <3>3, <3>4, <3>6 DEF Permits
    <3>8. \A m \in Node : mode[m] = "new" =>
            pc'[m] = pc[m] /\ lost'[m] = lost[m] /\ stage'[m] = stage[m]
      BY ONLY <3>2, <3>4, <3>5
    <3>q. QED BY ONLY <1>1, <3>4, <3>7, <3>8
  <2>13. ASSUME NEW th \in Thread, Execute(n, th) PROVE PermitInv'
    <3>1. /\ Cardinality(Busy(n)') = Cardinality(Busy(n)) + 1
          /\ \A m \in Node \ {n} : Busy(m)' = Busy(m)
      BY <2>13, BusyThreads DEF Execute, Stages
    <3>2. \A m \in Node \ {n} : Permit(m)' = Permit(m)
      BY <2>13 DEF Execute, Continue, Goto, Permit
    <3>3. Permit(n) = 1 /\ Permit(n)' = 0
      BY <2>13 DEF Execute, Continue, Goto, Permit
    <3>4. mode' = mode /\ throttle' = throttle /\ lost' = lost
      BY ONLY <2>13 DEF Execute, Continue, node, permits
    <3>5. /\ mode[n] # "new"
          /\ \A m \in Node \ {n} : pc'[m] = pc[m] /\ stage'[m] = stage[m]
      BY <2>0, <2>13 DEF Execute, Continue, Goto
    <3>6. throttle[n] \in Int /\ lost[n] \in Int
      OBVIOUS
    <3>7. \A m \in Node : Permits(m)' = Permits(m)
      BY ONLY <1>0, <3>1, <3>2, <3>3, <3>4, <3>6 DEF Permits
    <3>q. QED BY ONLY <1>1, <3>4, <3>5, <3>7
  <2>q. QED
    BY ONLY <1>5, <2>1, <2>2, <2>3, <2>4, <2>5, <2>6, <2>7, <2>8, <2>9, <2>10, <2>11, <2>12, <2>13
    DEF MainThread
<1>6. ASSUME NEW n \in Node, NEW th \in Thread, Runnable(n, th) PROVE PermitInv'
  <2>1. CASE Start(n, th) BY <1>4, <2>1 DEF Start, Step, Stages, loop, permits, node
  <2>2. CASE NoWorker(n, th) BY <1>4, <2>2 DEF NoWorker, Step, Stages, loop, permits, node
  <2>3. CASE Return(n, th) BY <1>4, <2>3 DEF Return, Step, Stages, loop, permits, node
  <2>4. CASE Throw(n, th) BY <1>4, <2>4 DEF Throw, Step, Stages, loop, permits, node
  <2>5. CASE Record(n, th) BY <1>4, <2>5 DEF Record, Step, Stages, loop, permits, node
  <2>6. CASE Release(n, th)
    <3>0. mode[n] # "new"
      BY <2>6 DEF Release, PermitInv, Fresh
    <3>1. /\ Cardinality(Busy(n)') = Cardinality(Busy(n)) - 1
          /\ \A m \in Node \ {n} : Busy(m)' = Busy(m)
      BY <2>6, BusyThreads DEF Release, Step, Stages
    <3>2. /\ \A m \in Node : Permit(m)' = Permit(m)
          /\ \A m \in Node \ {n} : throttle'[m] = throttle[m]
          /\ throttle'[n] = throttle[n] + 1
      BY <2>6 DEF Release, Permit, loop
    <3>3. mode' = mode /\ pc' = pc /\ lost' = lost
      BY ONLY <2>6 DEF Release, node, loop
    <3>4. \A m \in Node \ {n} : stage'[m] = stage[m]
      BY <2>6 DEF Release, Step
    <3>5. Permit(n) \in Int /\ throttle[n] \in Int /\ lost[n] \in Int
      BY DEF Permit
    <3>6. \A m \in Node : Permits(m)' = Permits(m)
      BY ONLY <1>0, <3>1, <3>2, <3>3, <3>5 DEF Permits
    <3>q. QED BY ONLY <1>1, <3>0, <3>3, <3>4, <3>6
  <2>q. QED BY ONLY <1>6, <2>1, <2>2, <2>3, <2>4, <2>5, <2>6 DEF Runnable
<1>7. ASSUME NEW n \in Node, NEW t \in Task, Client(n, t) PROVE PermitInv'
  BY <1>3, <1>7 DEF Client, Insert, InsertPut, Cancel, CancelUpdate, ClientFails, loop, permits, runner, node
<1>8. ASSUME NEW n \in Node, NEW t \in Task, EntryAdded(n, t) PROVE PermitInv'
  BY <1>3, <1>8 DEF EntryAdded, permits, runner, node
<1>9. ASSUME NEW n \in Node, LifeCycle(n) PROVE PermitInv'
  <2>1. CASE Activate(n)
    <3>1. \A m \in Node : Busy(m)' = Busy(m)
      BY <2>1 DEF Activate, Busy, runner
    <3>2. Busy(n) = {} /\ Cardinality({}) = 0
      BY <2>1, FS_EmptySet DEF Activate, Busy, PermitInv, Fresh
    <3>3. Permit(n)' = 0 /\ \A m \in Node \ {n} : Permit(m)' = Permit(m)
      BY <2>1 DEF Activate, Permit
    <3>4. /\ stage' = stage /\ lost' = lost /\ lost[n] = 0
          /\ throttle'[n] = Parallel /\ mode'[n] = "up"
      BY <2>1 DEF Activate, PermitInv, Fresh, runner
    <3>5. \A m \in Node \ {n} : /\ mode'[m] = mode[m] /\ pc'[m] = pc[m]
                                 /\ throttle'[m] = throttle[m]
      BY <2>1 DEF Activate
    <3>6. Permits(n)' = Parallel
      <4>1. Cardinality(Busy(n)') = 0
        BY ONLY <3>1, <3>2
      <4>2. Parallel \in Nat
        OBVIOUS
      <4>q. QED BY ONLY <4>1, <4>2, <3>3, <3>4 DEF Permits
    <3>7. \A m \in Node \ {n} : Permits(m)' = Permits(m)
      BY ONLY <3>1, <3>3, <3>4, <3>5 DEF Permits
    <3>8. PermitAccounting'
      BY ONLY PermitInv, <3>5, <3>6, <3>7
      DEF PermitInv, PermitAccounting, Permits, Alive
    <3>9. Fresh'
      BY ONLY PermitInv, <3>4, <3>5 DEF PermitInv, Fresh
    <3>q. QED BY ONLY <3>8, <3>9 DEF PermitInv
  <2>2. CASE Deactivate(n)
    <3>1. \A m \in Node : Permit(m)' = Permit(m) /\ Busy(m)' = Busy(m)
      BY <2>2 DEF Deactivate, Permit, Busy, loop, runner
    <3>q. QED BY <1>1, <2>2, <3>1 DEF Deactivate, Permits, loop, permits, runner
  <2>3. CASE Crash(n)
    <3>1. \A m \in Node \ {n} : Permit(m)' = Permit(m) /\ Busy(m)' = Busy(m)
      BY <2>3 DEF Crash, Permit, Busy
    <3>2. ~Alive(n)' /\ mode'[n] # "new"
      BY <2>3 DEF Crash, Alive
    <3>3. \A m \in Node \ {n} : /\ mode'[m] = mode[m] /\ pc'[m] = pc[m]
                                 /\ throttle'[m] = throttle[m] /\ stage'[m] = stage[m]
      BY <2>3 DEF Crash
    <3>4. lost' = lost
      BY ONLY <2>3 DEF Crash
    <3>5. \A m \in Node \ {n} : Permits(m)' = Permits(m)
      BY ONLY <3>1, <3>3, <3>4 DEF Permits
    <3>6. PermitAccounting'
      BY ONLY PermitInv, <3>2, <3>3, <3>5
      DEF PermitInv, PermitAccounting, Permits, Alive
    <3>7. Fresh'
      BY ONLY PermitInv, <3>2, <3>3, <3>4 DEF PermitInv, Fresh
    <3>q. QED BY ONLY <3>6, <3>7 DEF PermitInv
  <2>4. ASSUME NEW ty \in Type, AddWorker(n, ty) \/ RemoveWorker(n, ty) PROVE PermitInv'
    BY <1>3, <2>4 DEF AddWorker, RemoveWorker, loop, permits, runner
  <2>q. QED BY ONLY <1>9, <2>1, <2>2, <2>3, <2>4 DEF LifeCycle
<1>10. CASE Tick BY ONLY <1>3, <1>10 DEF Tick, node, work, permits, runner
<1>11. CASE UNCHANGED vars
  BY <1>3, <1>11 DEF vars, loop, permits, runner, node
<1>q. QED BY ONLY <1>5, <1>6, <1>7, <1>8, <1>9, <1>10, <1>11, [Next]_vars DEF Next

\* No path through run() and its Runnables mints a permit or loses one that
\* was not lost to a call that threw.
THEOREM PermitsAreAccounted == Spec => []PermitAccounting
<1>1. PermitInv => PermitAccounting
  BY DEF PermitInv
<1>q. QED BY <1>1, TypeCorrect, PermitInvInit, PermitInvNext, PTL DEF Spec

-----------------------------------------------------------------------------
(* One execution at a time.  With every worker and every waiting offer on   *)
(* time, a sweep's query finds only tasks that nobody has or could still    *)
(* claim: whatever is in a hand or within reach of one has its `after' not  *)
(* passed.  That stays so between the query and the sweep's puts because    *)
(* there is one sweep at a time and the clock waits for it.                 *)

\* An event, a queue or the main thread of n could still bring it to a claim of t.
Reaches(n, t) == added[n][t] > 0 \/ Waits(n, t)

\* n has claimed t and not yet handed it to the executor.
Claims(n, t) == pc[n] = "claimed" /\ held[n] = t

\* The Runnable on th is to execute t, executes it or has to record that it did.
Runs(n, th, t) == job[n][th] = t /\ stage[n][th] \in {"submitted", "working", "worked"}

\* Some node has taken t out of the map and is not done with it.
InHand(t) == \E n \in Node : Claims(n, t) \/ \E th \in Thread : Runs(n, th, t)

\* The running sweep of n has found t and not yet put it back.
Visits(n, t) == t \in cursor[n] \/ renewed[n] = t

\* What a node sweeps it forgets when it stops sweeping, and its period lasts as long.
SweepSteps == \A n \in Node :
    /\ IF pc[n] = "sweeping" THEN renewTo[n] = Latency ELSE cursor[n] = {} /\ renewed[n] = NoTask
    /\ renewed[n] \notin cursor[n]
    /\ Sweeping(n) => deadline[n] > 0

\* A task in the map is in no hand, and no task is in two.
OneHand == \A t \in Task :
    /\ t \in activeTasks => ~ InHand(t)
    /\ \A n, m \in Node : Claims(n, t) /\ Claims(m, t) => n = m
    /\ \A n, m \in Node, th, tm \in Thread : Runs(n, th, t) /\ Runs(m, tm, t) => n = m /\ th = tm
    /\ \A n, m \in Node, th \in Thread : Claims(n, t) => ~ Runs(m, th, t)

\* A record that a sweep might find has not passed its `after' while its task
\* is in a hand or on offer within reach of one.
InTime == \A t \in Task : state[t] = "QUEUED" =>
    /\ InHand(t) => after[t] >= 0
    /\ \A n \in Node : t \in activeTasks /\ Reaches(n, t) => after[t] >= 0

\* So the tasks a sweep has found are in no hand, nor on offer within reach.
VisitsIdle == \A n \in Node, t \in Task : Visits(n, t) =>
    /\ ~ InHand(t)
    /\ t \in activeTasks => \A m \in Node : ~ Reaches(m, t)
    /\ renewed[n] = t => after[t] >= 0

\* A task between the two halves of its insert is nowhere else.
InsertsFresh == \A n \in Node : \A t \in inserting[n] :
    /\ after[t] >= 0 /\ t \notin activeTasks /\ ~ InHand(t)
    /\ \A m \in Node : ~ Visits(m, t) /\ (m # n => t \notin inserting[m])

\* Only a task that is stored and has not succeeded is anywhere.
OthersIdle == \A t \in Task : state[t] \in {"ABSENT", "SUCCEEDED"} =>
    /\ t \notin activeTasks /\ ~ InHand(t)
    /\ \A n \in Node : ~ Visits(n, t) /\ t \notin inserting[n]

OnceInv == SweepSteps /\ OneHand /\ InTime /\ VisitsIdle /\ InsertsFresh /\ OthersIdle

\* Nothing is stored, offered or taken at the start.
LEMMA OnceInvInit == Init => OnceInv
<1> SUFFICES ASSUME Init PROVE OnceInv
  OBVIOUS
<1> USE TaskQueueAssumption DEF Init
<1>1. \A t \in Task : ~ InHand(t) /\ \A n \in Node : ~ Visits(n, t)
  BY DEF InHand, Claims, Runs, Visits
<1>2. SweepSteps
  BY DEF SweepSteps, Sweeping
<1>q. QED
  BY <1>1, <1>2 DEF OnceInv, OneHand, InTime, VisitsIdle, InsertsFresh, OthersIdle, InHand

\* A step that puts no task into a hand, a sweep or an insert.
Shrinks == \A m \in Node, x \in Task :
    /\ Claims(m, x)' => Claims(m, x)
    /\ \A th \in Thread : Runs(m, th, x)' => Runs(m, th, x)
    /\ Visits(m, x)' => Visits(m, x)
    /\ renewed'[m] = x => renewed[m] = x
    /\ x \in inserting'[m] => x \in inserting[m]

\* Hands are only emptied by it.
LEMMA HandShrinks == Shrinks => \A x \in Task : InHand(x)' => InHand(x)
BY DEF Shrinks, InHand

\* Such a step keeps the invariant if it offers nothing either ...
LEMMA OnlyLess ==
    ASSUME TypeOK, TypeOK', OnceInv, SweepSteps', Shrinks, after' = after, activeTasks' \subseteq activeTasks,
           \A x \in Task : state'[x] \in {state[x], "CANCELED"},
           \A m \in Node, x \in Task : Reaches(m, x)' => Reaches(m, x)
    PROVE  OnceInv'
<1>1. \A x \in Task : InHand(x)' => InHand(x)
  BY HandShrinks
<1>2. OneHand'
  BY <1>1 DEF OnceInv, OneHand, Shrinks
<1>3. InTime'
  BY <1>1 DEF OnceInv, InTime
<1>4. VisitsIdle'
  BY <1>1 DEF OnceInv, VisitsIdle, Shrinks
<1>5. InsertsFresh'
  BY <1>1 DEF OnceInv, InsertsFresh, Shrinks, TypeOK
<1>6. OthersIdle'
  BY <1>1 DEF OnceInv, OthersIdle, Shrinks
<1>q. QED BY <1>2, <1>3, <1>4, <1>5, <1>6 DEF OnceInv

\* ... or if what it puts in the map is in no hand, in time and not visited.
LEMMA Offered ==
    ASSUME TypeOK, TypeOK', OnceInv, SweepSteps', Shrinks, UNCHANGED <<state, after, held, queue>>,
           NEW t \in Task, Put(t),
           state[t] \notin {"ABSENT", "SUCCEEDED"}, state[t] = "QUEUED" => after[t] >= 0,
           ~ InHand(t)', \A m \in Node : ~ Visits(m, t)' /\ t \notin inserting'[m]
    PROVE  OnceInv'
<1>1. \A x \in Task : InHand(x)' => InHand(x)
  BY HandShrinks
<1>2. activeTasks' \subseteq activeTasks \cup {t}
  BY DEF Put
<1>3. \A m \in Node, x \in Task : x # t /\ Reaches(m, x)' => Reaches(m, x)
  BY DEF Put, Reaches, Waits, TypeOK
<1>4. OneHand'
  BY <1>1, <1>2 DEF OnceInv, OneHand, Shrinks, InHand
<1>5. InTime'
  BY <1>1, <1>2, <1>3 DEF OnceInv, InTime
<1>6. VisitsIdle'
  BY <1>1, <1>2, <1>3 DEF OnceInv, VisitsIdle, Shrinks
<1>7. InsertsFresh'
  BY <1>1, <1>2, SMTT(30) DEF OnceInv, InsertsFresh, Shrinks, TypeOK
<1>8. OthersIdle'
  BY <1>1, <1>2 DEF OnceInv, OthersIdle, Shrinks
<1>q. QED BY <1>4, <1>5, <1>6, <1>7, <1>8 DEF OnceInv

\* The clock does not move while a node sweeps.
LEMMA SweepStepsNext ==
    ASSUME Timely PROVE TypeOK /\ Running /\ SweepSteps /\ [Next]_vars => SweepSteps'
<1> SUFFICES ASSUME TypeOK, Running, SweepSteps, [Next]_vars PROVE SweepSteps'
  OBVIOUS
<1> USE TaskQueueAssumption DEF TypeOK, SweepSteps, Sweeping,
    database, shared, node, sweeper, loop, permits, runner, work, clients
<1>1. ASSUME UNCHANGED <<pc, deadline, cursor, renewTo, renewed>> PROVE SweepSteps'
  BY <1>1
<1>2. ASSUME NEW n \in Node, NEW p \in {"start", "loop", "reread", "polled", "acquired", "claimed", "ended"},
             pc[n] # "sweeping", pc' = [pc EXCEPT ![n] = p],
             \A m \in Node \ {n} : deadline'[m] = deadline[m],
             UNCHANGED <<cursor, renewTo, renewed>>
      PROVE  SweepSteps'
  BY <1>2
<1>3. ASSUME NEW n \in Node, MainThread(n) PROVE SweepSteps'
  <2>1. CASE ReadDeadline(n) BY <1>2, <2>1 DEF ReadDeadline, Goto
  <2>2. CASE Interrupted(n) BY <1>2, <2>2 DEF Interrupted
  <2>3. CASE SweepWon(n)
    <3>1. SweepTime > 0 /\ SweepTime \in Nat
      BY DEF SweepTime
    <3>q. QED BY <2>3, <3>1 DEF SweepWon, BeginPeriod, Goto
  <2>4. CASE SweepLost(n) BY <1>2, <2>4 DEF SweepLost, Goto
  <2>5. CASE SweepQuery(n) BY <2>5 DEF SweepQuery, Query, Goto, Queued
  <2>6. CASE SweepPut(n) BY <2>6 DEF SweepPut
  <2>7. CASE SweepEnd(n) BY <2>7 DEF SweepEnd, Goto
  <2>8. ASSUME NEW t \in Task, SweepExpire(n, t) PROVE SweepSteps'
    BY <2>8 DEF SweepExpire
  <2>9. ASSUME NEW t \in Task, SweepRenew(n, t) PROVE SweepSteps'
    BY <2>9 DEF SweepRenew
  <2>10. CASE Poll(n) BY <1>2, <2>10 DEF Poll, Goto
  <2>11. CASE Acquire(n) BY <1>2, <2>11 DEF Acquire, TakePermit, Goto
  <2>12. CASE Claim(n) BY <1>2, <2>12 DEF Claim, RemoveHeld, Goto
  <2>13. CASE AlreadyGone(n) BY <1>2, <2>13 DEF AlreadyGone, Continue, Goto
  <2>14. CASE LoopFails(n) BY <1>2, <2>14 DEF LoopFails, Continue, Goto
  <2>15. ASSUME NEW th \in Thread, Execute(n, th) PROVE SweepSteps'
    BY <1>2, <2>15 DEF Execute, Continue, Goto
  <2>q. QED
    BY ONLY <1>3, <2>1, <2>2, <2>3, <2>4, <2>5, <2>6, <2>7, <2>8, <2>9, <2>10, <2>11, <2>12,
            <2>13, <2>14, <2>15 DEF MainThread
<1>4. ASSUME NEW n \in Node, NEW th \in Thread, Runnable(n, th) PROVE SweepSteps'
  BY <1>1, <1>4 DEF Runnable, Start, NoWorker, Return, Throw, Record, Release
<1>5. ASSUME NEW n \in Node, NEW t \in Task, EntryAdded(n, t) \/ Client(n, t) PROVE SweepSteps'
  BY <1>1, <1>5 DEF EntryAdded, Client, Insert, InsertPut, Cancel, CancelUpdate, ClientFails
<1>6. ASSUME NEW n \in Node, LifeCycle(n) PROVE SweepSteps'
  <2>1. CASE Activate(n)
    BY <1>2, <2>1 DEF Activate, Running
  <2>2. CASE Deactivate(n) BY <1>1, <2>2 DEF Deactivate
  <2>3. CASE Crash(n) BY <2>3 DEF Crash
  <2>4. ASSUME NEW ty \in Type, AddWorker(n, ty) \/ RemoveWorker(n, ty) PROVE SweepSteps'
    BY <1>1, <2>4 DEF AddWorker, RemoveWorker
  <2>q. QED BY ONLY <1>6, <2>1, <2>2, <2>3, <2>4 DEF LifeCycle
<1>7. CASE Tick
  <2>1. \A n \in Node : pc[n] \in {"ended", "loop", "polled"}
    BY <1>7 DEF Tick, Quiescent
  <2>q. QED BY <1>7, <2>1 DEF Tick
<1>8. CASE UNCHANGED vars
  BY <1>1, <1>8 DEF vars
<1>q. QED BY ONLY <1>3, <1>4, <1>5, <1>6, <1>7, <1>8, [Next]_vars DEF Next

\* Every step keeps the invariant: the three that put a task in the map by the
\* lemma Offered, a claim and an execute because they pass on the one hand.
LEMMA OnceInvNext ==
    ASSUME Timely PROVE TypeInv /\ SweepInv /\ OnceInv /\ [Next]_vars => OnceInv'
<1> SUFFICES ASSUME TypeInv, SweepInv, OnceInv, [Next]_vars PROVE OnceInv'
  OBVIOUS
<1>a. TypeOK /\ TypeOK' /\ SweepSteps'
  BY TypeInvNext, SweepStepsNext DEF TypeInv, SweepInv, OnceInv
<1>b. \A n, m \in Node : Sweeping(n) /\ Sweeping(m) => n = m
  BY <1>a DEF SweepInv, SweepExclusive, OnceInv, SweepSteps
<1>c. \A n \in Node, t \in Task : Visits(n, t) => pc[n] = "sweeping"
  BY TaskQueueAssumption DEF OnceInv, SweepSteps, Visits
<1> USE TaskQueueAssumption, <1>a DEF database, shared, node, sweeper, loop, permits, runner, work, clients
<1>1. ASSUME UNCHANGED <<state, after, activeTasks, added, queue, held, pc, cursor, renewed, inserting, stage, job>>
      PROVE  OnceInv'
  <2>1. Shrinks
    BY <1>1 DEF Shrinks, Claims, Runs, Visits
  <2>2. \A m \in Node, x \in Task : Reaches(m, x)' => Reaches(m, x)
    BY <1>1 DEF Reaches, Waits
  <2>q. QED BY <1>1, <2>1, <2>2, OnlyLess
<1>2. ASSUME NEW n \in Node, NEW p \in Places \ {"claimed"}, pc' = [pc EXCEPT ![n] = p],
             held' = held \/ held' = [held EXCEPT ![n] = NoTask],
             UNCHANGED <<state, after, activeTasks, added, queue, cursor, renewed, inserting, stage, job>>
      PROVE  OnceInv'
  <2>0. \A m \in Node, x \in Task : held'[m] = x => held[m] = x
    BY <1>2, SMTT(30) DEF TypeOK
  <2>1. Shrinks
    <3>1. \A m \in Node : pc'[m] = "claimed" => pc[m] = "claimed"
      BY <1>2 DEF TypeOK
    <3>q. QED BY <1>2, <2>0, <3>1 DEF Shrinks, Claims, Runs, Visits
  <2>2. \A m \in Node, x \in Task : Reaches(m, x)' => Reaches(m, x)
    BY <1>2, <2>0 DEF Reaches, Waits
  <2>q. QED BY <1>2, <2>1, <2>2, OnlyLess
<1>3. ASSUME NEW n \in Node, NEW th \in Thread, NEW s \in Stages,
             stage' = [stage EXCEPT ![n][th] = s],
             s \in {"working", "worked"} => stage[n][th] \in {"submitted", "working"},
             s # "submitted",
             job' = job,
             UNCHANGED <<state, after, activeTasks, added, queue, held, pc, cursor, renewed, inserting>>
      PROVE  OnceInv'
  <2>1. Shrinks
    BY <1>3 DEF Shrinks, Claims, Runs, Visits, TypeOK
  <2>2. \A m \in Node, x \in Task : Reaches(m, x)' => Reaches(m, x)
    BY <1>3 DEF Reaches, Waits
  <2>q. QED BY <1>3, <2>1, <2>2, OnlyLess
<1>4. ASSUME NEW n \in Node, MainThread(n) PROVE OnceInv'
  <2>1. CASE ReadDeadline(n) BY <1>2, <2>1 DEF ReadDeadline, Goto, Places
  <2>2. CASE Interrupted(n)
    <3>1. Shrinks
      BY <2>2 DEF Shrinks, Claims, Runs, Visits, Interrupted, TypeOK
    <3>2. \A m \in Node, x \in Task : Reaches(m, x)' => Reaches(m, x)
      BY <2>2 DEF Reaches, Waits, Interrupted, TypeOK
    <3>q. QED BY <2>2, <3>1, <3>2, OnlyLess DEF Interrupted
  <2>3. CASE SweepWon(n) BY <1>2, <2>3 DEF SweepWon, BeginPeriod, Goto, Places
  <2>4. CASE SweepLost(n) BY <1>2, <2>4 DEF SweepLost, Goto, Places
  <2>5. CASE SweepQuery(n)
    <3>0. renewed'[n] = NoTask /\ cursor'[n] = Queued \cap AfterPassed
      BY <2>5 DEF SweepQuery, Query, TypeOK, OnceInv, SweepSteps
    <3>1. \A x \in Task : Visits(n, x)' => state[x] = "QUEUED" /\ ~ (after[x] >= 0)
      <4>1. \A x \in Task : after[x] \in Int
        BY DEF TypeOK
      <4>2. NoTask \notin Task
        OBVIOUS
      <4>q. QED BY ONLY <3>0, <4>1, <4>2 DEF Queued, AfterPassed, Visits
    <3>2. UNCHANGED <<state, after, activeTasks, added, queue, held, renewed, inserting, stage, job>>
      BY <2>5 DEF SweepQuery, Query
    <3>3. \A m \in Node : m # n => \A x \in Task : Visits(m, x)' => Visits(m, x)
      BY <2>5 DEF SweepQuery, Query, Visits, TypeOK
    <3>4. \A m \in Node, x \in Task : (Reaches(m, x)' <=> Reaches(m, x)) /\ (Claims(m, x)' <=> Claims(m, x))
      BY <2>5, <3>2 DEF SweepQuery, Query, Goto, Reaches, Waits, Claims, TypeOK
    <3>5. \A m \in Node, x \in Task, th \in Thread : Runs(m, th, x)' <=> Runs(m, th, x)
      BY <3>2 DEF Runs
    <3>6. \A x \in Task : InHand(x)' <=> InHand(x)
      BY <3>4, <3>5 DEF InHand
    <3>7. OneHand' /\ InTime'
      BY <3>2, <3>4, <3>5, <3>6 DEF OnceInv, OneHand, InTime
    <3>8. VisitsIdle'
      <4> SUFFICES ASSUME NEW m \in Node, NEW x \in Task, Visits(m, x)'
                   PROVE  /\ ~ InHand(x)'
                          /\ x \in activeTasks' => \A k \in Node : ~ Reaches(k, x)'
                          /\ renewed'[m] = x => after'[x] >= 0
        BY DEF VisitsIdle
      <4>1. CASE m = n
        <5>1. state[x] = "QUEUED" /\ ~ (after[x] >= 0)
          BY <3>1, <4>1
        <5>2. ~ InHand(x) /\ \A k \in Node : ~ (x \in activeTasks /\ Reaches(k, x))
          BY <5>1 DEF OnceInv, InTime
        <5>q. QED BY <3>0, <3>2, <3>4, <3>6, <4>1, <5>2
      <4>2. CASE m # n
        BY <3>2, <3>3, <3>4, <3>6, <4>2 DEF OnceInv, VisitsIdle
      <4>q. QED BY <4>1, <4>2
    <3>9. InsertsFresh'
      <4>1. \A m \in Node : \A x \in inserting[m] : x \in Task /\ after[x] >= 0 /\ ~ Visits(n, x)'
        BY <3>1 DEF OnceInv, InsertsFresh, TypeOK
      <4>q. QED BY <3>2, <3>3, <3>6, <4>1 DEF OnceInv, InsertsFresh
    <3>10. OthersIdle'
      BY <3>1, <3>2, <3>3, <3>6 DEF OnceInv, OthersIdle
    <3>q. QED BY <3>7, <3>8, <3>9, <3>10 DEF OnceInv
  <2>6. CASE SweepPut(n)
    <3>0. PICK t \in Task : t = renewed[n]
      BY <2>6 DEF SweepPut, TypeOK
    <3>1. Put(t) /\ Visits(n, t)
      BY <2>6, <3>0 DEF SweepPut, Visits
    <3>2. Shrinks
      BY <2>6 DEF SweepPut, Shrinks, Claims, Runs, Visits, TypeOK
    <3>3. ~ InHand(t)'
      BY <3>1, <3>2, HandShrinks DEF OnceInv, VisitsIdle
    <3>4. \A m \in Node : ~ Visits(m, t)'
      <4>1. \A m \in Node : m # n => ~ Visits(m, t)
        BY <1>b, <1>c, <3>1 DEF Sweeping
      <4>2. ~ Visits(n, t)'
        BY <2>6, <3>0 DEF SweepPut, Visits, TypeOK, OnceInv, SweepSteps
      <4>q. QED BY <3>1, <3>2, <4>1, <4>2 DEF Shrinks
    <3>5. \A m \in Node : t \notin inserting'[m]
      BY <2>6, <3>1 DEF SweepPut, OnceInv, InsertsFresh
    <3>6. state[t] \notin {"ABSENT", "SUCCEEDED"} /\ after[t] >= 0
      BY <3>0, <3>1 DEF OnceInv, OthersIdle, VisitsIdle
    <3>7. UNCHANGED <<state, after, held, queue>>
      BY <2>6 DEF SweepPut
    <3>q. QED BY ONLY <1>a, OnceInv, <3>1, <3>2, <3>3, <3>4, <3>5, <3>6, <3>7, Offered
  <2>7. CASE SweepEnd(n)
    <3>1. Shrinks
      BY <2>7, SMTT(30) DEF Shrinks, Claims, Runs, Visits, SweepEnd, Goto, TypeOK
    <3>2. \A m \in Node, x \in Task : Reaches(m, x)' => Reaches(m, x)
      BY <2>7 DEF Reaches, Waits, SweepEnd, TypeOK
    <3>q. QED BY <2>7, <3>1, <3>2, OnlyLess DEF SweepEnd
  <2>8. ASSUME NEW t \in Task, SweepExpire(n, t) PROVE OnceInv'
    <3>1. Shrinks
      BY <2>8 DEF Shrinks, Claims, Runs, Visits, SweepExpire, Remove, TypeOK
    <3>2. \A m \in Node, x \in Task : Reaches(m, x)' => Reaches(m, x)
      BY <2>8 DEF Reaches, Waits, SweepExpire, Remove, TypeOK
    <3>q. QED BY <2>8, <3>1, <3>2, OnlyLess DEF SweepExpire, Remove
  <2>9. ASSUME NEW t \in Task, SweepRenew(n, t) PROVE OnceInv'
    <3>1. /\ after' = [after EXCEPT ![t] = Latency]
          /\ cursor' = [cursor EXCEPT ![n] = @ \ {t}]
          /\ renewed' = [renewed EXCEPT ![n] = t]
          /\ t \in cursor[n] /\ renewed[n] = NoTask
          /\ UNCHANGED <<state, activeTasks, added, queue, held, pc, inserting, stage, job>>
      BY <2>9 DEF SweepRenew, OnceInv, SweepSteps
    <3>2. \A m \in Node, x \in Task : Visits(m, x)' => Visits(m, x)
      BY <3>1 DEF Visits, TypeOK
    <3>3. \A x \in Task : after[x] >= 0 => after'[x] >= 0
      BY <3>1 DEF TypeOK
    <3>4. \A m \in Node, x \in Task : (Reaches(m, x)' <=> Reaches(m, x)) /\ (Claims(m, x)' <=> Claims(m, x))
      BY <3>1 DEF Reaches, Waits, Claims
    <3>5. \A m \in Node, x \in Task, th \in Thread : Runs(m, th, x)' <=> Runs(m, th, x)
      BY <3>1 DEF Runs
    <3>6. \A x \in Task : InHand(x)' <=> InHand(x)
      BY <3>4, <3>5 DEF InHand
    <3>7. OneHand' /\ InTime'
      BY <3>1, <3>3, <3>4, <3>5, <3>6 DEF OnceInv, OneHand, InTime
    <3>8. \A m \in Node, x \in Task : renewed'[m] = x => after'[x] >= 0
      BY <3>1, <3>3 DEF OnceInv, VisitsIdle, Visits, TypeOK
    <3>9. VisitsIdle'
      BY <3>1, <3>2, <3>4, <3>6, <3>8 DEF OnceInv, VisitsIdle
    <3>10. InsertsFresh'
      <4>1. \A m \in Node : inserting'[m] \subseteq Task
        BY <3>1 DEF TypeOK
      <4>2. inserting' = inserting /\ activeTasks' = activeTasks
        BY <3>1
      <4>3. InsertsFresh
        BY DEF OnceInv
      <4>q. QED BY ONLY <3>2, <3>3, <3>6, <4>1, <4>2, <4>3 DEF InsertsFresh
    <3>11. OthersIdle'
      BY <3>1, <3>2, <3>6 DEF OnceInv, OthersIdle
    <3>q. QED BY <3>7, <3>9, <3>10, <3>11 DEF OnceInv
  <2>10. CASE Poll(n)
    <3>1. Shrinks
      BY <2>10 DEF Shrinks, Claims, Runs, Visits, Poll, Goto, TypeOK
    <3>2. \A x \in Task : Waits(n, x)' => Waits(n, x)
      <4> DEFINE q == queue[n]
      <4>1. q \in Seq(Task) /\ q # <<>>
        BY <2>10 DEF Poll, TypeOK
      <4>2. Head(q) = q[1] /\ 1 \in DOMAIN q /\ \A i \in DOMAIN Tail(q) : i + 1 \in DOMAIN q /\ Tail(q)[i] = q[i + 1]
        BY ONLY <4>1
      <4>3. held'[n] = Head(q) /\ queue'[n] = Tail(q)
        BY <2>10 DEF Poll, TypeOK
      <4>q. QED BY <4>2, <4>3 DEF Waits
    <3>3. \A m \in Node, x \in Task : Reaches(m, x)' => Reaches(m, x)
      <4>1. \A m \in Node \ {n} : held'[m] = held[m] /\ queue'[m] = queue[m]
        BY <2>10 DEF Poll, TypeOK
      <4>2. added' = added
        BY <2>10 DEF Poll
      <4>3. \A m \in Node \ {n}, x \in Task : Waits(m, x)' => Waits(m, x)
        BY <4>1 DEF Waits
      <4>q. QED BY <3>2, <4>2, <4>3 DEF Reaches
    <3>q. QED BY <2>10, <3>1, <3>3, OnlyLess DEF Poll
  <2>11. CASE Acquire(n) BY <1>2, <2>11 DEF Acquire, TakePermit, Goto, Places
  <2>12. CASE Claim(n)
    <3> DEFINE t == held[n]
    <3>1. t \in Task /\ t \in activeTasks
      BY <2>12 DEF Claim, TypeOK
    <3>2. /\ pc' = [pc EXCEPT ![n] = "claimed"] /\ activeTasks' = activeTasks \ {t}
          /\ pc[n] = "acquired"
          /\ UNCHANGED <<state, after, added, queue, held, cursor, renewed, inserting, stage, job>>
      BY <2>12 DEF Claim, RemoveHeld, Remove, Goto
    <3>3. ~ InHand(t) /\ Reaches(n, t)
      BY <3>1 DEF OnceInv, OneHand, Reaches, Waits
    <3>4. \A m \in Node, x \in Task : Claims(m, x)' <=> Claims(m, x) \/ (m = n /\ x = t)
      BY <3>2 DEF Claims, TypeOK
    <3>5. \A m \in Node, x \in Task, th \in Thread : Runs(m, th, x)' <=> Runs(m, th, x)
      BY <3>2 DEF Runs
    <3>6. \A x \in Task : x # t => (InHand(x)' <=> InHand(x))
      BY <3>4, <3>5 DEF InHand
    <3>7. \A m \in Node, x \in Task : (Reaches(m, x)' <=> Reaches(m, x)) /\ (Visits(m, x)' <=> Visits(m, x))
      BY <3>2 DEF Reaches, Waits, Visits
    <3>8. OneHand'
      BY <3>1, <3>2, <3>3, <3>4, <3>5, <3>6 DEF OnceInv, OneHand, InHand
    <3>9. InTime'
      BY <3>1, <3>2, <3>3, <3>6, <3>7 DEF OnceInv, InTime
    <3>10. VisitsIdle'
      BY <3>1, <3>2, <3>3, <3>6, <3>7 DEF OnceInv, VisitsIdle
    <3>11. InsertsFresh'
      <4>1. \A m \in Node : \A x \in inserting[m] : x \in Task /\ x # t
        BY <3>1 DEF OnceInv, InsertsFresh, TypeOK
      <4>q. QED BY <3>2, <3>6, <3>7, <4>1 DEF OnceInv, InsertsFresh
    <3>12. OthersIdle'
      BY <3>1, <3>2, <3>6, <3>7 DEF OnceInv, OthersIdle
    <3>q. QED BY <3>8, <3>9, <3>10, <3>11, <3>12 DEF OnceInv
  <2>13. CASE AlreadyGone(n) BY <1>2, <2>13 DEF AlreadyGone, Continue, Goto, Places
  <2>14. CASE LoopFails(n) BY <1>2, <2>14 DEF LoopFails, Continue, Goto, Places
  <2>15. ASSUME NEW th \in Thread, Execute(n, th) PROVE OnceInv'
    <3> DEFINE t == held[n]
    <3>1. t \in Task
      BY <2>15 DEF Execute, TypeInv, HeldTask
    <3>2. /\ pc[n] = "claimed" /\ pc' = [pc EXCEPT ![n] = "loop"]
          /\ held' = [held EXCEPT ![n] = NoTask]
          /\ stage[n][th] = "idle" /\ stage' = [stage EXCEPT ![n][th] = "submitted"]
          /\ job' = [job EXCEPT ![n][th] = t]
          /\ UNCHANGED <<state, after, activeTasks, added, queue, cursor, renewed, inserting>>
      BY <2>15 DEF Execute, Continue, Goto
    <3>3. Claims(n, t)
      BY <3>2 DEF Claims
    <3>4. \A m \in Node, x \in Task : Claims(m, x)' <=> Claims(m, x) /\ m # n
      BY <3>2 DEF Claims, TypeOK
    <3>5. \A m \in Node, x \in Task, k \in Thread :
              Runs(m, k, x)' <=> Runs(m, k, x) \/ (m = n /\ k = th /\ x = t)
      <4>1. job'[n][th] = t /\ stage'[n][th] = "submitted"
        BY <3>2 DEF TypeOK
      <4>2. \A m \in Node, k \in Thread : (m = n /\ k = th) \/ (job'[m][k] = job[m][k] /\ stage'[m][k] = stage[m][k])
        BY <3>2, SMTT(30) DEF TypeOK
      <4>q. QED BY <3>2, <4>1, <4>2 DEF Runs
    <3>6. \A x \in Task : InHand(x)' => InHand(x)
      BY <3>3, <3>4, <3>5 DEF InHand
    <3>7. \A m \in Node, x \in Task : (Reaches(m, x)' => Reaches(m, x)) /\ (Visits(m, x)' <=> Visits(m, x))
      BY <3>2 DEF Reaches, Waits, Visits, TypeOK
    <3>8. OneHand'
      BY <3>1, <3>2, <3>3, <3>4, <3>5, <3>6 DEF OnceInv, OneHand
    <3>9. InTime'
      BY <3>2, <3>6, <3>7 DEF OnceInv, InTime
    <3>10. VisitsIdle'
      BY <3>2, <3>6, <3>7 DEF OnceInv, VisitsIdle
    <3>11. InsertsFresh'
      BY <3>2, <3>6, <3>7 DEF OnceInv, InsertsFresh, TypeOK
    <3>12. OthersIdle'
      BY <3>2, <3>6, <3>7 DEF OnceInv, OthersIdle
    <3>q. QED BY <3>8, <3>9, <3>10, <3>11, <3>12 DEF OnceInv
  <2>q. QED
    BY ONLY <1>4, <2>1, <2>2, <2>3, <2>4, <2>5, <2>6, <2>7, <2>8, <2>9, <2>10, <2>11, <2>12,
            <2>13, <2>14, <2>15 DEF MainThread
<1>5. ASSUME NEW n \in Node, NEW th \in Thread, Runnable(n, th) PROVE OnceInv'
  <2>1. CASE Start(n, th) BY <1>3, <2>1 DEF Start, Step, Stages
  <2>2. CASE Return(n, th) BY <1>3, <2>2 DEF Return, Step, Stages
  <2>3. CASE Throw(n, th) BY <1>3, <2>3 DEF Throw, Step, Stages
  <2>4. CASE NoWorker(n, th)
    <3>0. PICK t \in Task : t = job[n][th]
      BY <2>4 DEF NoWorker, TypeInv, JobTask
    <3>1. Put(t) /\ Runs(n, th, t)
      BY <2>4, <3>0 DEF NoWorker, Runs
    <3>2. /\ stage' = [stage EXCEPT ![n][th] = "ending"]
          /\ UNCHANGED <<state, after, queue, held, pc, cursor, renewed, inserting, job>>
      BY <2>4 DEF NoWorker, Step
    <3>3. Shrinks
      BY <3>2 DEF Shrinks, Claims, Runs, Visits, TypeOK
    <3>4. ~ Runs(n, th, t)'
      BY <3>2 DEF Runs, TypeOK
    <3>5. ~ InHand(t)'
      BY <3>1, <3>3, <3>4 DEF InHand, Shrinks, OnceInv, OneHand
    <3>6. InHand(t)
      BY <3>1 DEF InHand
    <3>7. \A m \in Node : ~ Visits(m, t)' /\ t \notin inserting'[m]
      BY <3>2, <3>3, <3>6 DEF Shrinks, OnceInv, VisitsIdle, InsertsFresh
    <3>8. state[t] \notin {"ABSENT", "SUCCEEDED"} /\ (state[t] = "QUEUED" => after[t] >= 0)
      BY <3>6 DEF OnceInv, OthersIdle, InTime
    <3>q. QED BY ONLY <1>a, OnceInv, <3>1, <3>2, <3>3, <3>5, <3>7, <3>8, Offered
  <2>5. CASE Record(n, th)
    <3>0. PICK t \in Task : t = job[n][th]
      BY <2>5 DEF Record, TypeInv, JobTask
    <3>1. /\ Runs(n, th, t) /\ stage' = [stage EXCEPT ![n][th] = "ending"]
          /\ UNCHANGED <<activeTasks, added, queue, held, pc, cursor, renewed, inserting, job>>
      BY <2>5, <3>0 DEF Record, Step, Runs
    <3>2. \/ state' = state /\ after' = [after EXCEPT ![t] = Period]
          \/ state' = [state EXCEPT ![t] = "SUCCEEDED"] /\ after' = after
      BY <2>5, <3>0 DEF Record
    <3>3. Shrinks
      BY <3>1 DEF Shrinks, Claims, Runs, Visits, TypeOK
    <3>4. ~ Runs(n, th, t)'
      BY <3>1 DEF Runs, TypeOK
    <3>5. \A x \in Task : InHand(x)' => InHand(x)
      BY <3>3, HandShrinks
    <3>6. InHand(t) /\ ~ InHand(t)'
      BY <3>1, <3>3, <3>4 DEF InHand, Shrinks, OnceInv, OneHand
    <3>7. t \notin activeTasks /\ \A m \in Node : ~ Visits(m, t) /\ t \notin inserting[m]
      BY <3>6 DEF OnceInv, OneHand, VisitsIdle, InsertsFresh
    <3>8. \A m \in Node, x \in Task : Reaches(m, x)' <=> Reaches(m, x)
      BY <3>1 DEF Reaches, Waits
    <3>9. \A x \in Task : x # t => state'[x] = state[x] /\ after'[x] = after[x]
      BY <3>2 DEF TypeOK
    <3>10. OneHand'
      BY <3>1, <3>3, <3>5 DEF OnceInv, OneHand, Shrinks
    <3>11. InTime'
      BY <3>1, <3>5, <3>6, <3>7, <3>8, <3>9 DEF OnceInv, InTime
    <3>12. VisitsIdle'
      BY <3>1, <3>3, <3>5, <3>7, <3>8, <3>9 DEF OnceInv, VisitsIdle, Shrinks, Visits
    <3>13. InsertsFresh'
      <4>1. \A m \in Node : \A x \in inserting[m] : x \in Task /\ x # t
        BY <3>7 DEF TypeOK
      <4>q. QED BY <3>1, <3>3, <3>5, <3>9, <4>1 DEF OnceInv, InsertsFresh, Shrinks
    <3>14. OthersIdle'
      BY <3>1, <3>3, <3>5, <3>6, <3>7, <3>9 DEF OnceInv, OthersIdle, Shrinks
    <3>q. QED BY <3>10, <3>11, <3>12, <3>13, <3>14 DEF OnceInv
  <2>6. CASE Release(n, th)
    <3>1. Shrinks
      <4>1. /\ stage' = [stage EXCEPT ![n][th] = "idle"] /\ job' = [job EXCEPT ![n][th] = NoTask]
            /\ UNCHANGED <<pc, held, cursor, renewed, inserting>>
        BY <2>6 DEF Release, Step
      <4>2. \A m \in Node, k \in Thread :
                (m = n /\ k = th /\ stage'[m][k] = "idle") \/ (job'[m][k] = job[m][k] /\ stage'[m][k] = stage[m][k])
        BY <4>1, SMTT(30) DEF TypeOK
      <4>q. QED BY <4>1, <4>2 DEF Shrinks, Claims, Runs, Visits
    <3>2. \A m \in Node, x \in Task : Reaches(m, x)' => Reaches(m, x)
      BY <2>6 DEF Reaches, Waits, Release
    <3>q. QED BY <2>6, <3>1, <3>2, OnlyLess DEF Release
  <2>q. QED BY ONLY <1>5, <2>1, <2>2, <2>3, <2>4, <2>5, <2>6 DEF Runnable
<1>6. ASSUME NEW n \in Node, NEW t \in Task, Client(n, t) PROVE OnceInv'
  <2>1. ASSUME NEW d \in Delays, NEW e \in Expiries, Insert(n, t, d, e) PROVE OnceInv'
    <3>1. /\ state[t] = "ABSENT" /\ state' = [state EXCEPT ![t] = "QUEUED"]
          /\ UNCHANGED <<activeTasks, added, queue, held, pc, cursor, renewed, stage, job>>
      BY <2>1 DEF Insert
    <3>2. ~ InHand(t) /\ t \notin activeTasks /\ \A m \in Node : ~ Visits(m, t) /\ t \notin inserting[m]
      BY <3>1 DEF OnceInv, OthersIdle
    <3>3. /\ after'[t] >= 0
          /\ \A x \in Task : x # t => state'[x] = state[x] /\ after'[x] = after[x]
          /\ \A m \in Node : /\ inserting'[m] \subseteq inserting[m] \cup {t}
                             /\ m # n => inserting'[m] = inserting[m]
      <4>1. CASE d > 0
        <5>1. after' = [after EXCEPT ![t] = d] /\ inserting' = inserting
          BY ONLY <2>1, <4>1 DEF Insert
        <5>q. QED BY <3>1, <4>1, <5>1 DEF TypeOK
      <4>2. CASE ~ (d > 0)
        <5>1. /\ after' = [after EXCEPT ![t] = Latency]
              /\ inserting' = [inserting EXCEPT ![n] = @ \cup {t}]
          BY ONLY <2>1, <4>2 DEF Insert
        <5>q. QED BY <3>1, <5>1 DEF TypeOK
      <4>q. QED BY <4>1, <4>2
    <3>4. \A m \in Node, x \in Task : /\ Claims(m, x)' <=> Claims(m, x)
                                      /\ Visits(m, x)' <=> Visits(m, x)
                                      /\ Reaches(m, x)' <=> Reaches(m, x)
      BY <3>1 DEF Claims, Visits, Reaches, Waits
    <3>5. \A m \in Node, k \in Thread, x \in Task : Runs(m, k, x)' <=> Runs(m, k, x)
      BY <3>1 DEF Runs
    <3>6. \A x \in Task : InHand(x)' <=> InHand(x)
      BY <3>4, <3>5 DEF InHand
    <3>7. OneHand'
      BY <3>1, <3>4, <3>5, <3>6 DEF OnceInv, OneHand
    <3>8. InTime'
      BY <3>1, <3>2, <3>3, <3>4, <3>6 DEF OnceInv, InTime
    <3>9. VisitsIdle'
      BY <3>1, <3>2, <3>3, <3>4, <3>6 DEF OnceInv, VisitsIdle
    <3>10. InsertsFresh'
      <4>1. \A m \in Node : \A x \in inserting'[m] :
                \/ x = t /\ m = n
                \/ x \in Task /\ x # t /\ x \in inserting[m] /\ (\A k \in Node : x \in inserting'[k] => x \in inserting[k])
        <5>1. \A m \in Node : inserting'[m] \subseteq Task
          BY DEF TypeOK
        <5>2. \A m \in Node, x \in Task : x # t /\ x \in inserting'[m] => x \in inserting[m]
          BY <3>3
        <5>3. \A m \in Node : t \in inserting'[m] => m = n
          BY <3>2, <3>3
        <5>q. QED BY ONLY <5>1, <5>2, <5>3
      <4>q. QED BY <3>1, <3>2, <3>3, <3>4, <3>6, <4>1 DEF OnceInv, InsertsFresh
    <3>11. OthersIdle'
      <4>1. state'[t] = "QUEUED"
        BY <3>1 DEF TypeOK
      <4>q. QED BY <3>1, <3>3, <3>4, <3>6, <4>1 DEF OnceInv, OthersIdle
    <3>q. QED BY <3>7, <3>8, <3>9, <3>10, <3>11 DEF OnceInv
  <2>2. CASE InsertPut(n, t)
    <3>1. /\ t \in inserting[n] /\ Put(t) /\ inserting' = [inserting EXCEPT ![n] = @ \ {t}]
          /\ UNCHANGED <<state, after, queue, held, pc, cursor, renewed, stage, job>>
      BY <2>2 DEF InsertPut
    <3>2. Shrinks
      BY <3>1 DEF Shrinks, Claims, Runs, Visits, TypeOK
    <3>3. /\ after[t] >= 0 /\ t \notin activeTasks /\ ~ InHand(t)
          /\ \A m \in Node : ~ Visits(m, t) /\ (m # n => t \notin inserting[m])
      BY <3>1 DEF OnceInv, InsertsFresh
    <3>4. ~ InHand(t)' /\ \A m \in Node : ~ Visits(m, t)' /\ t \notin inserting'[m]
      <4>1. \A m \in Node : t \notin inserting'[m]
        BY <3>1, <3>3 DEF TypeOK
      <4>q. QED BY <3>2, <3>3, <4>1, HandShrinks DEF Shrinks
    <3>5. state[t] \notin {"ABSENT", "SUCCEEDED"}
      BY <3>1 DEF OnceInv, OthersIdle
    <3>q. QED BY ONLY <1>a, OnceInv, <3>1, <3>2, <3>3, <3>4, <3>5, Offered
  <2>3. CASE Cancel(n, t)
    <3>1. Shrinks
      BY <2>3 DEF Shrinks, Claims, Runs, Visits, Cancel
    <3>2. \A m \in Node, x \in Task : Reaches(m, x)' => Reaches(m, x)
      BY <2>3 DEF Reaches, Waits, Cancel, Remove
    <3>q. QED BY <2>3, <3>1, <3>2, OnlyLess DEF Cancel, Remove
  <2>4. CASE CancelUpdate(n, t)
    <3>1. Shrinks
      BY <2>4 DEF Shrinks, Claims, Runs, Visits, CancelUpdate
    <3>2. \A m \in Node, x \in Task : Reaches(m, x)' => Reaches(m, x)
      BY <2>4 DEF Reaches, Waits, CancelUpdate
    <3>3. \A x \in Task : state'[x] \in {state[x], "CANCELED"}
      BY <2>4 DEF CancelUpdate, TypeOK
    <3>q. QED BY <2>4, <3>1, <3>2, <3>3, OnlyLess DEF CancelUpdate
  <2>5. CASE ClientFails(n, t)
    <3>1. Shrinks
      BY <2>5 DEF Shrinks, Claims, Runs, Visits, ClientFails, TypeOK
    <3>2. \A m \in Node, x \in Task : Reaches(m, x)' => Reaches(m, x)
      BY <2>5 DEF Reaches, Waits, ClientFails
    <3>q. QED BY <2>5, <3>1, <3>2, OnlyLess DEF ClientFails
  <2>q. QED BY ONLY <1>6, <2>1, <2>2, <2>3, <2>4, <2>5 DEF Client
<1>7. ASSUME NEW n \in Node, NEW t \in Task, EntryAdded(n, t) PROVE OnceInv'
  <2>1. Shrinks
    BY <1>7 DEF Shrinks, Claims, Runs, Visits, EntryAdded
  <2>2. \A m \in Node, x \in Task : Reaches(m, x)' => Reaches(m, x)
    <3>1. /\ added[n][t] > 0 /\ added' = [added EXCEPT ![n][t] = @ - 1] /\ held' = held
          /\ queue' = queue \/ queue' = [queue EXCEPT ![n] = Append(@, t)]
      BY <1>7 DEF EntryAdded
    <3>2. \A m \in Node, x \in Task : added'[m][x] > 0 => added[m][x] > 0
      BY <3>1 DEF TypeOK
    <3>3. \A m \in Node, x \in Task : Waits(m, x)' => Waits(m, x) \/ (m = n /\ x = t)
      <4> SUFFICES ASSUME NEW m \in Node, NEW x \in Task, NEW i \in DOMAIN queue'[m], queue'[m][i] = x
                   PROVE  Waits(m, x) \/ (m = n /\ x = t)
        BY <3>1 DEF Waits
      <4>1. CASE queue'[m] = queue[m] BY <4>1 DEF Waits
      <4>2. CASE m = n /\ queue'[n] = Append(queue[n], t)
        <5>1. queue[n] \in Seq(Task)
          BY DEF TypeOK
        <5>2. (i \in DOMAIN queue[n] /\ queue[n][i] = x) \/ x = t
          BY ONLY <4>2, <5>1, t \in Task, i \in DOMAIN queue'[m], queue'[m][i] = x
        <5>q. QED BY <4>2, <5>2 DEF Waits
      <4>q. QED BY <3>1, <4>1, <4>2, ZenonT(40) DEF TypeOK
    <3>q. QED BY <3>1, <3>2, <3>3 DEF Reaches
  <2>q. QED BY <1>7, <2>1, <2>2, OnlyLess DEF EntryAdded
<1>8. ASSUME NEW n \in Node, LifeCycle(n) PROVE OnceInv'
  <2>1. CASE Activate(n) BY <1>2, <2>1 DEF Activate, Places
  <2>2. CASE Deactivate(n)
    <3>1. Shrinks
      BY <2>2 DEF Shrinks, Claims, Runs, Visits, Deactivate
    <3>2. \A m \in Node, x \in Task : Reaches(m, x)' => Reaches(m, x)
      BY <2>2 DEF Reaches, Waits, Deactivate, TypeOK
    <3>q. QED BY <2>2, <3>1, <3>2, OnlyLess DEF Deactivate
  <2>3. CASE Crash(n)
    <3>1. Shrinks
      BY <2>3 DEF Shrinks, Claims, Runs, Visits, Crash, TypeOK
    <3>2. \A m \in Node, x \in Task : Reaches(m, x)' => Reaches(m, x)
      BY <2>3 DEF Reaches, Waits, Crash, TypeOK
    <3>q. QED BY <2>3, <3>1, <3>2, OnlyLess DEF Crash
  <2>4. ASSUME NEW ty \in Type, AddWorker(n, ty) \/ RemoveWorker(n, ty) PROVE OnceInv'
    BY <1>1, <2>4 DEF AddWorker, RemoveWorker
  <2>q. QED BY ONLY <1>8, <2>1, <2>2, <2>3, <2>4 DEF LifeCycle
<1>9. CASE Tick
  <2>1. /\ after' = [t \in Task |-> NearerOrPassed(after[t])]
        /\ UNCHANGED <<state, activeTasks, added, queue, held, pc, cursor, renewed, inserting, stage, job>>
        /\ \A n \in Node : Quiescent(n)
    BY <1>9 DEF Tick
  <2>2. \A n \in Node, t \in Task : ~ Visits(n, t) /\ ~ Claims(n, t) /\ inserting[n] = {} /\ added[n][t] = 0
    BY <1>c, <2>1 DEF Quiescent, Claims
  <2>3. \A n \in Node, t \in Task : /\ (Visits(n, t)' <=> Visits(n, t)) /\ (Claims(n, t)' <=> Claims(n, t))
                                    /\ (Reaches(n, t)' <=> Reaches(n, t))
                                    /\ \A th \in Thread : Runs(n, th, t)' <=> Runs(n, th, t)
    BY <2>1 DEF Visits, Claims, Reaches, Waits, Runs
  <2>4. \A t \in Task : InHand(t)' <=> InHand(t)
    BY <2>3 DEF InHand
  <2>5. \A t \in Task : after[t] > 0 => after'[t] >= 0
    BY <2>1 DEF NearerOrPassed, TypeOK
  <2>6. \A t \in Task : state[t] = "QUEUED" =>
            /\ InHand(t) => after[t] > 0
            /\ \A n \in Node : t \in activeTasks /\ Reaches(n, t) => after[t] > 0
    BY <2>1, <2>2 DEF Quiescent, InHand, Runs, Reaches
  <2>7. OneHand'
    BY <2>1, <2>3, <2>4 DEF OnceInv, OneHand
  <2>8. InTime'
    BY <2>1, <2>3, <2>4, <2>5, <2>6 DEF InTime
  <2>9. VisitsIdle' /\ InsertsFresh'
    <3>1. \A n \in Node : inserting'[n] = {}
      BY <2>1 DEF Quiescent
    <3>q. QED BY <2>2, <2>3, <3>1 DEF VisitsIdle, InsertsFresh
  <2>10. OthersIdle'
    BY <2>1, <2>3, <2>4 DEF OnceInv, OthersIdle
  <2>q. QED BY <2>7, <2>8, <2>9, <2>10 DEF OnceInv
<1>10. CASE UNCHANGED vars
  BY <1>1, <1>10 DEF vars
<1>q. QED BY ONLY <1>4, <1>5, <1>6, <1>7, <1>8, <1>9, <1>10, [Next]_vars DEF Next

\* One hand means one execution.
LEMMA OneExecution == TypeOK /\ OnceInv => ExecutedOnce
<1> SUFFICES ASSUME TypeOK, OnceInv, NEW t \in Task
             PROVE  /\ Cardinality(Executions(t)) <= 1
                    /\ state[t] = "SUCCEEDED" => Executions(t) = {}
  BY DEF ExecutedOnce
<1>1. \A e \in Executions(t) : /\ e \in Node \X Thread /\ e = <<e[1], e[2]>>
                               /\ e[1] \in Node /\ e[2] \in Thread /\ Runs(e[1], e[2], t)
  BY DEF Executions, Runs
<1>2. \A e, f \in Executions(t) : e = f
  BY <1>1 DEF OnceInv, OneHand
<1>3. CASE Executions(t) = {}
  BY <1>3, FS_EmptySet
<1>4. ASSUME NEW e \in Executions(t) PROVE Cardinality(Executions(t)) <= 1 /\ state[t] # "SUCCEEDED"
  <2>1. Executions(t) = {e}
    BY <1>2, <1>4
  <2>2. Cardinality(Executions(t)) = 1
    BY <2>1, FS_Singleton
  <2>3. InHand(t)
    BY <1>1, <1>4 DEF InHand
  <2>q. QED BY <2>2, <2>3 DEF OnceInv, OthersIdle
<1>q. QED BY <1>3, <1>4

\* "the task will be executed correctly only once on any of the clustered
\* system": while workers return and offers are claimed before the task is due
\* for another sweep, no two nodes execute it together and none does after it
\* succeeded, whoever crashes, throws, cancels, joins or leaves.
THEOREM TimelyTasksRunOnce == ASSUME Timely PROVE Spec => []ExecutedOnce
<1>1. TypeInv /\ SweepInv /\ OnceInv /\ [Next]_vars => OnceInv'
  BY OnceInvNext
<1>2. TypeInv => TypeOK
  BY DEF TypeInv
<1>q. QED BY <1>1, <1>2, TypeInvInit, TypeInvNext, SweepInvInit, SweepInvNext, OnceInvInit, OneExecution, PTL DEF Spec

------------------------------------------------------------------------------
(* TaskQueue implements TaskBoard.                                            *)

\* A thread without a Runnable has no task.
IdleJob == \A n \in Node, th \in Thread : stage[n][th] = "idle" => job[n][th] = NoTask

BoardInv == TypeInv /\ DueInv /\ IdleJob

LEMMA IdleJobNext == TypeInv /\ IdleJob /\ [Next]_vars => IdleJob'
<1> SUFFICES ASSUME TypeInv, IdleJob, [Next]_vars PROVE IdleJob'
  OBVIOUS
<1> USE DEF TypeInv, TypeOK, IdleJob
<1>1. ASSUME UNCHANGED runner PROVE IdleJob'
  BY <1>1 DEF runner
<1>2. ASSUME NEW n \in Node, MainThread(n) PROVE IdleJob'
  <2>1. ASSUME NEW th \in Thread, Execute(n, th) PROVE IdleJob'
    <3>1. /\ stage' = [stage EXCEPT ![n][th] = "submitted"]
          /\ job' = [job EXCEPT ![n][th] = held[n]]
      BY ONLY <2>1 DEF Execute
    <3>q. QED BY <3>1
  <2>2. ASSUME \A th \in Thread : ~Execute(n, th) PROVE UNCHANGED runner
    BY ONLY <1>2, <2>2 DEF MainThread, ReadDeadline, Interrupted, SweepWon, BeginPeriod, SweepLost,
       SweepQuery, Query, SweepPut, SweepEnd, SweepExpire, SweepRenew, Poll, Acquire, TakePermit,
       Claim, RemoveHeld, AlreadyGone, LoopFails, work, runner
  <2>q. QED BY <1>1, <2>1, <2>2
<1>3. ASSUME NEW n \in Node, NEW th \in Thread, Runnable(n, th) PROVE IdleJob'
  <2>1. CASE Release(n, th)
    <3>1. /\ stage' = [stage EXCEPT ![n][th] = "idle"]
          /\ job' = [job EXCEPT ![n][th] = NoTask]
      BY ONLY <2>1 DEF Release, Step
    <3>q. QED BY <3>1
  <2>2. CASE ~Release(n, th)
    <3>1. job' = job /\ \E s \in Stages \ {"idle"} : stage' = [stage EXCEPT ![n][th] = s]
      BY ONLY <1>3, <2>2 DEF Runnable, Start, NoWorker, Return, Throw, Record, Step, Stages
    <3>q. QED BY <3>1
  <2>q. QED BY <2>1, <2>2
<1>4. ASSUME NEW n \in Node, LifeCycle(n) PROVE IdleJob'
  <2>1. CASE Crash(n)
    <3>1. /\ stage' = [stage EXCEPT ![n] = [th \in Thread |-> "idle"]]
          /\ job' = [job EXCEPT ![n] = [th \in Thread |-> NoTask]]
      BY ONLY <2>1 DEF Crash
    <3>q. QED BY <3>1
  <2>2. CASE ~Crash(n)
    BY ONLY <1>1, <1>4, <2>2 DEF LifeCycle, Activate, Deactivate, AddWorker, RemoveWorker
  <2>q. QED BY <2>1, <2>2
<1>5. ASSUME NEW n \in Node, NEW t \in Task, Client(n, t) \/ EntryAdded(n, t) PROVE IdleJob'
  BY ONLY <1>1, <1>5 DEF Client, Insert, InsertPut, Cancel, CancelUpdate, ClientFails, EntryAdded
<1>6. CASE Tick BY ONLY <1>1, <1>6 DEF Tick, work
<1>7. CASE UNCHANGED vars BY ONLY <1>1, <1>7 DEF vars
<1>q. QED BY ONLY <1>2, <1>3, <1>4, <1>5, <1>6, <1>7, [Next]_vars DEF Next

LEMMA BoardInvInit == Init => BoardInv
<1>1. Init => IdleJob
  BY DEF Init, IdleJob
<1>q. QED BY <1>1, TypeInvInit, DueInvInit DEF BoardInv

LEMMA BoardInvNext == BoardInv /\ [Next]_vars => BoardInv'
BY TypeInvNext, DueInvNext, IdleJobNext DEF BoardInv

-----------------------------------------------------------------------------
(* The steps of the board.                                                 *)

\* A main thread that moves between places without a claim changes no claim.
LEMMA ClaimsStay ==
    ASSUME TypeOK, NEW n \in Node, NEW p \in Places \ {"claimed"}, pc[n] # "claimed",
           pc' = [pc EXCEPT ![n] = p],
           \A m \in Node \ {n} : held'[m] = held[m]
    PROVE  Claimed' = Claimed
BY DEF Claimed, TypeOK

\* Only a task with a record is put in the map.
LEMMA PutOffers ==
    ASSUME BoardInv, NEW t \in Task, Put(t), ~Untouched(t),
           UNCHANGED <<state, Claimed, job>>
    PROVE  Board!Next
<1>1. state[t] # "ABSENT"
  BY DEF BoardInv, DueInv
<1>2. activeTasks' = activeTasks \cup {t}
  BY DEF Put
<1>3. Board!Offer(t)
  BY <1>1, <1>2 DEF Board!Offer
<1>q. QED BY ONLY <1>3 DEF Board!Next

LEMMA RemoveWithdraws ==
    ASSUME NEW t \in Task, Remove(t), UNCHANGED <<state, Claimed, job>>
    PROVE  Board!Next
<1>1. Board!Withdraw(t)
  BY DEF Remove, Board!Withdraw
<1>q. QED BY ONLY <1>1 DEF Board!Next

LEMMA MainThreadImplements ==
    ASSUME BoardInv, NEW n \in Node, MainThread(n)
    PROVE  [Board!Next]_(Board!vars)
<1> USE DEF BoardInv, TypeInv
<1>1. ASSUME UNCHANGED <<state, activeTasks, Claimed, job>> PROVE [Board!Next]_(Board!vars)
  BY ONLY <1>1 DEF Board!vars
<1>2. ASSUME NEW p \in Places \ {"claimed"}, pc[n] # "claimed", pc' = [pc EXCEPT ![n] = p],
             \A m \in Node \ {n} : held'[m] = held[m], UNCHANGED <<state, activeTasks, job>>
      PROVE  [Board!Next]_(Board!vars)
  BY <1>1, <1>2, ClaimsStay
<1>3. CASE ReadDeadline(n)
  BY <1>2, <1>3 DEF ReadDeadline, Goto, Places, database, shared, work, runner
<1>4. CASE Interrupted(n)
  <2>1. \A m \in Node \ {n} : held'[m] = held[m]
    BY <1>4 DEF Interrupted, TypeOK
  <2>q. QED BY <1>2, <1>4, <2>1 DEF Interrupted, Places, database, shared, runner
<1>5. CASE SweepWon(n)
  BY <1>2, <1>5 DEF SweepWon, BeginPeriod, Goto, Places, database, shared, work, runner
<1>6. CASE SweepLost(n)
  BY <1>2, <1>6 DEF SweepLost, Goto, Places, database, shared, work, runner
<1>7. CASE SweepQuery(n)
  BY <1>2, <1>7 DEF SweepQuery, Query, Goto, Places, database, shared, work, runner
<1>8. CASE SweepPut(n)
  <2>1. renewed[n] \in Task /\ Put(renewed[n]) /\ ~Untouched(renewed[n])
    BY <1>8 DEF SweepPut, TypeOK, Untouched
  <2>2. UNCHANGED <<state, Claimed, job>>
    BY <1>8 DEF SweepPut, Claimed, database, work, runner
  <2>q. QED BY <2>1, <2>2, PutOffers
<1>9. CASE SweepEnd(n)
  BY <1>2, <1>9 DEF SweepEnd, Goto, Places, database, shared, work, runner
<1>10. ASSUME NEW t \in Task, SweepExpire(n, t) PROVE [Board!Next]_(Board!vars)
  <2>1. Remove(t) /\ UNCHANGED <<state, Claimed, job>>
    BY <1>10 DEF SweepExpire, Claimed, database, work, runner
  <2>q. QED BY <2>1, RemoveWithdraws
<1>11. ASSUME NEW t \in Task, SweepRenew(n, t) PROVE [Board!Next]_(Board!vars)
  BY ONLY <1>1, <1>11 DEF SweepRenew, Claimed, shared, work, runner
<1>12. CASE Poll(n)
  <2>1. \A m \in Node \ {n} : held'[m] = held[m]
    BY <1>12 DEF Poll, TypeOK
  <2>q. QED BY <1>2, <1>12, <2>1 DEF Poll, Goto, Places, database, shared, runner
<1>13. CASE Acquire(n)
  BY <1>2, <1>13 DEF Acquire, TakePermit, Goto, Places, database, shared, runner
<1>14. CASE Claim(n)
  <2>1. held[n] \in Task /\ held[n] \in activeTasks
    BY <1>14 DEF Claim, RemoveHeld, HeldTask
  <2>2. Claimed[n] = NoTask /\ Claimed' = [Claimed EXCEPT ![n] = held[n]]
    BY <1>14 DEF Claim, RemoveHeld, Goto, Claimed, TypeOK, work
  <2>3. activeTasks' = activeTasks \ {held[n]} /\ UNCHANGED <<state, job>>
    BY ONLY <1>14 DEF Claim, RemoveHeld, Remove, database, work, runner
  <2>4. Board!Take(n, held[n])
    BY ONLY <2>1, <2>2, <2>3 DEF Board!Take
  <2>q. QED BY ONLY <2>1, <2>4 DEF Board!Next
<1>15. CASE AlreadyGone(n)
  <2>1. \A m \in Node \ {n} : held'[m] = held[m]
    BY <1>15 DEF AlreadyGone, Continue, TypeOK
  <2>q. QED
    BY <1>2, <1>15, <2>1 DEF AlreadyGone, Continue, Goto, Places, database, shared, runner
<1>16. CASE LoopFails(n)
  <2>1. Claimed' = [Claimed EXCEPT ![n] = NoTask]
    BY <1>16 DEF LoopFails, Continue, Goto, Claimed, TypeOK
  <2>2. UNCHANGED <<state, activeTasks, job>>
    BY ONLY <1>16 DEF LoopFails, Continue, database, shared, runner
  <2>3. Board!Abandon(n)
    BY ONLY <2>1, <2>2 DEF Board!Abandon
  <2>q. QED BY ONLY <2>3 DEF Board!Next
<1>17. ASSUME NEW th \in Thread, Execute(n, th) PROVE [Board!Next]_(Board!vars)
  <2>1. Claimed[n] = held[n] /\ held[n] \in Task
    BY <1>17 DEF Execute, Claimed, HeldTask
  <2>2. Claimed[n] # NoTask /\ job[n][th] = NoTask
    BY <1>17, <2>1, TaskQueueAssumption DEF Execute, IdleJob
  <2>3. Claimed' = [Claimed EXCEPT ![n] = NoTask]
    BY <1>17 DEF Execute, Continue, Goto, Claimed, TypeOK
  <2>4. job' = [job EXCEPT ![n][th] = held[n]] /\ UNCHANGED <<state, activeTasks>>
    BY ONLY <1>17 DEF Execute, Continue, database, shared
  <2>5. Board!Run(n, th)
    BY ONLY <2>1, <2>2, <2>3, <2>4 DEF Board!Run
  <2>q. QED BY ONLY <2>5 DEF Board!Next
<1>q. QED
  BY ONLY MainThread(n), <1>3, <1>4, <1>5, <1>6, <1>7, <1>8, <1>9, <1>10, <1>11, <1>12, <1>13,
     <1>14, <1>15, <1>16, <1>17 DEF MainThread

LEMMA RunnableImplements ==
    ASSUME BoardInv, NEW n \in Node, NEW th \in Thread, Runnable(n, th)
    PROVE  [Board!Next]_(Board!vars)
<1> USE DEF BoardInv, TypeInv
<1>0. Claimed' = Claimed
  BY ONLY Runnable(n, th) DEF Runnable, Start, NoWorker, Return, Throw, Record, Release, loop, Claimed
<1>1. CASE Start(n, th) \/ Return(n, th) \/ Throw(n, th)
  BY ONLY <1>0, <1>1 DEF Start, Return, Throw, database, shared, Board!vars
<1>2. CASE NoWorker(n, th)
  <2>1. job[n][th] \in Task /\ Put(job[n][th]) /\ ~Untouched(job[n][th])
    BY <1>2 DEF NoWorker, JobTask, Untouched
  <2>2. UNCHANGED <<state, job>>
    BY ONLY <1>2 DEF NoWorker, database
  <2>q. QED BY <1>0, <2>1, <2>2, PutOffers
<1>3. CASE Record(n, th)
  <2>1. job[n][th] \in Task /\ job[n][th] # NoTask
    BY <1>3, TaskQueueAssumption DEF Record, JobTask
  <2>2. /\ state' = state \/ state' = [state EXCEPT ![job[n][th]] = "SUCCEEDED"]
        /\ UNCHANGED <<activeTasks, job>>
    BY ONLY <1>3 DEF Record, shared
  <2>3. CASE state' = state BY ONLY <1>0, <2>2, <2>3 DEF Board!vars
  <2>4. CASE state' = [state EXCEPT ![job[n][th]] = "SUCCEEDED"]
    <3>1. Board!Succeed(n, th)
      BY ONLY <1>0, <2>1, <2>2, <2>4 DEF Board!Succeed
    <3>q. QED BY ONLY <3>1 DEF Board!Next
  <2>q. QED BY <2>2, <2>3, <2>4
<1>4. CASE Release(n, th)
  <2>1. Board!Finish(n, th)
    BY ONLY <1>0, <1>4 DEF Release, database, shared, Board!Finish
  <2>q. QED BY ONLY <2>1 DEF Board!Next
<1>q. QED BY ONLY Runnable(n, th), <1>1, <1>2, <1>3, <1>4 DEF Runnable

LEMMA ClientImplements ==
    ASSUME BoardInv, NEW n \in Node, NEW t \in Task, Client(n, t)
    PROVE  [Board!Next]_(Board!vars)
<1>0. UNCHANGED <<Claimed, job>>
  BY ONLY Client(n, t) DEF Client, Insert, InsertPut, Cancel, CancelUpdate, ClientFails, loop, runner,
     Claimed
<1>1. ASSUME NEW d \in Delays, NEW e \in Expiries, Insert(n, t, d, e) PROVE Board!Next
  <2>1. Board!Store(t)
    BY ONLY <1>0, <1>1 DEF Insert, shared, Board!Store
  <2>q. QED BY ONLY <2>1 DEF Board!Next
<1>2. CASE InsertPut(n, t)
  <2>1. Put(t) /\ ~Untouched(t) /\ state' = state
    BY <1>2 DEF InsertPut, Untouched, database
  <2>q. QED BY <1>0, <2>1, PutOffers
<1>3. CASE Cancel(n, t)
  <2>1. state' = state /\ (activeTasks' = activeTasks \/ Remove(t))
    BY ONLY <1>3 DEF Cancel, database, shared
  <2>2. CASE activeTasks' = activeTasks BY ONLY <1>0, <2>1, <2>2 DEF Board!vars
  <2>3. CASE Remove(t) BY <1>0, <2>1, <2>3, RemoveWithdraws
  <2>q. QED BY <2>1, <2>2, <2>3
<1>4. CASE CancelUpdate(n, t)
  <2>1. /\ activeTasks' = activeTasks
        /\ \/ state' = state
           \/ state[t] = "QUEUED" /\ state' = [state EXCEPT ![t] = "CANCELED"]
    BY ONLY <1>4 DEF CancelUpdate, shared
  <2>2. CASE state' = state BY ONLY <1>0, <2>1, <2>2 DEF Board!vars
  <2>3. CASE state[t] = "QUEUED" /\ state' = [state EXCEPT ![t] = "CANCELED"]
    <3>1. Board!Cancel(t)
      BY ONLY <1>0, <2>1, <2>3 DEF Board!Cancel
    <3>q. QED BY ONLY <3>1 DEF Board!Next
  <2>q. QED BY <2>1, <2>2, <2>3
<1>5. CASE ClientFails(n, t)
  BY ONLY <1>0, <1>5 DEF ClientFails, database, shared, Board!vars
<1>q. QED BY ONLY Client(n, t), <1>1, <1>2, <1>3, <1>4, <1>5 DEF Client

LEMMA LifeCycleImplements ==
    ASSUME BoardInv, NEW n \in Node, LifeCycle(n)
    PROVE  [Board!Next]_(Board!vars)
<1>1. CASE Activate(n)
  <2>1. UNCHANGED <<state, activeTasks, held, job>>
    BY ONLY <1>1 DEF Activate, database, shared, runner
  <2>2. CASE pc[n] # "claimed"
    <3>1. Claimed' = Claimed
      BY <1>1, <2>1, <2>2 DEF BoardInv, TypeInv, TypeOK, Activate, Claimed
    <3>q. QED BY ONLY <2>1, <3>1 DEF Board!vars
  <2>3. CASE pc[n] = "claimed"
    <3>1. Claimed' = [Claimed EXCEPT ![n] = NoTask]
      BY <1>1, <2>1 DEF BoardInv, TypeInv, TypeOK, Activate, Claimed
    <3>2. Board!Abandon(n)
      BY ONLY <2>1, <3>1 DEF Board!Abandon
    <3>q. QED BY ONLY <3>2 DEF Board!Next
  <2>q. QED BY <2>2, <2>3
<1>2. CASE Deactivate(n) \/ \E ty \in Type : AddWorker(n, ty) \/ RemoveWorker(n, ty)
  BY ONLY <1>2 DEF Deactivate, AddWorker, RemoveWorker, database, shared, loop, runner, Claimed,
     Board!vars
<1>3. CASE Crash(n)
  <2>1. Claimed' = [Claimed EXCEPT ![n] = NoTask]
    BY <1>3 DEF BoardInv, TypeInv, TypeOK, Crash, Claimed
  <2>2. /\ activeTasks' \in {activeTasks, {}} /\ state' = state
        /\ job' = [job EXCEPT ![n] = [th \in Thread |-> NoTask]]
    BY ONLY <1>3 DEF Crash, database
  <2>3. Board!Crash(n)
    BY ONLY <2>1, <2>2 DEF Board!Crash
  <2>q. QED BY ONLY <2>3 DEF Board!Next
<1>q. QED BY ONLY LifeCycle(n), <1>1, <1>2, <1>3 DEF LifeCycle

LEMMA NextImplements == BoardInv /\ [Next]_vars => [Board!Next]_(Board!vars)
<1> SUFFICES ASSUME BoardInv, [Next]_vars PROVE [Board!Next]_(Board!vars)
  OBVIOUS
<1>1. ASSUME NEW n \in Node, NEW t \in Task, EntryAdded(n, t) PROVE UNCHANGED Board!vars
  BY ONLY <1>1 DEF EntryAdded, database, runner, Claimed, Board!vars
<1>2. ASSUME Tick PROVE UNCHANGED Board!vars
  BY ONLY <1>2 DEF Tick, work, runner, Claimed, Board!vars
<1>3. ASSUME UNCHANGED vars PROVE UNCHANGED Board!vars
  BY ONLY <1>3 DEF vars, database, shared, loop, runner, Claimed, Board!vars
<1>q. QED
  BY <1>1, <1>2, <1>3, MainThreadImplements, RunnableImplements, ClientImplements,
     LifeCycleImplements DEF Next

\* Every behaviour of the task queue is one of the board: an execution uses up
\* an offer of its own, an offer is of a stored task, and only clients and
\* executors with a task write the state of a record.
THEOREM QueueImplementsBoard == Spec => ImplementsTaskBoard
<1>1. Init => Board!Init
  BY DEF Init, Board!Init, Claimed
<1>q. QED
  BY <1>1, BoardInvInit, BoardInvNext, NextImplements, PTL
  DEF Spec, ImplementsTaskBoard, Board!Spec
=============================================================================
