------------------------------ MODULE TaskBoard ------------------------------
(***************************************************************************)
(* What the task queue promises of a claim, without queues, events, sweeps *)
(* or time: tasks are on a board, a node takes one off it and runs it.     *)
(* Every execution has used up an offer of its own, every offer is of a    *)
(* task that was stored, and no record is written but by its client or by  *)
(* an executor that has the task.                                          *)
(***************************************************************************)
CONSTANTS Task, NoTask, Node, Thread

VARIABLES
    record,   \* the state of each task's record
    board,    \* the tasks on offer
    claimed,  \* claimed[n]: the task n took and has not given to a thread yet
    running   \* running[n][th]: the task given to th

vars == <<record, board, claimed, running>>

Init ==
    /\ record = [t \in Task |-> "ABSENT"]
    /\ board = {}
    /\ claimed = [n \in Node |-> NoTask]
    /\ running = [n \in Node |-> [th \in Thread |-> NoTask]]

Store(t) ==
    /\ record[t] = "ABSENT"
    /\ record' = [record EXCEPT ![t] = "QUEUED"]
    /\ UNCHANGED <<board, claimed, running>>

Offer(t) ==
    /\ record[t] # "ABSENT"
    /\ board' = board \cup {t}
    /\ UNCHANGED <<record, claimed, running>>

Withdraw(t) ==
    /\ board' = board \ {t}
    /\ UNCHANGED <<record, claimed, running>>

Cancel(t) ==
    /\ record[t] = "QUEUED"
    /\ record' = [record EXCEPT ![t] = "CANCELED"]
    /\ UNCHANGED <<board, claimed, running>>

Take(n, t) ==
    /\ claimed[n] = NoTask
    /\ t \in board
    /\ board' = board \ {t}
    /\ claimed' = [claimed EXCEPT ![n] = t]
    /\ UNCHANGED <<record, running>>

Run(n, th) ==
    /\ claimed[n] # NoTask
    /\ running[n][th] = NoTask
    /\ running' = [running EXCEPT ![n][th] = claimed[n]]
    /\ claimed' = [claimed EXCEPT ![n] = NoTask]
    /\ UNCHANGED <<record, board>>

\* The call that should have passed the task on throws.
Abandon(n) ==
    /\ claimed' = [claimed EXCEPT ![n] = NoTask]
    /\ UNCHANGED <<record, board, running>>

Succeed(n, th) ==
    /\ running[n][th] # NoTask
    /\ record' = [record EXCEPT ![running[n][th]] = "SUCCEEDED"]
    /\ UNCHANGED <<board, claimed, running>>

Finish(n, th) ==
    /\ running' = [running EXCEPT ![n][th] = NoTask]
    /\ UNCHANGED <<record, board, claimed>>

\* A node takes its tasks with it, and the last one the board.
Crash(n) ==
    /\ claimed' = [claimed EXCEPT ![n] = NoTask]
    /\ running' = [running EXCEPT ![n] = [th \in Thread |-> NoTask]]
    /\ board' \in {board, {}}
    /\ UNCHANGED record

Next ==
    \/ \E t \in Task : Store(t) \/ Offer(t) \/ Withdraw(t) \/ Cancel(t)
    \/ \E n \in Node :
        \/ \E t \in Task : Take(n, t)
        \/ \E th \in Thread : Run(n, th) \/ Succeed(n, th) \/ Finish(n, th)
        \/ Abandon(n) \/ Crash(n)

Spec == Init /\ [][Next]_vars
=============================================================================
