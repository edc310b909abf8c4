----------------------------- MODULE RootScope -----------------------------
(* The scopes of the web client ($RootScopeProvider in angular-1.0.0.js): a   *)
(* tree linked by sibling pointers, watchers with the last value they saw,    *)
(* asynchronous tasks, and $digest, which runs tasks and watchers until a     *)
(* pass over the tree finds nothing changed.  Listeners and tasks are         *)
(* application code and may do anything to the tree while it is traversed:    *)
(* a digest is a machine of small steps, one task or one watcher each.        *)
EXTENDS Naturals, Sequences, SequencesExt

CONSTANTS
    Scope,       \* identities of scopes
    Root,        \* $rootScope
    Null,        \* the null pointer, and initWatchVal
    Var, Value,  \* the watched model: variables and their values
    AsyncScope,  \* the scopes $evalAsync is called on ($q calls it on $rootScope)
    TTL,         \* digestTtl
    Budget       \* bound: the number of operations the application performs

VARIABLES
    world,    \* the scopes with their watchers and tasks, and the model
    phase,    \* $rootScope.$$phase is set
    digests,  \* the digests that are running, the innermost first
    settled   \* the target of the digest that has just ended, or Null

scopeVars == <<world, phase, digests, settled>>

Alone(p) == [parent |-> p, head |-> Null, tail |-> Null, next |-> Null, prev |-> Null]

Init ==
    /\ world \in [node : {[s \in Scope |-> Alone(Null)]},
                  live : {{Root}},              \* created and not destroyed
                  unborn : {Scope \ {Root}},
                  watchers : {[s \in Scope |-> <<>>]},
                  queue : {[s \in Scope |-> 0]},  \* $$asyncQueue: its length
                  model : [Var -> Value],
                  budget : {Budget}]
    /\ phase = FALSE /\ digests = <<>> /\ settled = Null

------------------------------------------------------------------------------
(* What application code may do, inside a digest or outside: the worlds that  *)
(* one operation leads to.                                                    *)

\* An assignment to a field of a scope that may be null.
Put(n, s, field, x) == IF s = Null THEN n ELSE [n EXCEPT ![s][field] = x]

New(w, s, c) ==
    LET last == w.node[s].tail
        born == [w.node EXCEPT ![c] = [Alone(s) EXCEPT !.prev = last]]
        linked == IF w.node[s].head # Null THEN Put(born, last, "next", c)
                                           ELSE Put(born, s, "head", c)
    IN [w EXCEPT !.node = Put(linked, s, "tail", c), !.live = @ \cup {c}, !.unborn = @ \ {c}]

\* Mutant: the next sibling goes on pointing back at the destroyed scope.
DestroyForward(w, s) ==
    LET me == w.node[s]
        h == IF w.node[me.parent].head = s THEN Put(w.node, me.parent, "head", me.next) ELSE w.node
        t == IF h[me.parent].tail = s THEN Put(h, me.parent, "tail", me.prev) ELSE h
    IN [w EXCEPT !.node = Put(t, me.prev, "next", me.next), !.live = @ \ {s}]

\* The destroyed scope keeps its own pointers: a traversal that stands on it goes on.
Destroy(w, s) ==
    LET me == w.node[s]
        h == IF w.node[me.parent].head = s THEN Put(w.node, me.parent, "head", me.next) ELSE w.node
        t == IF h[me.parent].tail = s THEN Put(h, me.parent, "tail", me.prev) ELSE h
    IN [w EXCEPT !.node = Put(Put(t, me.prev, "next", me.next), me.next, "prev", me.prev),
                 !.live = @ \ {s}]

Watch(w, s, v) == [w EXCEPT !.watchers[s] = <<[var |-> v, last |-> Null]>> \o @]
Unwatch(w, s, i) == [w EXCEPT !.watchers[s] = RemoveAt(@, i)]
EvalAsync(w, s) == [w EXCEPT !.queue[s] = @ + 1]
Assign(w, v, x) == [w EXCEPT !.model[v] = x]

Spent(W) == {[w EXCEPT !.budget = @ - 1] : w \in W}

Assignments(w) == {Assign(w, v, x) : v \in Var, x \in Value}
Queuings(w) == {EvalAsync(w, s) : s \in AsyncScope \cap w.live}
Changes(w) ==
    Assignments(w) \cup Queuings(w)
      \cup {New(w, s, c) : s \in w.live, c \in w.unborn}
      \cup {Destroy(w, s) : s \in w.live \ {Root}}
      \cup {Watch(w, s, v) : s \in w.live, v \in Var}
      \cup UNION {{Unwatch(w, s, i) : i \in DOMAIN w.watchers[s]} : s \in w.live}

\* Running out of budget, doing nothing and throwing an exception (which goes to
\* $exceptionHandler) leave the world as it is.
Effects(w) == {w} \cup (IF w.budget = 0 THEN {} ELSE Spent(Changes(w)))

Application ==
    /\ digests = <<>> /\ world.budget > 0 /\ settled' = Null
    /\ world' \in Spent(Changes(world))
    /\ UNCHANGED <<phase, digests>>

------------------------------------------------------------------------------
(* $digest.                                                                   *)

Frame(s) == [target |-> s, current |-> s, length |-> Null, dirty |-> FALSE, ttl |-> TTL]
Top == digests[1]
Current == Top.current

\* A digest that a listener starts throws in beginPhase: an exception like others.
Digest(s) ==
    /\ digests = <<>> /\ s \in world.live
    /\ phase' = TRUE /\ digests' = <<Frame(s)>> /\ settled' = Null
    /\ UNCHANGED world

\* Mutant: the task is run and stays in the queue.
RunTaskAgain ==
    /\ digests # <<>> /\ Top.length = Null /\ world.queue[Current] > 0
    /\ world' \in Effects(world)
    /\ settled' = Null
    /\ UNCHANGED <<phase, digests>>

RunTask ==
    /\ digests # <<>> /\ Top.length = Null /\ world.queue[Current] > 0
    /\ world' \in Effects([world EXCEPT !.queue[Current] = @ - 1])
    /\ settled' = Null
    /\ UNCHANGED <<phase, digests>>

BeginWatchers ==
    /\ digests # <<>> /\ Top.length = Null /\ world.queue[Current] = 0
    /\ digests' = [digests EXCEPT ![1].length = Len(world.watchers[Current])]
    /\ settled' = Null
    /\ UNCHANGED <<world, phase>>

Changed(s, i) == LET w == world.watchers[s][i] IN world.model[w.var] # w.last

\* A listener removed or added watchers: there may be none left at this index,
\* which throws, and is skipped like one whose value is unchanged.
SkipWatcher ==
    /\ digests # <<>> /\ Top.length \notin {Null, 0}
    /\ Top.length \in DOMAIN world.watchers[Current] => ~Changed(Current, Top.length)
    /\ digests' = [digests EXCEPT ![1].length = @ - 1]
    /\ settled' = Null
    /\ UNCHANGED <<world, phase>>

\* The watcher at the index, having seen its value.
Seen(i) == [world EXCEPT !.watchers[Current][i].last =
                             world.model[world.watchers[Current][i].var]]

Fired == [digests EXCEPT ![1].length = @ - 1, ![1].dirty = TRUE]

FireWatcher ==
    /\ digests # <<>> /\ Top.length \notin {Null, 0}
    /\ Top.length \in DOMAIN world.watchers[Current] /\ Changed(Current, Top.length)
    /\ digests' = Fired /\ world' \in Effects(Seen(Top.length))
    /\ settled' = Null
    /\ UNCHANGED phase

\* The listener calls $apply: beginPhase throws, the finally clause clears the
\* phase of the digest that is running, and a digest of the root runs within it.
FireApply ==
    /\ Len(digests) = 1 /\ Top.length \notin {Null, 0} /\ world.budget > 0
    /\ Top.length \in DOMAIN world.watchers[Current] /\ Changed(Current, Top.length)
    /\ digests' = <<Frame(Root)>> \o Fired
    /\ \E w \in Spent({Seen(Top.length)}) : world' = w
    /\ phase' = TRUE /\ settled' = Null

\* Depth first: the first child, else the next sibling of the nearest ancestor
\* that has one, up to the target; Null after the last scope.
RECURSIVE After(_, _)
After(s, target) ==
    IF s = target THEN Null
    ELSE IF world.node[s].next # Null THEN world.node[s].next
    ELSE After(world.node[s].parent, target)

Following ==
    IF world.node[Current].head # Null THEN world.node[Current].head
    ELSE After(Current, Top.target)

NextScope ==
    /\ digests # <<>> /\ Top.length = 0 /\ Following # Null
    /\ digests' = [digests EXCEPT ![1].current = Following, ![1].length = Null]
    /\ settled' = Null
    /\ UNCHANGED <<world, phase>>

EndOfPass == digests # <<>> /\ Top.length = 0 /\ Following = Null

NextPass ==
    /\ EndOfPass
    /\ IF Top.dirty THEN Top.ttl > 0 ELSE world.queue[Current] > 0
    /\ digests' = [digests EXCEPT
           ![1] = [Frame(Top.target) EXCEPT !.ttl = Top.ttl - (IF Top.dirty THEN 1 ELSE 0)]]
    /\ settled' = Null
    /\ UNCHANGED <<world, phase>>

\* '10 $digest() iterations reached. Aborting!'
Abort ==
    /\ EndOfPass /\ Top.dirty /\ Top.ttl = 0
    /\ digests' = Tail(digests) /\ phase' = FALSE /\ settled' = Null
    /\ UNCHANGED world

EndDigest ==
    /\ EndOfPass /\ ~Top.dirty /\ world.queue[Current] = 0
    /\ digests' = Tail(digests) /\ phase' = FALSE /\ settled' = Top.target
    /\ UNCHANGED world

DigestStep ==
    \/ RunTask \/ BeginWatchers \/ SkipWatcher \/ FireWatcher \/ FireApply
    \/ NextScope \/ NextPass \/ Abort \/ EndDigest

Next == Application \/ (\E s \in Scope : Digest(s)) \/ DigestStep

Spec == Init /\ [][Next]_scopeVars

------------------------------------------------------------------------------
(* Properties.                                                                *)

\* The scopes a traversal from s reaches through head and next.
RECURSIVE Below(_)
Below(s) ==
    LET Siblings[c \in Scope \cup {Null}] ==
            IF c = Null THEN <<>> ELSE <<c>> \o Siblings[world.node[c].next]
    IN FoldLeft(LAMBDA acc, c : acc \o Below(c), <<s>>, Siblings[world.node[s].head])

RECURSIVE Attached(_)
Attached(s) == s \in world.live /\ (s = Root \/ Attached(world.node[s].parent))

\* $new and $destroy keep the sibling pointers a tree: every scope that is alive
\* with all its ancestors is reached exactly once, in both directions, and no
\* other is, even when listeners create and destroy scopes during a traversal.
TreeLinked ==
    /\ Below(Root) \in {t \in [1..Len(Below(Root)) -> Scope] :
                           \A i, j \in DOMAIN t : t[i] = t[j] => i = j}
    /\ ToSet(Below(Root)) = {s \in Scope : Attached(s)}
    /\ \A s \in world.live \ {Root} :
           LET n == world.node[s]
               p == world.node[n.parent]
           IN Attached(s) =>
                /\ IF n.prev = Null THEN p.head = s ELSE n.prev \in world.live /\ world.node[n.prev].next = s
                /\ IF n.next = Null THEN p.tail = s ELSE n.next \in world.live /\ world.node[n.next].prev = s

\* "at least one $digest cycle will be performed after expression execution":
\* when a digest ends without an error, no watcher under its target has missed
\* a change and, if the target is the root, no task is left over.
Settled ==
    settled # Null =>
        /\ \A s \in ToSet(Below(settled)) :
               \A i \in DOMAIN world.watchers[s] : ~Changed(s, i)
        /\ settled = Root => world.queue[Root] = 0

Digesting == digests # <<>>
=============================================================================
