---------------------------- MODULE PromiseQueue ----------------------------
(* The promises of the web client (qFactory in angular-1.0.0.js) as functions *)
(* on a record q of                                                           *)
(*   value    what each deferred was resolved with, Null while it is pending, *)
(*   pending  its callbacks while it is pending,                              *)
(*   ticks    the functions given to nextTick, which the next digest runs.    *)
(* A thenable is a value, a rejection or the promise of another deferred. A   *)
(* callback says what it was added to (on).                                   *)
EXTENDS Naturals, Sequences, SequencesExt

CONSTANTS Deferred, Null

ValueOf(x) == [is |-> "value", of |-> x]
Reject(x) == [is |-> "rejection", of |-> x]
PromiseOf(d) == [is |-> "promise", of |-> d]

Unresolved(D) == [value |-> [d \in D |-> Null], pending |-> [d \in D |-> <<>>], ticks |-> <<>>]

\* Where the promises lead that deferreds were resolved with.
Ends(value) ==
    LET End[d \in Deferred] ==
            LET x == value[d]
            IN IF x # Null /\ x.is = "promise" /\ value[x.of] # Null THEN End[x.of] ELSE x
    IN End

\* What th has come to: a value, a rejection, or the promise that it waits for.
Final(q, th) == IF th.is = "promise" /\ q.value[th.of] # Null THEN Ends(q.value)[th.of] ELSE th

Call(callback, th) == [is |-> "call", callback |-> callback, with |-> th]
Calls(callbacks, th) == [i \in DOMAIN callbacks |-> Call(callbacks[i], th)]

\* then, for one callback after the other: none is called at once, they wait for the
\* promise or are left to ticks.
Hand(q, th, callbacks) ==
    LET end == Final(q, th)
    IN IF end.is = "promise"
       THEN [q EXCEPT !.pending[end.of] = q.pending[end.of] \o callbacks]
       ELSE [q EXCEPT !.ticks = q.ticks \o Calls(callbacks, end)]

Then(q, th, callback) == Hand(q, th, <<callback>>)

\* deferred.resolve, and deferred.reject(r) as the resolve with a rejection.
Resolve(q, d, th) ==
    LET callbacks == q.pending[d]
        flush == [is |-> "flush", callbacks |-> callbacks, with |-> th]
    IN IF q.value[d] # Null THEN q
       ELSE [q EXCEPT !.value[d] = th, !.pending[d] = <<>>,
                      !.ticks = IF callbacks = <<>> THEN q.ticks ELSE Append(q.ticks, flush)]

\* Mutant: the callbacks get what resolve was given, though it may be a promise.
FlushAsGiven(q, tick) == [q EXCEPT !.ticks = q.ticks \o Calls(tick.callbacks, tick.with)]

\* A tick that hands the callbacks of a resolved deferred to what it came to.
Flush(q, tick) == Hand(q, tick.with, tick.callbacks)

Popped(q) == [q EXCEPT !.ticks = Tail(q.ticks)]
=============================================================================
