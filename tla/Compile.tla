------------------------------- MODULE Compile -------------------------------
(* $compile in angular-1.0.0.js for one element: which of its directives are  *)
(* applied, to the element or to the template transcluded from it, and how    *)
(* their functions run when copies of the element are linked to scopes, also  *)
(* while the template of a directive is still on its way.                     *)
EXTENDS Integers, FiniteSets, SequencesExt

CONSTANTS
    Directive, Null,
    Info,        \* directive -> [priority, terminal, replace, controller, scope, transclude,
                 \* template]; scope is "none", "new" or "isolate", transclude "none",
                 \* "content" or "element", template "none", "inline" or "url"
    OnElement,   \* what the directives of the element may be, and those of the root of
    OnTemplate,  \* a template that replaces it: sets of sets
    Copies       \* the scopes that copies of the element are linked to

VARIABLES
    page, inside, \* the directives of the element and of the root of the template
    state,        \* "new", "pending", "compiled" or "failed"
    before,       \* what applyDirectivesToNode did
    after,        \* and what it did when the template was there
    linkQueue,    \* copies that are linked before
    log           \* the link functions and controllers that ran: [copy, what, of]

compileVars == <<page, inside, state, before, after, linkQueue, log>>
given == <<page, inside>>

Init ==
    /\ page \in OnElement /\ inside \in OnTemplate /\ page \cap inside = {} /\ state = "new" /\ before = Null
    /\ after = Null /\ linkQueue = <<>> /\ log = <<>>

------------------------------------------------------------------------------
(* Compiling.                                                                 *)

\* collectDirectives: sorted by priority, in any order where that is the same.
ByPriority(S) ==
    {s \in SetToSeqs(S) : \A i, j \in DOMAIN s : i < j => Info[s[i]].priority >= Info[s[j]].priority}

Lowest == -100

\* assertNoDuplicate: two directives that ask for what only one can have.
Duplicate(acc, d) ==
    \/ Info[d].scope # "none" /\ \E e \in ToSet(acc.applied) : Info[e].scope = "isolate"
    \/ \E e \in ToSet(acc.applied) \ {acc.derived} :
          \/ Info[d].transclude # "none" /\ Info[e].transclude # "none"
          \/ Info[d].template # "none" /\ Info[e].template # "none"

\* applyDirectivesToNode on the sorted list, with the directives of the root of an
\* inline template that replaces the element sorted in: what was applied, what it
\* leaves to the template transcluded, and what waits for the template on its way.
\* derived: the directive that had the template, without what was done already.
RECURSIVE Apply(_, _)
Apply(list, acc) ==
    IF list = <<>> \/ acc.terminalPriority > Info[Head(list)].priority
    THEN {acc}
    ELSE LET d == Head(list)
             info == IF d = acc.derived
                     THEN [Info[d] EXCEPT !.controller = FALSE, !.transclude = "none",
                                          !.template = "none"]
                     ELSE Info[d]
             closes == info.terminal \/ info.transclude # "none"
             done == [acc EXCEPT
                         !.applied = Append(@, d),
                         !.controllers = IF info.controller THEN @ \cup {d} ELSE @,
                         !.transcluded = IF info.transclude = "element" THEN info.priority ELSE @,
                         !.terminalPriority = IF closes THEN info.priority ELSE @]
         IN IF d # acc.derived /\ Duplicate(acc, d) THEN {[acc EXCEPT !.error = TRUE]}
            ELSE IF info.template = "url" THEN {[done EXCEPT !.waiting = Tail(list), !.async = d]}
            ELSE IF info.template = "inline" /\ info.replace
                 THEN UNION {Apply(rest, done) : rest \in ByPriority(ToSet(Tail(list)) \cup inside)}
                 ELSE Apply(Tail(list), done)

Fresh(derived) ==
    [applied |-> <<>>, controllers |-> {}, transcluded |-> Lowest, terminalPriority |-> Lowest,
     waiting |-> <<>>, async |-> Null, derived |-> derived, error |-> FALSE]

CompileElement ==
    /\ state = "new"
    /\ \E list \in ByPriority(page) : before' \in Apply(list, Fresh(Null))
    /\ state' = IF before'.error THEN "failed"
                ELSE IF before'.async # Null THEN "pending" ELSE "compiled"
    /\ UNCHANGED <<given, after, linkQueue, log>>

------------------------------------------------------------------------------
(* Linking.                                                                   *)

Events(copy, what, fns) == [i \in DOMAIN fns |-> [copy |-> copy, what |-> what, of |-> fns[i]]]

\* nodeLinkFn: controllers, pre-link functions, the children, post-link functions.
\* The link function of a directive whose template is to come is that of derived.
NodeLink(c, copy, children) ==
    LET fns == SelectSeq(c.applied, LAMBDA d : d # c.async)
    IN Events(copy, "controller", SetToSeq(c.controllers)) \o Events(copy, "pre", fns)
         \o children \o Events(copy, "post", fns)

Children(copy) == <<[copy |-> copy, what |-> "children", of |-> Null]>>

\* What comes after the template links around what was compiled before it.
LinkAll(a, copy) == NodeLink(a, copy, NodeLink(before, copy, Children(copy)))

Linked == {log[i].copy : i \in DOMAIN log} \cup ToSet(linkQueue)

Link(copy) ==
    /\ state \in {"pending", "compiled"} /\ copy \notin Linked
    /\ IF state = "pending"
       THEN linkQueue' = Append(linkQueue, copy) /\ UNCHANGED log
       ELSE /\ log' = log \o (IF after = Null THEN NodeLink(before, copy, Children(copy))
                                              ELSE LinkAll(after, copy))
            /\ UNCHANGED linkQueue
    /\ UNCHANGED <<given, state, before, after>>

\* The answer of the server: the directives that waited, and those of the root of the
\* template, are applied, with derived at the front; the queue is linked from its end.
TemplateLoaded ==
    /\ state = "pending"
    /\ \E rest \in ByPriority(ToSet(before.waiting)
                                \cup (IF Info[before.async].replace THEN inside ELSE {})) :
           after' \in Apply(<<before.async>> \o rest, Fresh(before.async))
    /\ linkQueue' = <<>>
    /\ IF after'.error THEN state' = "failed" /\ UNCHANGED log
       ELSE /\ state' = "compiled"
            /\ log' = log \o FlattenSeq([i \in DOMAIN linkQueue |->
                                            LinkAll(after', Reverse(linkQueue)[i])])
    /\ UNCHANGED <<given, before>>

TemplateFails ==
    /\ state = "pending" /\ state' = "failed" /\ linkQueue' = <<>>
    /\ UNCHANGED <<given, before, after, log>>

Next == CompileElement \/ (\E copy \in Copies : Link(copy)) \/ TemplateLoaded \/ TemplateFails

Spec == Init /\ [][Next]_compileVars

------------------------------------------------------------------------------
(* Properties.                                                                *)

Passes == IF after = Null THEN <<before>> ELSE <<before, after>>

\* A directive is applied to the element, or compiled into the template transcluded
\* from it, or shut out by one with a higher priority that is terminal, and never in
\* two of these places, whether it is there from the start or comes with a template.
\* (What is left of a directive whose template was loaded goes first, before an element
\* transclusion of the root of that template can take the place of it.)
AppliedOnce ==
    state = "compiled" =>
        \A d \in page :
            LET to == {p \in DOMAIN Passes : d \in ToSet(Passes[p].applied)}
                into == {p \in DOMAIN Passes : Info[d].priority < Passes[p].transcluded}
            IN /\ Cardinality(to) = IF d = before.async THEN 2 ELSE IF to = {} THEN 0 ELSE 1
               /\ to = {} \/ into = {} \/ d = before.async
               /\ to = {} /\ into = {} =>
                      \E e \in page \cup inside :
                          /\ Info[e].priority > Info[d].priority
                          /\ Info[e].terminal \/ Info[e].transclude = "content"

\* Every copy that is linked, before the template has come or after, runs the
\* functions of all that was applied exactly once: those before its children, then
\* these, then those after, and every controller before any function of a later
\* directive or of its own.
LinkedOnce ==
    \A copy \in Copies :
        LET own == SelectSeq(log, LAMBDA e : e.copy = copy)
            applied == UNION {ToSet(Passes[p].applied) : p \in DOMAIN Passes}
            Where(what, d) == {i \in DOMAIN own : own[i].what = what /\ own[i].of = d}
            Before(I, J) == \A i \in I, j \in J : i < j
        IN own # <<>> =>
               /\ \A d \in applied :
                      /\ Cardinality(Where("pre", d)) = 1 /\ Cardinality(Where("post", d)) = 1
                      /\ Before(Where("pre", d), Where("children", Null))
                      /\ Before(Where("children", Null), Where("post", d))
                      /\ Info[d].controller => Cardinality(Where("controller", d)) = 1
                      /\ Before(Where("controller", d), Where("post", d))
                      /\ d # before.async => Before(Where("controller", d), Where("pre", d))
               /\ Cardinality(Where("children", Null)) = 1
=============================================================================
