------------------------------- MODULE Forms -------------------------------
(* Forms and their controls in angular-1.0.0.js: FormController,              *)
(* NgModelController and the validators of the input types.  Controls and     *)
(* nested forms come and go with the views, each made once: what comes again  *)
(* is another.  Two controls may be bound to one model.  An empty string, null *)
(* and undefined are one value, Empty.                                        *)
EXTENDS Naturals, FiniteSets, SequencesExt

CONSTANTS
    Form, Control, Null,
    ParentOf,          \* the form that every form and control is in, or Null
    Type,              \* control -> "text", "number" or "email"
    ModelOf,           \* control -> the model it is bound to
    Value, Empty, NaN,
    Accepts            \* token -> the values, Empty aside, its validator lets through

VARIABLES
    live,       \* forms and controls that are in the page
    validity,   \* forms: queue, invalidCount, valid; controls: error
    control,    \* $viewValue and $modelValue
    model,      \* what the scopes hold
    required,   \* controls with attr.required at the moment
    dirty,
    gone,       \* forms and controls that have left the page
    late        \* controls that were found invalid after they had left it

formVars == <<live, validity, control, model, required, dirty, gone, late>>
stay == <<live, gone, late>>

TextValidators == <<"pattern", "minlength", "maxlength">>
NumberValidators == TextValidators \o <<"number", "min", "max">>
EmailValidators == TextValidators \o <<"email">>
RequiredFirst(tokens) == <<"required">> \o tokens

Tokens(c) == CASE Type[c] = "text" -> TextValidators
               [] Type[c] = "number" -> NumberValidators
               [] Type[c] = "email" -> EmailValidators

Token == {"required", "custom"} \cup UNION {ToSet(Tokens(c)) : c \in Control}

\* Parsers run first to last, formatters last to first; required is in front of both.
Parsers(c) == RequiredFirst(Tokens(c))
Formatters(c) == RequiredFirst(Reverse(Tokens(c)))

NewForm == [queue |-> [t \in Token |-> <<>>], invalidCount |-> 0, valid |-> TRUE]
NewControl == [view |-> NaN, modelValue |-> NaN]

Init ==
    /\ live = {f \in Form : ParentOf[f] = Null} /\ required = {} /\ dirty = {}
    /\ gone = {} /\ late = {}
    /\ validity = [form |-> [f \in Form |-> NewForm], error |-> [c \in Control |-> {}]]
    /\ control = [c \in Control |-> NewControl]
    /\ model = [m \in {ModelOf[c] : c \in Control} |-> Empty]

------------------------------------------------------------------------------
(* Validity goes up from a control through the forms around it.               *)

RECURSIVE FormSetValidity(_, _, _, _, _)
FormSetValidity(w, f, token, isValid, child) ==
    IF f = Null THEN w
    ELSE LET queue == w.form[f].queue[token]
             rest == SelectSeq(queue, LAMBDA c : c # child)
             count == w.form[f].invalidCount
             Up(form) == FormSetValidity([w EXCEPT !.form[f] = form], ParentOf[f],
                                         token, isValid, f)
         IN IF isValid
            THEN IF queue = <<>> THEN w
                 ELSE IF rest # <<>> THEN [w EXCEPT !.form[f].queue[token] = rest]
                 ELSE Up([w.form[f] EXCEPT !.queue[token] = <<>>, !.invalidCount = count - 1,
                                           !.valid = @ \/ count = 1])
            ELSE IF child \in ToSet(queue) THEN w
                 ELSE IF queue # <<>> THEN [w EXCEPT !.form[f].queue[token] = Append(@, child),
                                                     !.form[f].valid = FALSE]
                 ELSE Up([w.form[f] EXCEPT !.queue[token] = <<child>>,
                                           !.invalidCount = count + 1, !.valid = FALSE])

RemoveControl(w, f, child) ==
    FoldSet(LAMBDA t, acc : FormSetValidity(acc, f, t, TRUE, child), w, Token)

\* A control tells the form that it was made in, whether or not it is still in it; of
\* a nested form that has left the page $setValidity is a noop.
ControlSetValidity(w, c, token, isValid) ==
    IF token \in w.error[c] <=> ~isValid THEN w
    ELSE FormSetValidity([w EXCEPT !.error[c] = IF isValid THEN @ \ {token} ELSE @ \cup {token}],
                         IF ParentOf[c] \in gone THEN Null ELSE ParentOf[c], token, isValid, c)

\* A validator reports on the value; what it rejects is undefined for the next one.
Passes(c, token, v) ==
    IF token = "required" THEN c \notin required \/ v # Empty
    ELSE v = Empty \/ v \in Accepts[token]

Validate(w, c, tokens, value) ==
    FoldLeft(LAMBDA acc, t :
                 LET ok == Passes(c, t, acc.value)
                 IN [w |-> ControlSetValidity(acc.w, c, t, ok),
                     value |-> IF ok THEN acc.value ELSE Empty],
             [w |-> w, value |-> value], tokens)

------------------------------------------------------------------------------
(* A digest after the model m has become x: the watches of the controls that  *)
(* have another value run the formatters and render.                          *)

Format(state, c, x) ==
    IF state.control[c].modelValue = x THEN state
    ELSE LET r == Validate(state.w, c, Formatters(c), x)
         IN [w |-> r.w, control |-> [state.control EXCEPT ![c] = [view |-> r.value, modelValue |-> x]]]

Digest(w, ctrl, m, x, controls) ==
    LET end == FoldSet(LAMBDA c, acc : Format(acc, c, x), [w |-> w, control |-> ctrl],
                       {c \in controls : ModelOf[c] = m})
    IN validity' = end.w /\ control' = end.control /\ model' = [model EXCEPT ![m] = x]

\* $setViewValue, when the user changes an input.
Input(c, v) ==
    LET r == Validate(validity, c, Parsers(c), v)
    IN /\ c \in live /\ control[c].view # v
       /\ dirty' = IF c \in dirty THEN dirty ELSE dirty \cup {c, ParentOf[c]}
       /\ Digest(r.w, [control EXCEPT ![c] = [view |-> v, modelValue |-> r.value]],
                 ModelOf[c], r.value, live \cap Control)
       /\ UNCHANGED <<stay, required>>

Assign(m, x) ==
    /\ x # model[m] /\ Digest(validity, control, m, x, live \cap Control)
    /\ UNCHANGED <<stay, required, dirty>>

\* The observer of the attribute validates what is in view and changes no value.
ToggleRequired(c) ==
    LET on == c \notin required
    IN /\ c \in live /\ required' = IF on THEN required \cup {c} ELSE required \ {c}
       /\ validity' = ControlSetValidity(validity, c, "required",
                                         ~on \/ control[c].view # Empty)
       /\ UNCHANGED <<stay, control, model, dirty>>

\* A validator of the application that answers later, when the control may have left.
SetValidity(c, isValid) ==
    /\ c \in live \cup gone /\ validity' = ControlSetValidity(validity, c, "custom", isValid)
    /\ late' = IF c \in live \/ validity' = validity THEN late
               ELSE IF isValid THEN late \ {c} ELSE late \cup {c}
    /\ UNCHANGED <<live, gone, control, model, required, dirty>>

AddControl(n) ==
    /\ n \notin live \cup gone /\ ParentOf[n] \in live /\ live' = live \cup {n}
    /\ IF n \in Form THEN UNCHANGED <<validity, control, model>>
       ELSE Digest(validity, control, ModelOf[n], model[ModelOf[n]], (live \cap Control) \cup {n})
    /\ UNCHANGED <<gone, late, required, dirty>>

RECURSIVE Within(_, _)
Within(c, n) == c = n \/ (ParentOf[c] # Null /\ Within(ParentOf[c], n))

\* What leaves the page takes what is inside with it.
Leave(n) ==
    /\ n \in live /\ ParentOf[n] # Null
    /\ live' = {c \in live : ~Within(c, n)} /\ gone' = gone \cup {c \in live : Within(c, n)}
    /\ UNCHANGED <<late, control, model, required, dirty>>

\* Mutant: the form keeps the errors of what has left it.
DestroyElementOnly(n) == Leave(n) /\ UNCHANGED validity

\* The handlers of a destroyed form become noops before those of its controls run.
DestroyElement(n) == Leave(n) /\ validity' = RemoveControl(validity, ParentOf[n], n)

Next ==
    \/ \E c \in Control : \/ \E v \in Value : Input(c, v)
                          \/ \E ok \in BOOLEAN : SetValidity(c, ok)
                          \/ ToggleRequired(c)
    \/ \E m \in DOMAIN model, x \in Value : Assign(m, x)
    \/ \E n \in Form \cup Control : AddControl(n) \/ DestroyElement(n)

Spec == Init /\ [][Next]_formVars

------------------------------------------------------------------------------
(* Properties.                                                                *)

Invalid(n, token) == IF n \in Form THEN validity.form[n].queue[token] # <<>>
                                   ELSE token \in validity.error[n]

\* $error of every form names exactly its controls and forms that are invalid now, and
\* those that were found invalid when they had left it, once each, and invalidCount and
\* $valid agree with it, whatever was added, removed, validated by several validators,
\* before or after it left, or became valid again in between.
ErrorsExact ==
    \A f \in live \cap Form :
        LET form == validity.form[f]
            Queued(t) == {n \in live : ParentOf[n] = f /\ Invalid(n, t)}
                           \cup {c \in late : ParentOf[c] = f /\ t = "custom"}
        IN /\ \A t \in Token : /\ ToSet(form.queue[t]) = Queued(t)
                               /\ Len(form.queue[t]) = Cardinality(Queued(t))
           /\ form.invalidCount = Cardinality({t \in Token : form.queue[t] # <<>>})
           /\ form.valid <=> form.invalidCount = 0

\* A control without an error shows what its model holds; controls of one model
\* know the same value; and the model never holds a value typed into a control
\* that its validators reject.
ModelInStep ==
    \A c \in live \cap Control :
        /\ control[c].modelValue = model[ModelOf[c]]
        /\ validity.error[c] = {} => control[c].view = model[ModelOf[c]]
        /\ control[c].view = model[ModelOf[c]] =>
               \A t \in ToSet(Tokens(c)) : Passes(c, t, control[c].view)
=============================================================================
