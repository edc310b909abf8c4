------------------------------ MODULE WebClient ------------------------------
(* The modules of the browser's framework, angular-1.0.0.js, side by side: in a *)
(* behaviour one of them, the subject, moves in the first of the slots s1..s10, *)
(* and the other slots are Null. The subjects that are algorithms have one step, *)
(* which picks the input. The navigation, $http and $q, about which there are    *)
(* theorems, are there with the variables and constants of their modules.        *)
EXTENDS Navigation, HttpClient, Promises, Integers, Sequences, FiniteSets, TLC

CONSTANTS Undefined, NaN

VARIABLES subject, s1, s2, s3, s4, s5, s6, s7, s8, s9, s10

Slots10 == s10
Slots9 == <<s9, Slots10>>
Slots8 == <<s8, Slots9>>
Slots7 == <<s7, Slots8>>
Slots6 == <<s6, Slots7>>
Slots5 == <<s5, Slots6>>
Slots4 == <<s4, s5, Slots6>>
Slots2 == <<s2, s3, Slots4>>
slots == <<subject, s1, Slots2>>

Off10 == s10 = Null
Off9 == s9 = Null /\ Off10
Off8 == s8 = Null /\ Off9
Off7 == s7 = Null /\ Off8
Off6 == s6 = Null /\ Off7
Off5 == s5 = Null /\ Off6
Off2 == s2 = Null /\ s3 = Null /\ s4 = Null /\ Off5

------------------------------------------------------------------------------
(* The subjects with a state of their own.                                    *)

Scopes == INSTANCE RootScope
    WITH Scope <- {"root", "s1", "s2"}, Root <- "root",
         Var <- {"v"}, Value <- {0, 1}, AsyncScope <- {"root"}, TTL <- 1, Budget <- 4,
         world <- s1, phase <- s2, digests <- s3, settled <- s4

Requests == {"r1", "r2", "r3"}
UrlsOf == [r1 |-> "/a", r2 |-> "/a", r3 |-> "/b"]
Deferreds == (Requests \X {"answer", "response"}) \cup {<<"t", "timeout">>}
FourOfThem == {d \in Deferreds : d[2] # "response"}

Routes == "/list" :> "list" @@ "/item" :> "item" @@ "/old" :> "old" @@ "/none" :> None
Urls == {[path |-> p, search |-> 0] : p \in DOMAIN Routes} \cup {[path |-> "/list", search |-> 1]}
Redirects == [old |-> [path |-> "/item", search |-> 0]]

Fields == INSTANCE Forms
    WITH Form <- {"form", "inner"}, Control <- {"mail", "name"},
         ParentOf <- "form" :> Null @@ "inner" :> "form" @@ "mail" :> "inner" @@ "name" :> "form",
         Type <- [mail |-> "email", name |-> "text"], ModelOf <- [mail |-> "user", name |-> "user"],
         Value <- {"", "a", "a@b"}, Empty <- "",
         Accepts <- [token \in {"pattern", "minlength", "maxlength", "number", "min", "max", "email"} |->
                        IF token \in {"email", "minlength"} THEN {"a@b"} ELSE {"", "a", "a@b"}],
         live <- s1, validity <- s2, control <- s3, model <- s4, required <- s5, dirty <- s6, gone <- s7, late <- s8

Modules(a, b, c, d) == [app |-> a, data |-> b, view |-> c, util |-> d]
Services(a, b, c) == [a |-> a, b |-> b, c |-> c]
Wiring == INSTANCE Injector
    WITH Module <- {"app", "data", "view", "util"}, Service <- {"a", "b", "c"},
         Order <- <<"app", "data", "view", "util">>, DepOrder <- <<"a", "b", "c">>, Gets <- 2,
         RequireGraphs <- {Modules({"data", "view"}, {"util"}, {"util"}, {}),
                           Modules({"data"}, {"view"}, {"app"}, {}),
                           Modules({"data", "view"}, {"view"}, {"data", "util"}, {"util"})},
         Declarations <- {Services("data", "data", "data"),
                          "a" :> "app" @@ "b" :> "view" @@ "c" :> Null},
         InjectGraphs <- {Services({"b", "c"}, {"c"}, {}), Services({"b"}, {"a"}, {}),
                          Services({"b"}, {"c"}, {"c"}), Services({"b", "c"}, {}, {})},
         requires <- s1, declares <- s2, inject <- s3, stage <- s4, loaded <- s5, runBlocks <- s6,
         cache <- s7, built <- s8, asked <- s9, answer <- s10

Rows == INSTANCE Lists
    WITH Item <- {"x", "y", "z"}, GroupOf <- <<>>, MaxLength <- 3, MaxRows <- 4,
         collection <- s1, page <- s2, lastOrder <- s3, rows <- s4, scopes <- s5,
         multiple <- s6, nullOption <- s6, modelValue <- s6, cache <- s6

Options == INSTANCE Lists
    WITH Item <- {"x", "y", "z"}, GroupOf <- [x |-> "", y |-> "g", z |-> "h"], MaxLength <- 3, MaxRows <- 0,
         multiple <- s1, nullOption <- s2, collection <- s3, modelValue <- s4, cache <- s5,
         page <- s6, lastOrder <- s6, rows <- s6, scopes <- s6

Is(priority, terminal, replace, controller, scope, transclude, template) ==
    [priority |-> priority, terminal |-> terminal, replace |-> replace, controller |-> controller,
     scope |-> scope, transclude |-> transclude, template |-> template]
Directives ==
    [repeat |-> Is(1000, TRUE, FALSE, FALSE, "none", "element", "none"),
     controller |-> Is(500, FALSE, FALSE, TRUE, "new", "none", "none"),
     when |-> Is(500, FALSE, FALSE, FALSE, "none", "element", "none"),
     panel |-> Is(20, FALSE, TRUE, FALSE, "isolate", "content", "inline"),
     widget |-> Is(10, FALSE, TRUE, TRUE, "isolate", "none", "url"),
     model |-> Is(0, FALSE, FALSE, TRUE, "none", "none", "none"),
     include |-> Is(0, TRUE, FALSE, FALSE, "none", "none", "none"),
     show |-> Is(0, FALSE, FALSE, FALSE, "none", "none", "none")]
Linker == INSTANCE Compile
    WITH Directive <- DOMAIN Directives, Info <- Directives,
         OnElement <- {S \in SUBSET DOMAIN Directives : Cardinality(S) <= 3},
         OnTemplate <- {{}, {"show"}, {"when"}, {"include", "model"}}, Copies <- {"c1", "c2"},
         page <- s1, inside <- s2, state <- s3, before <- s4, after <- s5, linkQueue <- s6, log <- s7

Elements == INSTANCE JqLite
    WITH Element <- {"body", "a", "b"}, Root <- "body", Plain <- {"plain"}, Once <- {"once"}, MaxHandles <- 2,
         Bindings <- {<<"a", "click", "plain">>, <<"a", "click", "once">>, <<"b", "$destroy", "plain">>},
         childNodes <- s1, jqCache <- s2, events <- s3, listening <- s4, made <- s5,
         told <- s6, lastEvent <- s7

Records == INSTANCE Resource
    WITH Ids <- <<"1", "2">>, Body <- {"x", "y"}, Instance <- {"i", "j"}, MaxCalls <- 2,
         server <- s1, instances <- s2, rows <- s3, flight <- s4, maker <- s5, writer <- s6,
         dirty <- s7, unsure <- s8, gone <- s9, calls <- s10

------------------------------------------------------------------------------
(* The algorithms and their inputs.                                           *)

Lang == INSTANCE Expressions
Links == INSTANCE Urls WITH BasePath <- <<"/", "b", "/", "i">>, HashPrefix <- <<"!">>
Filter == INSTANCE Filters
Jsons == INSTANCE Json

UpTo(n, S) == UNION {[1 .. k -> S] : k \in 0 .. n}

Texts ==
    LET Name == Lang!Path(Lang!Scope, "a")
        Names == {Name, Lang!Path(Name, "b")}
        Leaves == Names \cup {Lang!Node("number", <<".", "1">>, <<>>),
                              Lang!Node("number", <<"2", "e", "-", "1">>, <<>>),
                              Lang!Node("string", <<"a", "'", "\\", "004a">>, <<>>)}
        Over(S, T) ==
            {Lang!Binary(fn, l, r) : fn \in {"||", "&&", "<", "==", "-", "*"}, l \in S, r \in T}
            \cup {Lang!Node("not", <<>>, <<x>>) : x \in S} \cup {Lang!Binary("-", Lang!Zero, x) : x \in S}
            \cup {Lang!Node("assign", <<>>, <<x, y>>) : x \in {z \in S : z.op \in {"path", "index"}}, y \in T}
            \cup {Lang!Node("index", <<>>, <<x, y>>) : x \in {z \in S : z.op # "number"}, y \in T}
            \cup {Lang!Path(x, "c") : x \in {z \in S : z.op # "number"}}
            \cup {Lang!Call(x, args) : x \in S, args \in {<<>>, <<Name>>}}
            \cup {Lang!Node("array", <<>>, items) : items \in {<<>>} \cup {<<x>> : x \in S}}
            \cup {Lang!Node("object", <<>>, <<Lang!Node("entry", <<"a">>, <<x>>),
                                              Lang!Node("entry", <<"b">>, <<Name>>)>>) : x \in S}
            \cup {Lang!Node("filter", <<"f">>, <<x, y>>) : x \in S, y \in T}
        Once == Over(Names, {Name})
    IN Over(Once \cup Leaves, {Name}) \cup Over(Leaves, Once)
       \cup {Lang!Node("block", <<>>, <<x, y>>) : x \in Once, y \in {Name}}

Object(fields) == [kind |-> "object", fields |-> fields]
Held == {Object(<<>>), Object("a" :> Object(<<>>)), Object("a" :> Object("b" :> Object("b" :> Object(<<>>)))),
         Object("b" :> [kind |-> "promise", fields |-> "$$v" :> Object("a" :> Lang!Atom)])}
Paths == (UpTo(2, {"a", "b"}) \ {<<>>}) \cup {<<"b", "a", "b">>, <<"a", "b", "a", "b", "a", "b">>}

Locations ==
    [origin : [protocol : {"http"}, port : {0, 8080}],
     path : {<<>>} \cup {<<"/">> \o s : s \in UpTo(2, {"a", "/", "?", "%", "null"})},
     search : UNION {[K -> {<<>>, Links!Given, <<"+", " ">>}] : K \in SUBSET {<<"a">>, <<"&", "=">>} \ {{}}},
     hash : {<<>>, <<"#", "a">>, <<"=", "?">>, <<"null">>}]

Patterns == [lgSize : {3}, gSize : {2, 3}, minFrac : {0, 2}, maxFrac : {2, 3}]
Numbers == {0, 1, 5, 49, 50, 500, 999, 1000, 1005, 9995, -1500, 123456, 999500, -12345678, 99999499, 123456789}
Dates == [FullYear : {5, 2012}, Month : {0, 9}, Date : {31}, Hours : {0, 1, 11, 12, 13, 23}, Minutes : {7}]
Text(t) == [type |-> "string", text |-> t]
Number(n) == [type |-> "number", text |-> Filter!DigitsOf[n], value |-> n]
Record(f) == [type |-> "object", fields |-> f]
Table == {Record([a |-> x, b |-> y]) : x \in {Text(<<"a">>), Number(2), Number(10)}, y \in {Text(<<"b">>), Number(1)}}
           \cup {Record("a" :> Text(<<"b">>) @@ "$private" :> Text(<<"a">>)),
                 Record("b" :> Record("c" :> Text(<<"a">>)))}
Filtering == {<<>>, "$" :> <<"a">>, "$" :> <<"!", "b">>, "a" :> <<"b">> @@ "b" :> <<>>, "b" :> <<"1">>}
Orders == {<<>>, <<[key |-> "a", descending |-> FALSE]>>,
           <<[key |-> "b", descending |-> TRUE], [key |-> "a", descending |-> FALSE]>>}

Token(t) == <<"text", t>>
Param(p) == <<"param", p>>
Slashed == <<Token("/"), Token("items"), Token("/"), Param("a")>>
Templates == {Slashed, Append(Slashed, Token("/")), Append(Slashed, Token(".json")),
              Slashed \o <<Token("/"), Param("b")>>, Slashed \o <<Token("/"), Param("b"), Token("/"), Param("a")>>,
              <<Token("/"), Param("b"), Token("/"), Param("a")>>}
Given == {Null, <<Token("0")>>} \cup UpTo(2, {Token("x"), Token("/"), Token("$1"), Param("b")})

JsonLeaves == {<<"number", 1>>, <<"NaN", 0>>, <<"word", "null">>, <<"word", "true">>, <<"string", <<"q", "z">>>>,
               <<"string", <<"n", "a">>>>, <<"undefined", 0>>, <<"function", 0>>, <<"date", 0>>, <<"nested", 0>>}
JsonOver(S) == {<<"array", x>> : x \in UpTo(2, S)}
                 \cup {<<"object", x>> : x \in {<<>>} \cup {<<<<"a", v>>>> : v \in S}
                                              \cup {<<<<"a", v[1]>>, <<"b", v[2]>>>> : v \in S \X S}}
JsonValues == JsonLeaves \cup JsonOver(JsonLeaves \cup JsonOver({<<"number", 1>>, <<"nested", 0>>}))
Reps == {Jsons!NoRep, [kind |-> "function", keys |-> <<>>], [kind |-> "list", keys |-> <<"b", "c", "a", "b">>]}
JsonTokens == {Jsons!Mark(m) : m \in {"[", "]", "{", "}", ",", ":"}} \cup {<<"number", 1>>, <<"string", <<<<"plain", "a">>>>>>}

Input ==
    CASE subject = "text" -> Texts \X {<<>>, <<" ">>}
      [] subject = "path" -> Held \X Held \X {p \in Paths : p[1] = "a"} \X Paths
      [] subject = "link" -> {<<l>> : l \in Locations}
      [] subject = "number" -> Numbers \X Patterns \X (-1 .. 3)
      [] subject = "date" -> Dates \X Dates
      [] subject = "table" -> UpTo(2, Table) \X Filtering \X Orders
      [] subject = "json" -> JsonValues \X Reps \X {0, 2}
      [] subject = "jsontext" -> {<<t>> : t \in UpTo(5, JsonTokens)}
      [] subject = "route" ->
           Templates \X {<<>>, "a" :> <<Token("y")>>}
             \X {[a |-> v, b |-> w, c |-> <<Token("z")>>] : v \in Given, w \in Given}
Algorithms == {"text", "path", "link", "number", "date", "table", "route", "json", "jsontext"}

------------------------------------------------------------------------------

Init ==
    /\ NavInit /\ HttpInit /\ PromisesInit
    /\ \/ subject = "scopes" /\ Scopes!Init /\ Off5
       \/ subject \in {"http", "paged", "promises"} /\ s1 = Null /\ Off2
       \/ subject = "fields" /\ Fields!Init /\ Off9
       \/ subject = "wiring" /\ Wiring!Init
       \/ subject = "rows" /\ Rows!RepeatInit /\ Off6
       \/ subject = "options" /\ Options!SelectInit /\ Off6
       \/ subject = "linker" /\ Linker!Init /\ Off8
       \/ subject = "elements" /\ Elements!Init /\ Off8
       \/ subject = "records" /\ Records!Init
       \/ subject \in Algorithms /\ s1 = Null /\ Off2
    /\ subject # "paged" => browserUrl = CHOOSE url \in Url : TRUE

Next ==
    /\ UNCHANGED subject
    /\ subject # "paged" => UNCHANGED navVars
    /\ subject # "http" => UNCHANGED httpVars
    /\ subject # "promises" => UNCHANGED promiseVars
    /\ \/ subject = "scopes" /\ Scopes!Next /\ UNCHANGED Slots5
       \/ subject = "promises" /\ PromisesNext /\ UNCHANGED <<s1, Slots2>>
       \/ subject = "http" /\ HttpNext /\ UNCHANGED <<s1, Slots2>>
       \/ subject = "paged" /\ NavNext /\ UNCHANGED <<s1, Slots2>>
       \/ subject = "fields" /\ Fields!Next /\ UNCHANGED Slots9
       \/ subject = "wiring" /\ Wiring!Next
       \/ subject = "rows" /\ Rows!RepeatNext /\ UNCHANGED Slots6
       \/ subject = "options" /\ Options!SelectNext /\ UNCHANGED Slots6
       \/ subject = "linker" /\ Linker!Next /\ UNCHANGED Slots8
       \/ subject = "elements" /\ Elements!Next /\ UNCHANGED Slots8
       \/ subject = "records" /\ Records!Next
       \/ subject \in Algorithms /\ s1 = Null /\ s1' \in Input /\ UNCHANGED Slots2

\* JavaScript runs what is queued; servers and timers answer in the end.
HttpStep(A) == subject = "http" /\ A /\ UNCHANGED slots
Fairness ==
    /\ WF_slots(subject = "scopes" /\ Scopes!DigestStep /\ UNCHANGED <<subject, Slots5>>)
    /\ WF_httpVars(HttpStep(RunTick)) /\ WF_httpVars(HttpStep(EndTurn)) /\ WF_httpVars(HttpStep(Fire("t")))
    /\ \A r \in Requests : WF_httpVars(HttpStep(Network(r)))

Spec == Init /\ [][Next]_<<slots, navVars, httpVars, promiseVars>> /\ Fairness

------------------------------------------------------------------------------
(* Properties.                                                                *)

\* $new and $destroy keep the scopes a tree, and when a digest ends without an error, no
\* watcher under its target has missed a change and no task is left over at the root
\* (RootScope: TreeLinked, Settled).
ScopesSettle == subject = "scopes" => Scopes!TreeLinked /\ Scopes!Settled

\* A digest ends, whatever its listeners and tasks do.
DigestEnds == (subject = "scopes" /\ Scopes!Digesting) ~> (subject = "scopes" /\ ~Scopes!Digesting)

\* Every request is heard of in the end, also when it waits for that of another.
Answered ==
    \A r \in Requests : (subject = "http" /\ Waits(r)) ~> (subject = "http" /\ ~Waits(r))

\* The errors of a form are those of what is in it, and no others, and a control shows
\* what its model holds (Forms: ErrorsExact, ModelInStep).
FormInStep == subject = "fields" => Fields!ErrorsExact /\ Fields!ModelInStep

\* Modules are loaded and services made once, after what they need, and directives are
\* applied and linked once, in their order, whenever a template comes (Injector:
\* ModulesInOrder, InstancesInOrder; Compile: AppliedOnce, LinkedOnce).
OnceInOrder ==
    /\ subject = "wiring" => Wiring!ModulesInOrder /\ Wiring!InstancesInOrder
    /\ subject = "linker" => Linker!AppliedOnce /\ Linker!LinkedOnce

\* The options show the collection and the selection of the model, an event runs the
\* handlers that are bound and none of a store that has gone, and an instance of a resource
\* whose answers were awaited is its record
\* (Lists: SelectionFollows; JqLite: HeardOnce, StaleSilent; Resource: InstanceTracks).
PageHolds ==
    /\ subject = "records" => Records!InstanceTracks
    /\ subject = "options" => Options!SelectionFollows
    /\ subject = "elements" => Elements!HeardOnce /\ Elements!StaleSilent

\* A change of a collection makes as few rows as it can, and what leaves the document
\* leaves nothing behind (Lists: Follows; JqLite: LeavesNothing).
PageSteps ==
    [][/\ subject = "rows" => Rows!Follows
       /\ subject = "elements" => Elements!LeavesNothing]_slots

\* What is written is read back: expressions by the parser, paths by getters that agree
\* with each other, locations by the urls made of them, values by their JSON; and the urls
\* of resources carry what they are given (Expressions: ReadsBack, PathsKept; Urls:
\* RoundTrip; Json: TextReadBack, TakesJsonOnly; Resource: UrlFits).
ReadsBack ==
    s1 # Null =>
        /\ subject = "text" => Lang!ReadsBack(s1[1], s1[2])
        /\ subject = "path" => Lang!PathsKept(s1[1], s1[2], s1[3], s1[4])
        /\ subject = "link" => Links!RoundTrip(s1[1])
        /\ subject = "route" => Records!UrlFits(s1[1], s1[2], s1[3])
        /\ subject = "json" => Jsons!TextReadBack(s1[1], s1[2], s1[3])
        /\ subject = "jsontext" => Jsons!TakesJsonOnly(s1[1])

\* Numbers, dates and lists are shown as the format, the filter and the order ask for
\* (Filters: NumberRead, TimesTold, PageShown).
FiltersShow ==
    s1 # Null =>
        /\ subject = "number" => Filter!NumberRead(s1[1], s1[2], s1[3])
        /\ subject = "date" => Filter!TimesTold(s1[1], s1[2])
        /\ subject = "table" => Filter!PageShown(s1[1], s1[2], s1[3], TRUE, 1)
=============================================================================
