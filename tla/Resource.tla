------------------------------- MODULE Resource -------------------------------
(* $resource of angular-resource-1.0.0.js: the urls of its routes, and the      *)
(* instances of a page, which are got, saved and removed over a network that    *)
(* delays answers and may lose them. Text is a sequence of tokens: <<"text", t>> *)
(* and, for :p, <<"param", p>>. The number 0 is the text "0".                   *)
EXTENDS Integers, SequencesExt, FiniteSets

CONSTANTS
    Null,       \* null and undefined
    Ids,        \* the ids that the server gives, in its order
    Body,       \* what the text of a record may be
    Instance,   \* the instances that the page makes, besides those of a query
    MaxCalls    \* bound: the actions that the page calls

VARIABLES
    server,     \* id -> the text of the record, or Null
    instances,  \* instance -> Null, or [id, text]
    rows,       \* the array of the last query: [id, text]
    flight,     \* the requests under way: [action, instance, url, body, answer: Null before]
    maker,      \* id -> the instance that was saved for it; itself, for what was there; or Null
    writer,     \* id -> the instance that wrote it last
    dirty,      \* the instances that were edited since
    unsure,     \* those that the page used while a request was under way, or whose answer was lost
    gone,       \* those whose removal succeeded
    calls

resourceVars == <<server, instances, rows, flight, maker, writer, dirty, unsure, gone, calls>>

------------------------------------------------------------------------------
(* Route.                                                                     *)

Slash == <<"text", "/">>
End == <<"text", "#">>
Word(token) == token[1] = "text" /\ token[2] \notin {"/", "#", ".json", "%2F", "$1"}

urlParams(template) ==
    FoldLeft(LAMBDA names, token :
        IF token[1] = "param" /\ token[2] \notin ToSet(names) THEN Append(names, token[2]) ELSE names,
        <<>>, template)

Falsy(value) == value \in {Null, <<>>, <<<<"text", "0">>>>}
Value(params, name) == IF name \in DOMAIN params THEN params[name] ELSE Null
Chosen(defaults, params, name) ==
    IF ~Falsy(Value(params, name)) THEN params[name]
    ELSE IF ~Falsy(Value(defaults, name)) THEN defaults[name] ELSE <<>>

encodeUriSegment(value) ==
    [i \in DOMAIN value |-> IF value[i] = Slash THEN <<"text", "%2F">> ELSE value[i]]

\* url.replace: the first :p that no word goes on with, in the template or in a value before
\* it. $1 in the value is what follows.
Substitute(text, name, value) ==
    LET at == {i \in DOMAIN text : text[i] = <<"param", name>> /\ (i = Len(text) \/ ~Word(text[i + 1]))}
        i == CHOOSE k \in at : \A l \in at : k <= l
        put == [k \in DOMAIN value |-> IF value[k] = <<"text", "$1">> THEN text[i + 1] ELSE value[k]]
    IN IF at = {} THEN text ELSE SubSeq(text, 1, i - 1) \o put \o SubSeq(text, i + 1, Len(text))

Trimmed(text, token) ==
    SubSeq(text, 1, CHOOSE n \in 0 .. Len(text) : /\ \A i \in n + 1 .. Len(text) : text[i] = token
                                                  /\ n > 0 => text[n] # token)

\* The path, and the query as [key, value], of the other parameters.
url(template, defaults, params) ==
    LET Put(text, name) == Substitute(text, name, encodeUriSegment(Chosen(defaults, params, name)))
        filled == FoldLeft(Put, Append(template, End), urlParams(template))
        path == IF Last(filled) = End THEN Front(filled) ELSE filled
    IN [path |-> Trimmed(path, Slash),
        query |-> {[key |-> k, value |-> params[k]] : k \in DOMAIN params \ ToSet(urlParams(template))}]

------------------------------------------------------------------------------
(* Instances. The page calls with url /items/:id and id: "@id".               *)

Items == <<Slash, <<"text", "items">>>>
Template == Items \o <<Slash, <<"param", "id">>>>
IdText(id) == IF id = Null THEN Null ELSE <<<<"text", id>>>>

\* extractParams; of what has no body, nothing.
extractParams(data) == [id |-> IF data = Null THEN Null ELSE IdText(data.id)]

Init ==
    /\ server \in [ToSet(Ids) -> {Null} \cup Body]
    /\ \E n \in 0 .. 1 : \A k \in DOMAIN Ids : server[Ids[k]] # Null <=> k <= n
    /\ instances = [i \in Instance |-> Null] /\ rows = <<>> /\ flight = <<>>
    /\ maker = [id \in ToSet(Ids) |-> IF server[id] = Null THEN Null ELSE id] /\ writer = maker
    /\ dirty = {} /\ unsure = {} /\ gone = {} /\ calls = 0

Busy(i) == \E k \in DOMAIN flight : flight[k].instance = i
MarkUnsure(i) == unsure' = IF Busy(i) THEN unsure \cup {i} ELSE unsure

\* Resource[name]: what is given comes over what the data says.
Call(action, i, given, body) ==
    /\ calls < MaxCalls /\ calls' = calls + 1
    /\ flight' = Append(flight, [action |-> action, instance |-> i, body |-> body, answer |-> Null,
                                 url |-> url(Template, <<>>, given @@ extractParams(body))])

New(i, text) ==
    /\ instances[i] = Null
    /\ instances' = [instances EXCEPT ![i] = [id |-> Null, text |-> text]]
    /\ UNCHANGED <<server, rows, flight, maker, writer, dirty, unsure, gone, calls>>

\* The page writes into an instance.
Edit(i, text) ==
    /\ instances[i] # Null /\ instances[i].text # text /\ i \notin gone
    /\ instances' = [instances EXCEPT ![i].text = text]
    /\ dirty' = dirty \cup {i} /\ MarkUnsure(i)
    /\ UNCHANGED <<server, rows, flight, maker, writer, gone, calls>>

\* The instance is there at once, and empty.
Get(i, id) ==
    /\ instances[i] = Null
    /\ Call("get", i, [id |-> IdText(id)], Null)
    /\ instances' = [instances EXCEPT ![i] = [id |-> Null, text |-> Null]]
    /\ UNCHANGED <<server, rows, maker, writer, dirty, unsure, gone>>

Query ==
    /\ ~Busy(Null)
    /\ Call("query", Null, <<>>, Null)
    /\ UNCHANGED <<server, instances, rows, maker, writer, dirty, unsure, gone>>

Save(i) ==
    /\ instances[i] # Null /\ i \notin gone
    /\ Call("save", i, extractParams(instances[i]), instances[i])
    /\ dirty' = dirty \ {i} /\ MarkUnsure(i)
    /\ UNCHANGED <<server, instances, rows, maker, writer, gone>>

\* $remove, with parameters of the page in place of those of the instance or without.
Delete(i, given) ==
    /\ instances[i] # Null /\ i \notin gone
    /\ Call("remove", i, IF given = Null THEN extractParams(instances[i]) ELSE given, Null)
    /\ MarkUnsure(i)
    /\ UNCHANGED <<server, instances, rows, maker, writer, dirty, gone>>

------------------------------------------------------------------------------
(* The server and the network: requests come, and are answered, in any order. *)

IdAt(path) == IF path = Items THEN Null ELSE path[Len(path)][2]
Record(id) == [id |-> id, text |-> server[id]]
Fails == [ok |-> FALSE, data |-> <<>>]
Says(data) == [ok |-> TRUE, data |-> data]
AnswerIs(k, answer) == flight' = [flight EXCEPT ![k].answer = answer]

Unmade == {n \in DOMAIN Ids : maker[Ids[n]] = Null}
Stored(id) == id \in ToSet(Ids) /\ server[id] # Null

Serve(k) ==
    LET r == flight[k]
        id == IdAt(r.url.path)
    IN /\ r.answer = Null
       /\ \/ /\ r.action = "query"
             /\ AnswerIs(k, Says([n \in 1 .. Cardinality({m \in DOMAIN Ids : Stored(Ids[m])}) |->
                    Record(SelectSeq(Ids, Stored)[n])]))
             /\ UNCHANGED <<server, maker, writer>>
          \/ /\ r.action = "get" /\ AnswerIs(k, IF Stored(id) THEN Says(<<Record(id)>>) ELSE Fails)
             /\ UNCHANGED <<server, maker, writer>>
          \/ /\ r.action = "save" /\ id = Null /\ Unmade # {}
             /\ \E n \in {m \in Unmade : \A l \in Unmade : m <= l} :
                   /\ server' = [server EXCEPT ![Ids[n]] = r.body.text]
                   /\ maker' = [maker EXCEPT ![Ids[n]] = r.instance]
                   /\ writer' = [writer EXCEPT ![Ids[n]] = r.instance]
                   /\ AnswerIs(k, Says(<<[id |-> Ids[n], text |-> r.body.text]>>))
          \/ /\ r.action = "save" /\ Stored(id)
             /\ server' = [server EXCEPT ![id] = r.body.text]
             /\ writer' = [writer EXCEPT ![id] = r.instance]
             /\ AnswerIs(k, Says(<<[id |-> id, text |-> r.body.text]>>)) /\ UNCHANGED maker
          \/ /\ r.action = "remove" /\ Stored(id)
             /\ server' = [server EXCEPT ![id] = Null]
             /\ AnswerIs(k, Says(<<>>)) /\ UNCHANGED <<maker, writer>>
          \/ /\ r.action \in {"save", "remove"} /\ ~Stored(id) /\ (r.action = "save" /\ id = Null => Unmade = {})
             /\ AnswerIs(k, Fails) /\ UNCHANGED <<server, maker, writer>>
       /\ UNCHANGED <<instances, rows, dirty, unsure, gone, calls>>

\* copy(data, value): what comes is copied over what the instance has become.
Copied(value, data) == data

Succeed(k) ==
    LET r == flight[k]
    IN /\ r.answer # Null /\ r.answer.ok
       /\ \/ r.action = "query" /\ rows' = r.answer.data /\ UNCHANGED <<instances, gone>>
          \/ /\ r.action \in {"get", "save"} /\ UNCHANGED <<rows, gone>>
             /\ instances' = [instances EXCEPT ![r.instance] = Copied(@, Head(r.answer.data))]
          \/ /\ r.action = "remove" /\ gone' = gone \cup {r.instance} /\ UNCHANGED <<instances, rows>>
       /\ flight' = RemoveAt(flight, k)
       /\ UNCHANGED <<server, maker, writer, dirty, unsure, calls>>

\* An error, or an answer that is lost.
Fail(k) ==
    LET r == flight[k]
    IN /\ r.answer # Null
       /\ unsure' = IF r.instance # Null THEN unsure \cup {r.instance} ELSE unsure
       /\ flight' = RemoveAt(flight, k)
       /\ UNCHANGED <<server, instances, rows, maker, writer, dirty, gone, calls>>

Next ==
    \/ \E i \in Instance :
          \/ \E text \in Body : New(i, text) \/ Edit(i, text)
          \/ \E id \in ToSet(Ids) : Get(i, id)
          \/ Save(i)
          \/ \E given \in {Null, [force |-> <<<<"text", "1">>>>]} : Delete(i, given)
    \/ Query
    \/ \E k \in DOMAIN flight : Serve(k) \/ Succeed(k) \/ Fail(k)

------------------------------------------------------------------------------
(* Properties.                                                                *)

\* An instance whose answers the page awaited, and got, is the record it was saved as: it is
\* in the server once, an instance that is saved again writes there, one that nobody edited
\* and no other has written shows what is stored, and what was removed is gone
\* (ResourceFactory: copy(data, value) is what gives a new instance its id).
InstanceTracks ==
    \A i \in Instance \ unsure : ~Busy(i) =>
        /\ \A id \in ToSet(Ids) : maker[id] = i => instances[i].id = id
        /\ \A id \in ToSet(Ids) :
               instances[i] # Null /\ instances[i].id = id /\ writer[id] = i /\ i \notin dirty =>
                   server[id] \in {instances[i].text, Null}
        /\ i \in gone => instances[i].id # Null /\ server[instances[i].id] = Null

\* The parts of a path between its slashes.
Segments(text) ==
    FoldLeft(LAMBDA segs, token : IF token = Slash THEN Append(segs, <<>>)
                                  ELSE [segs EXCEPT ![Len(segs)] = Append(@, token)], <<<<>>>>, text)
Decoded(text) == [i \in DOMAIN text |-> IF text[i] = <<"text", "%2F">> THEN Slash ELSE text[i]]

\* Every parameter is read back from its place in the path, unless it looks like another or
\* like $1 or has two places, and parameters that are missing at the end leave no slashes;
\* those that have no place are in the query (Route.url).
UrlFits(template, defaults, params) ==
    LET plain(v) == \A i \in DOMAIN v : v[i][1] = "text" /\ v[i][2] # "$1"
        names == ToSet(urlParams(template))
        out == url(template, defaults, params)
        Meant(segment) == FlattenSeq([i \in DOMAIN segment |->
            IF segment[i][1] = "text" THEN <<segment[i]>> ELSE Chosen(defaults, params, segment[i][2])])
        got == Segments(out.path)
        meant == Segments(template)
        once == Len(SelectSeq(template, LAMBDA token : token[1] = "param")) = Cardinality(names)
    IN once /\ (\A p \in names : plain(Chosen(defaults, params, p))) =>
        /\ Trimmed([n \in DOMAIN got |-> Decoded(got[n])], <<>>)
             = Trimmed([n \in DOMAIN meant |-> Meant(meant[n])], <<>>)
        /\ {q.key : q \in out.query} \cap names = {}
        /\ \A p \in DOMAIN params : p \in names \/ [key |-> p, value |-> params[p]] \in out.query
=============================================================================
