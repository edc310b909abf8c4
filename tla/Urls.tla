-------------------------------- MODULE Urls ---------------------------------
(* How $location of angular-1.0.0.js reads and writes the url of the page, in *)
(* its two modes: the url itself (LocationUrl) and what is behind its hash    *)
(* (LocationHashbangUrl), and the conversions from one to the other. A text   *)
(* is a sequence of characters; "%c" is one character, c in percent encoding, *)
(* and "null" stands for that word.                                           *)
EXTENDS Integers, FiniteSets, SequencesExt

CONSTANTS BasePath, HashPrefix  \* of the page and of the urls behind its hash

Reserved == {"/", "?", "#", "%", "&", "=", "+", " ", "@", ":"}
Pct(c) == "%" \o c
Absent == <<"absent">>  \* a group of a regular expression that matches nothing
Given == <<"true">>     \* the value of a search parameter without "="

------------------------------------------------------------------------------
(* Encoding.                                                                  *)

Replace(text, from, to) == [i \in DOMAIN text |-> IF text[i] = from THEN to ELSE text[i]]
FirstAt(text, chars) == SelectInSeq(text, LAMBDA c : c \in chars)

RECURSIVE Split(_, _)
Split(text, sep) ==
    LET i == FirstAt(text, {sep})
    IN IF i = 0 THEN <<text>>
       ELSE <<SubSeq(text, 1, i - 1)>> \o Split(SubSeq(text, i + 1, Len(text)), sep)

Join(pieces, sep) ==
    FlattenSeq([i \in DOMAIN pieces |-> IF i = 1 THEN pieces[i] ELSE <<sep>> \o pieces[i]])

encodeURIComponent(text) ==
    [i \in DOMAIN text |-> IF text[i] \in Reserved THEN Pct(text[i]) ELSE text[i]]
decodeURIComponent(text) ==
    [i \in DOMAIN text |-> IF \E c \in Reserved : text[i] = Pct(c)
                           THEN CHOOSE c \in Reserved : text[i] = Pct(c) ELSE text[i]]

\* encodeUriQuery(val, true): replace(null, '+') takes null for the word it reads as.
encodeUriQuery(text) ==
    LET encoded == Replace(Replace(encodeURIComponent(text), Pct("@"), "@"), Pct(":"), ":")
        i == FirstAt(encoded, {"null"})
    IN IF i = 0 THEN encoded ELSE [encoded EXCEPT ![i] = "+"]

\* Mutant: the plus sign of a path is left to the encoding of queries.
encodeUriSegmentOnly(text) == Replace(Replace(encodeUriQuery(text), Pct("?"), "?"), Pct("="), "=")

encodeUriSegment(text) ==
    Replace(Replace(Replace(encodeUriQuery(text), Pct("&"), "&"), Pct("="), "="), Pct("+"), "+")

encodePath(path) ==
    LET segments == Split(path, "/")
    IN Join([i \in DOMAIN segments |-> encodeUriSegment(segments[i])], "/")

\* The parameters of a search; of two with one key the later one is kept.
parseKeyValue(text) ==
    LET pairs == SelectSeq(Split(text, "&"), LAMBDA pair : pair # <<>>)
        Key(i) == decodeURIComponent(Split(pairs[i], "=")[1])
        LastOf(key) == CHOOSE i \in DOMAIN pairs :
                           Key(i) = key /\ \A j \in DOMAIN pairs : Key(j) = key => j <= i
    IN [key \in {Key(i) : i \in DOMAIN pairs} |->
           LET pair == Split(pairs[LastOf(key)], "=")
           IN IF Len(pair) = 1 THEN Given ELSE decodeURIComponent(pair[2])]

toKeyValue(search) ==
    LET keys == SetToSeq(DOMAIN search)
    IN Join([i \in DOMAIN keys |->
                encodeUriQuery(keys[i]) \o (IF search[keys[i]] = Given THEN <<>>
                                            ELSE <<"=">> \o encodeUriQuery(search[keys[i]]))], "&")

------------------------------------------------------------------------------
(* Urls. An absolute url is where it is served from and the text after that.  *)

\* PATH_MATCH.
Match(text) ==
    LET h == FirstAt(text, {"#"})
        front == IF h = 0 THEN text ELSE SubSeq(text, 1, h - 1)
        q == FirstAt(front, {"?"})
    IN [path |-> IF q = 0 THEN front ELSE SubSeq(front, 1, q - 1),
        search |-> IF q = 0 THEN Absent ELSE SubSeq(front, q + 1, Len(front)),
        hash |-> IF h = 0 THEN Absent ELSE SubSeq(text, h + 1, Len(text))]

Text(group) == IF group = Absent THEN <<>> ELSE group

DefaultPort == [http |-> 80, https |-> 443]

\* matchUrl and composeProtocolHostPort: a default port is known and is not written.
matchUrl(url) ==
    [Match(url.text) EXCEPT !.path = IF @ = <<>> THEN <<"/">> ELSE @]
Origin(url) ==
    [url.origin EXCEPT !.port = IF @ # 0 THEN @ ELSE DefaultPort[url.origin.protocol]]
composeProtocolHostPort(origin) ==
    [origin EXCEPT !.port = IF @ = DefaultPort[origin.protocol] THEN 0 ELSE @]

pathPrefixFromBase == SubSeq(BasePath, 1, CHOOSE i \in 0 .. Len(BasePath) :
    BasePath[i + 1] = "/" /\ \A j \in i + 2 .. Len(BasePath) : BasePath[j] # "/")

From(text, prefix) == SubSeq(text, Len(prefix) + 1, Len(text))

Compose(loc) ==
    LET search == toKeyValue(loc.search)
    IN encodePath(loc.path) \o (IF search = <<>> THEN <<>> ELSE <<"?">> \o search)
         \o (IF loc.hash = <<>> THEN <<>> ELSE <<"#">> \o encodeUriSegment(loc.hash))

Locate(origin, path, search, hash) ==
    [origin |-> origin, path |-> path, search |-> parseKeyValue(Text(search)),
     hash |-> decodeURIComponent(Text(hash))]

\* LocationUrl.
ParseUrl(url) ==
    LET match == matchUrl(url)
    IN Locate(Origin(url), decodeURIComponent(From(match.path, pathPrefixFromBase)),
              match.search, match.hash)
ComposeUrl(loc) ==
    [origin |-> composeProtocolHostPort(loc.origin), text |-> pathPrefixFromBase \o Compose(loc)]

\* LocationHashbangUrl.
ParseHashbang(url) ==
    LET match == Match(From(Text(matchUrl(url).hash), HashPrefix))
        slash == IF match.path[1] = "/" THEN <<>> ELSE <<"/">>
    IN Locate(Origin(url), IF match.path = <<>> THEN <<>>
                           ELSE slash \o decodeURIComponent(match.path), match.search, match.hash)
ComposeHashbang(loc, basePath) ==
    [origin |-> composeProtocolHostPort(loc.origin),
     text |-> basePath \o (IF Compose(loc) = <<>> THEN <<>> ELSE <<"#">> \o HashPrefix \o Compose(loc))]

convertToHtml5Url(url) ==
    LET match == matchUrl(url)
    IN IF decodeURIComponent(match.path) # BasePath \/ match.hash = Absent
          \/ ~IsPrefix(HashPrefix, match.hash)
       THEN url
       ELSE [origin |-> composeProtocolHostPort(Origin(url)),
             text |-> pathPrefixFromBase \o From(match.hash, HashPrefix)]

\* The path must start with that of the base: the code throws otherwise.
convertToHashbangUrl(url) ==
    LET match == matchUrl(url)
        Part(sign, group) == IF Text(group) = <<>> THEN <<>> ELSE <<sign>> \o group
    IN IF decodeURIComponent(match.path) = BasePath THEN url
       ELSE [origin |-> composeProtocolHostPort(Origin(url)),
             text |-> BasePath \o <<"#">> \o HashPrefix \o From(match.path, pathPrefixFromBase)
                        \o Part("?", match.search) \o Part("#", match.hash)]

------------------------------------------------------------------------------
(* The setters of $location.                                                  *)

SetPath(loc, path) == [loc EXCEPT !.path = IF path # <<>> /\ path[1] = "/" THEN path ELSE <<"/">> \o path]

\* url(text): a search alone keeps the path, a hash alone keeps both.
SetUrl(loc, text) ==
    LET match == Match(text)
        pathed == IF match.path = <<>> THEN loc ELSE SetPath(loc, decodeURIComponent(match.path))
    IN [pathed EXCEPT
           !.search = IF match.path = <<>> /\ match.search = Absent THEN @
                      ELSE parseKeyValue(Text(match.search)),
           !.hash = Text(match.hash)]

------------------------------------------------------------------------------
\* What $location writes into the address bar is what it reads back from there, in both
\* modes and when the page is opened in the other one, whatever characters a path, a key,
\* a value or a hash has, but for the word that is taken for the missing pattern; and url()
\* takes such a text, of which it leaves the hash encoded.
RoundTrip(loc) ==
    LET known == [loc EXCEPT !.origin = Origin(loc)]
        html5 == ComposeUrl(known)
        hashbang == ComposeHashbang(known, BasePath)
        words == ToSet(loc.path) \cup ToSet(loc.hash)
                   \cup UNION {ToSet(k) \cup ToSet(loc.search[k]) : k \in DOMAIN loc.search}
    IN "null" \notin words =>
           /\ ParseUrl(html5) = known /\ ParseHashbang(hashbang) = known
           /\ known.path # <<>> /\ decodeURIComponent(matchUrl(html5).path) # BasePath =>
                  /\ convertToHashbangUrl(html5) = hashbang
                  /\ convertToHtml5Url(hashbang) = html5
           /\ convertToHtml5Url(html5) = html5 /\ convertToHashbangUrl(hashbang) = hashbang
           /\ SetUrl(known, Compose(loc)) = [known EXCEPT !.hash = encodeUriSegment(@)]
=============================================================================
