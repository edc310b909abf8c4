----------------------------- MODULE Expressions -----------------------------
(* The expressions of templates in angular-1.0.0.js: lex and parser, and the  *)
(* functions that read and assign the paths the expressions name. A text is a *)
(* sequence of characters; what parser returns is the tree of functions it    *)
(* composes. The JSON mode of the parser and the columns of errors are left   *)
(* out.                                                                       *)
EXTENDS Integers, FiniteSets, SequencesExt

Letters == {"a", "b", "c", "e", "f", "n", "u"}
Digits == {"0", "1", "2", "4"}
White == {" "}
Quotes == {"'"}
Punctuation == {"(", ")", "{", "}", "[", "]", ".", ",", ";", ":"}
Operators == {"+", "-", "*", "/", "%", "^", "=", "==", "!=", "<", ">", "<=", ">=",
              "&&", "||", "&", "|", "!"}

------------------------------------------------------------------------------
(* The lexer.                                                                 *)

\* A token: its text, for punctuation and operators, or the keys, digits or characters
\* that it stands for.
Token(kind, text, keys) == [kind |-> kind, text |-> text, keys |-> keys]
LexerError == <<Token("error", "error", <<>>)>>

At(text, i) == IF i \in DOMAIN text THEN text[i] ELSE "end"
From(text, i) == SubSeq(text, i, Len(text))

\* How many characters of text from the first on are in S.
Span(text, S) == Max({n \in 0 .. Len(text) : \A i \in 1 .. n : text[i] \in S})

\* readNumber: the exponent's sign belongs to it only between "e" and a digit.
RECURSIVE NumberEnd(_, _)
NumberEnd(text, n) ==
    LET ch == At(text, n + 1)
        next == At(text, n + 2)
        sign == {"+", "-"} \cup Digits
        afterE == n > 0 /\ text[n] = "e" /\ ch \in sign
    IN IF ch \in Digits \cup {"."} \/ (ch = "e" /\ next \in sign) \/ (afterE /\ next \in Digits)
       THEN NumberEnd(text, n + 1)
       ELSE IF afterE THEN -1 ELSE n

\* readString, after the quote: the characters it stands for and where it ends, or -1.
RECURSIVE ReadString(_, _, _)
ReadString(text, i, chars) ==
    LET ch == At(text, i)
        next == At(text, i + 1)
        Scan(n, char) == ReadString(text, i + n, Append(chars, char))
        hex == \A k \in 2 .. 5 : At(text, i + k) \in Digits \cup {"a", "b", "c", "e", "f"}
    IN CASE ch = text[1] -> [end |-> i, chars |-> chars]
         [] ch \notin {text[1], "\\", "end"} -> Scan(1, ch)
         [] ch = "\\" /\ next = "n" -> Scan(2, "newline")
         [] ch = "\\" /\ next = "u" /\ hex ->
              Scan(6, text[i + 2] \o text[i + 3] \o text[i + 4] \o text[i + 5])
         [] ch = "\\" /\ next \notin {"n", "u", "end"} -> Scan(2, next)
         [] OTHER -> [end |-> -1, chars |-> chars]

\* readIdent: a path, which is split before its last name if it is called.
IdentTokens(text) ==
    LET n == Span(text, Letters \cup Digits \cup {"."})
        \* text.split('.')
        Key(i) == LET k == SelectSeq([j \in 1 .. n |-> j], LAMBDA j : text[j] # "."
                                        /\ Cardinality({d \in 1 .. j : text[d] = "."}) = i)
                  IN FoldLeft(LAMBDA word, j : word \o text[j], "", k)
        dots == Cardinality({d \in 1 .. n : text[d] = "."})
        keys == [i \in 1 .. dots + 1 |-> Key(i - 1)]
        spaces == Span(From(text, n + 1), White)
        called == dots > 0 /\ At(text, n + spaces + 1) = "("
    IN [tokens |-> IF called
                   THEN <<Token("ident", "", Front(keys)), Token("punct", ".", <<>>),
                          Token("name", "", <<Last(keys)>>)>>
                   ELSE <<Token("ident", "", keys)>>,
        end |-> IF called THEN n + spaces ELSE n]

RECURSIVE lex(_)
lex(text) ==
    LET ch == At(text, 1)
        ch2 == At(text, 1) \o At(text, 2)
    IN CASE ch = "end" -> <<>>
         [] ch \in Quotes ->
              LET s == ReadString(text, 2, <<>>)
              IN IF s.end = -1 THEN LexerError
                 ELSE <<Token("string", "", s.chars)>> \o lex(From(text, s.end + 1))
         [] ch \in Digits \/ (ch = "." /\ At(text, 2) \in Digits) ->
              LET n == NumberEnd(text, 0)
              IN IF n = -1 THEN LexerError
                 ELSE <<Token("number", "", SubSeq(text, 1, n))>> \o lex(From(text, n + 1))
         [] ch \in Letters ->
              LET ident == IdentTokens(text)
              IN ident.tokens \o lex(From(text, ident.end + 1))
         [] ch \in Punctuation /\ ~(ch = "." /\ At(text, 2) \in Digits) ->
              <<Token("punct", ch, <<>>)>> \o lex(Tail(text))
         [] ch \in White -> lex(Tail(text))
         [] ch2 \in Operators -> <<Token("op", ch2, <<>>)>> \o lex(From(text, 3))
         [] ch \in Operators /\ ch2 \notin Operators -> <<Token("op", ch, <<>>)>> \o lex(Tail(text))
         [] OTHER -> LexerError

------------------------------------------------------------------------------
(* The parser. Every production gives the set of what it can read from the    *)
(* tokens: one tree and the tokens after it, or nothing where it throws.      *)

Node(op, text, kids) == [op |-> op, text |-> text, kids |-> kids]
Binary(fn, left, right) == Node("binary", <<fn>>, <<left, right>>)
Zero == Node("number", <<"0">>, <<>>)
Scope == Node("scope", <<>>, <<>>)

Read(tree, rest) == [tree |-> tree, rest |-> rest]
Peek(tokens, texts) == tokens # <<>> /\ tokens[1].kind \in {"op", "punct"} /\ tokens[1].text \in texts

\* consume: the results after which the token text comes, without it.
Consume(results, text) ==
    {Read(r.tree, Tail(r.rest)) : r \in {s \in results : Peek(s.rest, {text})}}

RECURSIVE Expression(_), FilterChain(_), Statements(_, _), LogicalOR(_, _), RightChain(_, _),
          LeftChain(_, _, _), Unary(_), Primary(_), Postfix(_, _, _), List(_, _), Filters(_, _),
          FilterArgs(_, _), KeyValues(_, _)

\* functionCall, arrayDeclaration: expressions between commas up to the closing token.
List(tokens, items) ==
    UNION {IF Peek(r.rest, {","}) THEN List(Tail(r.rest), Append(items, r.tree))
                                  ELSE {Read(Append(items, r.tree), r.rest)}
           : r \in Expression(tokens)}
Items(tokens, closing) ==
    IF Peek(tokens, {closing}) THEN {Read(<<>>, Tail(tokens))} ELSE Consume(List(tokens, <<>>), closing)

\* object: keys are strings, names or numbers.
KeyValues(tokens, items) ==
    IF Len(tokens) < 2 \/ ~Peek(Tail(tokens), {":"}) THEN {}
    ELSE UNION {LET entry == Node("entry", tokens[1].keys, <<r.tree>>)
                IN IF Peek(r.rest, {","}) THEN KeyValues(Tail(r.rest), Append(items, entry))
                                          ELSE {Read(Append(items, entry), r.rest)}
                : r \in Expression(From(tokens, 3))}

\* The method called on what context gives: that is set by "." and "[" only, and cleared
\* by a call.
Postfix(primary, context, tokens) ==
    CASE Peek(tokens, {"("}) ->
           UNION {Postfix(Node("call", <<>>, <<primary, context>> \o r.tree), Scope, r.rest)
                  : r \in Items(Tail(tokens), ")")}
      [] Peek(tokens, {"["}) ->
           UNION {Postfix(Node("index", <<>>, <<primary, r.tree>>), primary, r.rest)
                  : r \in Consume(Expression(Tail(tokens)), "]")}
      [] Peek(tokens, {"."}) ->
           IF Len(tokens) < 2 THEN {}
           ELSE Postfix(Node("path", tokens[2].keys, <<primary>>), primary, From(tokens, 3))
      [] OTHER -> {Read(primary, tokens)}

Primary(tokens) ==
    LET first == Head(tokens)
        start == CASE tokens = <<>> -> {}
                   [] Peek(tokens, {"("}) -> Consume(FilterChain(Tail(tokens)), ")")
                   [] Peek(tokens, {"["}) ->
                        {Read(Node("array", <<>>, r.tree), r.rest) : r \in Items(Tail(tokens), "]")}
                   [] Peek(tokens, {"{"}) ->
                        {Read(Node("object", <<>>, r.tree), r.rest)
                         : r \in IF Peek(Tail(tokens), {"}"}) THEN {Read(<<>>, From(tokens, 3))}
                                 ELSE Consume(KeyValues(Tail(tokens), <<>>), "}")}
                   [] first.kind = "ident" -> {Read(Node("path", first.keys, <<Scope>>), Tail(tokens))}
                   [] first.kind \in {"number", "string"} ->
                        {Read(Node(first.kind, first.keys, <<>>), Tail(tokens))}
                   [] first.kind = "op" -> {Read(Node("operator", <<first.text>>, <<>>), Tail(tokens))}
                   [] OTHER -> {}
    IN UNION {Postfix(r.tree, Scope, r.rest) : r \in start}

Unary(tokens) ==
    CASE Peek(tokens, {"+"}) -> Primary(Tail(tokens))
      [] Peek(tokens, {"-"}) -> {Read(Binary("-", Zero, r.tree), r.rest) : r \in Unary(Tail(tokens))}
      [] Peek(tokens, {"!"}) -> {Read(Node("not", <<>>, <<r.tree>>), r.rest) : r \in Unary(Tail(tokens))}
      [] OTHER -> Primary(tokens)

\* multiplicative and additive loop, relational, equality and logicalAND recur.
Level == <<{"&&"}, {"==", "!="}, {"<", ">", "<=", ">="}, {"+", "-"}, {"*", "/", "%"}>>

Operand(level, tokens) ==
    IF level = 5 THEN Unary(tokens) ELSE RightChain(level + 1, tokens)

LeftChain(level, left, tokens) ==
    IF ~Peek(tokens, Level[level]) THEN {Read(left, tokens)}
    ELSE UNION {LeftChain(level, Binary(tokens[1].text, left, r.tree), r.rest)
                : r \in Operand(level, Tail(tokens))}

RightChain(level, tokens) ==
    UNION {IF level > 3 THEN LeftChain(level, r.tree, r.rest)
           ELSE IF ~Peek(r.rest, Level[level]) THEN {r}
           ELSE {Read(Binary(r.rest[1].text, r.tree, s.tree), s.rest)
                 : s \in RightChain(level, Tail(r.rest))}
           : r \in Operand(level, tokens)}

LogicalOR(left, tokens) ==
    UNION {LET tree == IF left = <<>> THEN r.tree ELSE Binary("||", left[1], r.tree)
           IN IF Peek(r.rest, {"||"}) THEN LogicalOR(<<tree>>, Tail(r.rest)) ELSE {Read(tree, r.rest)}
           : r \in RightChain(1, tokens)}

\* expression, assignment: what stands on the left must have an assign.
Expression(tokens) ==
    UNION {CASE ~Peek(r.rest, {"="}) -> {r}
             [] r.tree.op \notin {"path", "index"} -> {}
             [] OTHER -> {Read(Node("assign", <<>>, <<r.tree, s.tree>>), s.rest)
                          : s \in LogicalOR(<<>>, Tail(r.rest))}
           : r \in LogicalOR(<<>>, tokens)}

FilterArgs(tokens, args) ==
    IF ~Peek(tokens, {":"}) THEN {Read(args, tokens)}
    ELSE UNION {FilterArgs(r.rest, Append(args, r.tree)) : r \in Expression(Tail(tokens))}

Filters(left, tokens) ==
    CASE ~Peek(tokens, {"|"}) -> {Read(left, tokens)}
      [] Len(tokens) < 2 -> {}
      [] OTHER -> UNION {Filters(Node("filter", tokens[2].keys, <<left>> \o r.tree), r.rest)
                         : r \in FilterArgs(From(tokens, 3), <<>>)}

FilterChain(tokens) == UNION {Filters(r.tree, r.rest) : r \in Expression(tokens)}

Statements(tokens, found) ==
    UNION {IF Peek(r.rest, {";"}) THEN Statements(Tail(r.rest), r.tree) ELSE {r}
           : r \in IF tokens = <<>> \/ Peek(tokens, {"}", ")", ";", "]"})
                   THEN {Read(found, tokens)}
                   ELSE {Read(Append(found, s.tree), s.rest) : s \in FilterChain(tokens)}}

parser(text) ==
    {IF Len(r.tree) = 1 THEN r.tree[1] ELSE Node("block", <<>>, r.tree)
     : r \in {s \in Statements(lex(text), <<>>) : s.rest = <<>>}}

------------------------------------------------------------------------------
(* Paths. A value is undefined, an atom, an object or a promise, whose value  *)
(* is undefined until it was read once and has resolved.                      *)

Value(kind, fields) == [kind |-> kind, fields |-> fields]
Missing == Value("undefined", <<>>)
Atom == Value("atom", <<>>)

Property(value, key) == IF key \in DOMAIN value.fields THEN value.fields[key] ELSE Missing
Unwrap(value) == IF value.kind = "promise" THEN Property(value, "$$v") ELSE value

\* The code getterFn generates for a path.
getterFn(path, scope, locals) ==
    FoldLeft(LAMBDA value, key : IF value.kind = "undefined" THEN value ELSE Unwrap(Property(value, key)),
             IF path[1] \in DOMAIN locals.fields THEN locals ELSE scope, path)

\* cspSafeGetterFn: up to five keys at a time, where an absent key ends it.
RECURSIVE CspSafe(_, _, _), CspChunks(_, _, _)
CspSafe(keys, k, value) ==
    IF k > 5 \/ k > Len(keys) \/ value.kind = "undefined" THEN value
    ELSE CspSafe(keys, k + 1, Unwrap(Property(value, keys[k])))
CspChunks(path, scope, locals) ==
    LET value == CspSafe(path, 1, IF path[1] \in DOMAIN locals.fields THEN locals ELSE scope)
    IN IF Len(path) <= 5 THEN value ELSE CspChunks(From(path, 6), value, Missing)

\* setter: makes the objects that are missing on the way.
RECURSIVE setter(_, _, _)
setter(obj, path, value) ==
    LET key == Head(path)
        old == Property(obj, key)
        new == IF Len(path) = 1 THEN value
               ELSE setter(IF old.kind = "undefined" THEN Value("object", <<>>) ELSE old, Tail(path), value)
    IN [obj EXCEPT !.fields = [k \in DOMAIN @ \cup {key} |-> IF k = key THEN new ELSE @[k]]]

------------------------------------------------------------------------------
(* What the parser is checked against: the text of a tree, with parentheses   *)
(* where the operators' precedence calls for them.                            *)

Path(object, key) == Node("path", <<key>>, <<object>>)
Call(fn, args) ==
    Node("call", <<>>, <<fn, IF fn.op \in {"path", "index"} THEN fn.kids[1] ELSE Scope>> \o args)

Precedence(tree) ==
    CASE tree.op = "filter" -> 0
      [] tree.op = "assign" -> 1
      [] tree.op = "binary" ->
           CASE tree.text = <<"||">> -> 2
             [] tree.text = <<"-">> /\ tree.kids[1] = Zero -> 8
             [] OTHER -> 2 + CHOOSE level \in 1 .. 5 : tree.text[1] \in Level[level]
      [] tree.op = "not" -> 8
      [] OTHER -> 9

Spelling(fn) ==
    CASE fn = "&&" -> <<"&", "&">> [] fn = "||" -> <<"|", "|">> [] fn = "==" -> <<"=", "=">>
      [] fn = "<=" -> <<"<", "=">> [] OTHER -> <<fn>>

Escaped(char) ==
    CASE char = "newline" -> <<"\\", "n">>
      [] char = "004a" -> <<"\\", "u", "0", "0", "4", "a">>
      [] char \in {"'", "\\"} -> <<"\\", char>>
      [] OTHER -> <<char>>

\* A tree where something of at least this precedence is due, with gap around its signs.
RECURSIVE Written(_, _, _)
Written(tree, atLeast, gap) ==
    LET kids == tree.kids
        n == Precedence(tree)
        Sign(chars) == gap \o chars \o gap
        Kid(i, p) == Written(kids[i], p, gap)
        Between(items, sign) ==
            FlattenSeq([i \in DOMAIN items |->
                (IF i = 1 THEN <<>> ELSE Sign(<<sign>>)) \o Written(items[i], 1, gap)])
        Comparison == n \in {4, 5}
        text ==
            CASE tree.op = "path" /\ kids[1] = Scope -> tree.text
              [] tree.op = "path" /\ kids[1] # Scope -> Kid(1, 9) \o <<".">> \o tree.text
              [] tree.op = "number" -> tree.text
              [] tree.op = "string" ->
                   <<"'">> \o FlattenSeq([i \in DOMAIN tree.text |-> Escaped(tree.text[i])]) \o <<"'">>
              [] tree.op = "binary" /\ n = 8 -> <<"-">> \o Kid(2, 8)
              [] tree.op = "binary" /\ n # 8 ->
                   Kid(1, IF Comparison \/ n = 3 THEN n + 1 ELSE n) \o Sign(Spelling(tree.text[1]))
                       \o Kid(2, IF n = 3 THEN n ELSE n + 1)
              [] tree.op = "not" -> <<"!">> \o Kid(1, 8)
              [] tree.op = "assign" -> Kid(1, 2) \o Sign(<<"=">>) \o Kid(2, 2)
              [] tree.op = "index" -> Kid(1, 9) \o Sign(<<"[">>) \o Kid(2, 1) \o Sign(<<"]">>)
              [] tree.op = "call" ->
                   Kid(1, 9) \o Sign(<<"(">>) \o Between(From(kids, 3), ",") \o Sign(<<")">>)
              [] tree.op = "array" -> Sign(<<"[">>) \o Between(kids, ",") \o Sign(<<"]">>)
              [] tree.op = "object" -> Sign(<<"{">>) \o Between(kids, ",") \o Sign(<<"}">>)
              [] tree.op = "entry" -> tree.text \o Sign(<<":">>) \o Kid(1, 1)
              [] tree.op = "filter" ->
                   Kid(1, 0) \o Sign(<<"|">>) \o tree.text
                       \o FlattenSeq([i \in 1 .. Len(kids) - 1 |-> Sign(<<":">>) \o Kid(i + 1, 1)])
              [] tree.op = "block" ->
                   FlattenSeq([i \in DOMAIN kids |-> Kid(i, 0) \o Sign(<<";">>)])
    IN IF n < atLeast THEN <<"(">> \o text \o <<")">> ELSE text

\* Paths of several keys as they are read, one key at a time.
RECURSIVE Unfolded(_)
Unfolded(tree) ==
    LET kids == [i \in DOMAIN tree.kids |-> Unfolded(tree.kids[i])]
    IN IF tree.op = "path" THEN FoldLeft(Path, kids[1], tree.text) ELSE [tree EXCEPT !.kids = kids]

Brackets == {"(", ")", "[", "]", "{", "}"}

\* A text is read as the tree it was written for: names, calls on what the name before
\* the last one gives, and operators group as in JavaScript; and a text that lacks one
\* of its brackets is refused.
ReadsBack(tree, gap) ==
    LET text == Written(tree, 0, gap)
        strings == \E i \in DOMAIN text : text[i] = "'"
    IN /\ {Unfolded(t) : t \in parser(text)} = {tree}
       /\ \A i \in DOMAIN text : text[i] \in Brackets /\ ~strings => parser(RemoveAt(text, i)) = {}

\* What is assigned to a path is what is read there next, by the generated function and
\* by the one that needs no code generation, which agree on every other path as well; and
\* where neither path leads to the other, nothing else is changed.
PathsKept(scope, locals, path, other) ==
    LET set == setter(scope, path, Atom)
    IN /\ getterFn(path, set, Missing) = Atom
       /\ \A s \in {scope, set} : getterFn(other, s, locals) = CspChunks(other, s, locals)
       /\ ~IsPrefix(path, other) /\ ~IsPrefix(other, path) =>
              getterFn(other, set, Missing) = getterFn(other, scope, Missing)
=============================================================================
