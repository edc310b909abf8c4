---------------------------------- MODULE Json --------------------------------
(* json2.js: JSON.stringify and JSON.parse where the browser has none. A value  *)
(* is <<type, v>>: a number, a string (a sequence of characters), an array (a   *)
(* sequence of values), an object (a sequence of <<key, value>>). A date has a  *)
(* toJSON, and so has what is nested: its toJSON calls JSON.stringify itself.   *)
(* A text is a sequence of tokens; a string in it has characters <<form, c>>,   *)
(* plain or escaped. The characters: "q", a quote; "n", the end of a line; "z", *)
(* one of those that JavaScript drops; any other one.                           *)
EXTENDS Integers, SequencesExt, FiniteSets

CONSTANT Null

Mark(m) == <<"mark", m>>
Word(w) == <<"word", w>>
Layout(token) == token[1] = "gap"
Str(c) == <<"string", <<c>>>>

------------------------------------------------------------------------------
(* stringify. gap, indent and rep are variables of the library: state is        *)
(* [gap, indent, rep, thrown]. rep is [kind, keys]: none, a function that       *)
(* doubles numbers, or a list of keys.                                          *)

quote(string) ==
    [i \in DOMAIN string |->
        CASE string[i] \in {"q", "n"} -> <<"meta", string[i]>>
          [] string[i] = "z" -> <<"unicode", string[i]>>
          [] OTHER -> <<"plain", string[i]>>]

NoRep == [kind |-> "none", keys |-> <<>>]
Started(rep, space) == [gap |-> 0, indent |-> space, rep |-> rep, thrown |-> FALSE]

\* toJSON, which may leave other variables behind; then the function rep.
Prepared(value, state) ==
    CASE value[1] = "date" -> [value |-> Str("d"), state |-> state]
      [] value[1] = "nested" -> [value |-> Str("x"), state |-> [Started(NoRep, 0) EXCEPT !.thrown = state.thrown]]
      [] value[1] = "number" /\ state.rep.kind = "function" -> [value |-> <<"number", 2 * value[2]>>, state |-> state]
      [] OTHER -> [value |-> value, state |-> state]

\* Brackets around the parts and commas between them, on lines of their own if there is a gap.
Enclosed(open, close, parts, gap, mind) ==
    LET line(n) == IF gap > 0 THEN <<<<"gap", n>>>> ELSE <<>>
        joined == FlattenSeq([i \in DOMAIN parts |->
                      (IF i = 1 THEN line(gap) ELSE <<Mark(",")>> \o line(gap)) \o parts[i]])
    IN IF parts = <<>> THEN <<Mark(open), Mark(close)>> ELSE <<Mark(open)>> \o joined \o line(mind) \o <<Mark(close)>>

Members(object, key) == SelectSeq(object, LAMBDA m : m[1] = key)

\* str: [text, state]; the text is Null for what has none.
RECURSIVE str(_, _)
str(holder, before) ==
    LET p == Prepared(holder, before)
        type == p.value[1]
        v == p.value[2]
        inner == [p.state EXCEPT !.gap = @ + p.state.indent]
        Element(st, e) ==
            LET r == str(e, st.state)
            IN [parts |-> Append(st.parts, IF r.text = Null THEN <<Word("null")>> ELSE r.text), state |-> r.state]
        Member(st, m) ==
            LET r == str(m[2], st.state)
            IN [parts |-> IF r.text = Null THEN st.parts
                          ELSE Append(st.parts, <<<<"string", quote(<<m[1]>>)>>, Mark(":")>> \o r.text),
                state |-> r.state]
        Listed(st, key) ==
            IF st.state.rep.kind # "list" THEN [st EXCEPT !.state.thrown = TRUE]
            ELSE IF Members(v, key) = <<>> THEN st ELSE Member(st, Members(v, key)[1])
        Ended(open, close, st) ==
            [text |-> Enclosed(open, close, st.parts, st.state.gap, before.gap),
             state |-> [st.state EXCEPT !.gap = before.gap]]
        none == [parts |-> <<>>, state |-> inner]
    IN CASE type = "string" -> [text |-> <<<<"string", quote(v)>>>>, state |-> p.state]
         [] type = "number" -> [text |-> <<p.value>>, state |-> p.state]
         [] type = "NaN" -> [text |-> <<Word("null")>>, state |-> p.state]
         [] type = "word" -> [text |-> <<p.value>>, state |-> p.state]
         [] type = "array" -> Ended("[", "]", FoldLeft(Element, none, v))
         [] type = "object" -> Ended("{", "}", IF inner.rep.kind = "list" THEN FoldLeft(Listed, none, inner.rep.keys)
                                               ELSE FoldLeft(Member, none, v))
         [] OTHER -> [text |-> Null, state |-> p.state]

stringify(value, rep, space) == str(value, Started(rep, space))

------------------------------------------------------------------------------
(* parse. What eval makes of a text is the language's: arrays may have holes,   *)
(* commas may stand at the end or between values, keys may be numbers, and a    *)
(* bracket behind a value takes a member of it.                                 *)

Escaped(text) ==
    [i \in DOMAIN text |->
        IF text[i][1] # "string" THEN text[i]
        ELSE <<"string", [c \in DOMAIN text[i][2] |->
                 IF text[i][2][c] = <<"plain", "z">> THEN <<"unicode", "z">> ELSE text[i][2][c]]>>]

\* The test before eval: literals, and brackets that open only at the start or after : and ,.
Harmless(text) ==
    \A i \in DOMAIN text :
        /\ text[i][1] = "string" => \A c \in ToSet(text[i][2]) : c \notin {<<"plain", "q">>, <<"plain", "n">>}
        /\ text[i] = Mark("[") => i = 1 \/ text[i - 1] \in {Mark("["), Mark(":"), Mark(",")}
        /\ text[i] # Mark("(")

Unquoted(string) == LET kept == SelectSeq(string, LAMBDA c : c # <<"plain", "z">>)
                    IN [i \in DOMAIN kept |-> kept[i][2]]

With(v, F(_)) == CHOOSE r \in {F(x) : x \in {v}} : TRUE
Put(object, key, value) ==
    IF Members(object, key) = <<>> THEN Append(object, <<key, value>>)
    ELSE [i \in DOMAIN object |-> IF object[i][1] = key THEN <<key, value>> ELSE object[i]]

\* Of the text from place i on: [value, next], or Null.
At(text, i, m) == i <= Len(text) /\ text[i] = Mark(m)
RECURSIVE Read(_, _), ReadItems(_, _, _), ReadMembers(_, _, _), Indexed(_, _), ReadList(_, _)
Indexed(text, r) ==
    IF r = Null THEN r
    ELSE IF At(text, r.next, "[")
         THEN With(ReadList(text, r.next + 1), LAMBDA q :
                  IF q # Null /\ At(text, q.next, "]") THEN Indexed(text, [value |-> <<"undefined", 0>>, next |-> q.next + 1])
                  ELSE Null)
    ELSE r
ReadList(text, i) ==
    With(Read(text, i), LAMBDA r : IF r # Null /\ At(text, r.next, ",") THEN ReadList(text, r.next + 1) ELSE r)
Read(text, i) == Indexed(text,
    IF i > Len(text) THEN Null
    ELSE CASE text[i][1] = "string" -> [value |-> <<"string", Unquoted(text[i][2])>>, next |-> i + 1]
           [] text[i][1] \in {"number", "word"} -> [value |-> text[i], next |-> i + 1]
           [] text[i] = Mark("[") -> ReadItems(text, i + 1, <<>>)
           [] text[i] = Mark("{") -> ReadMembers(text, i + 1, <<>>)
           [] OTHER -> Null)
ReadItems(text, i, items) ==
    IF i > Len(text) THEN Null
    ELSE CASE text[i] = Mark("]") -> [value |-> <<"array", items>>, next |-> i + 1]
           [] text[i] = Mark(",") -> ReadItems(text, i + 1, Append(items, <<"undefined", 0>>))
           [] OTHER -> With(Read(text, i), LAMBDA r :
                  IF r = Null THEN Null
                  ELSE IF At(text, r.next, ",") THEN ReadItems(text, r.next + 1, Append(items, r.value))
                  ELSE IF At(text, r.next, "]") THEN ReadItems(text, r.next, Append(items, r.value)) ELSE Null)
ReadMembers(text, i, members) ==
    IF i > Len(text) THEN Null
    ELSE CASE text[i] = Mark("}") -> [value |-> <<"object", members>>, next |-> i + 1]
           [] text[i][1] \in {"string", "number"} /\ i < Len(text) /\ text[i + 1] = Mark(":") ->
                  With(Read(text, i + 2), LAMBDA r :
                      IF r = Null THEN Null
                      ELSE LET key == IF text[i][1] = "string" THEN Unquoted(text[i][2])[1] ELSE "number"
                               now == Put(members, key, r.value)
                           IN IF At(text, r.next, ",") THEN ReadMembers(text, r.next + 1, now)
                              ELSE IF At(text, r.next, "}") THEN ReadMembers(text, r.next, now) ELSE Null)
           [] OTHER -> Null
eval(text) == With(ReadList(text, 1), LAMBDA r : IF r # Null /\ r.next > Len(text) THEN r.value ELSE Null)

\* walk, with a reviver that halves numbers, and one that drops what is null.
RECURSIVE walk(_, _)
walk(value, reviver) ==
    LET Kept(r) == r # <<"undefined", 0>>
    IN CASE value[1] = "number" /\ reviver = "halve" -> <<"number", value[2] \div 2>>
         [] value = Word("null") /\ reviver = "drop" -> <<"undefined", 0>>
         [] value[1] = "array" -> <<"array", [i \in DOMAIN value[2] |-> walk(value[2][i], reviver)]>>
         [] value[1] = "object" ->
              <<"object", SelectSeq([i \in DOMAIN value[2] |-> <<value[2][i][1], walk(value[2][i][2], reviver)>>],
                                    LAMBDA m : Kept(m[2]))>>
         [] OTHER -> value

\* The value, or Null where it throws.
parse(text, reviver) ==
    With(SelectSeq(Escaped(text), LAMBDA token : ~Layout(token)), LAMBDA t :
        IF ~Harmless(t) THEN Null
        ELSE With(eval(t), LAMBDA j : IF j = Null \/ reviver = Null THEN j ELSE walk(j, reviver)))

------------------------------------------------------------------------------
(* Properties.                                                                *)

Textless(value) == value[1] \in {"undefined", "function"}

\* What of a value goes into its text.
RECURSIVE Kept(_, _)
Kept(value, rep) ==
    CASE value[1] = "date" -> Str("d")
      [] value[1] = "nested" -> Str("x")
      [] value[1] = "NaN" -> Word("null")
      [] value[1] = "array" -> <<"array", [i \in DOMAIN value[2] |->
             IF Textless(value[2][i]) THEN Word("null") ELSE Kept(value[2][i], rep)]>>
      [] value[1] = "object" ->
             LET first(k) == \A l \in 1 .. k - 1 : rep.keys[l] # rep.keys[k]
                 listed == FlattenSeq([k \in DOMAIN rep.keys |-> IF first(k) THEN Members(value[2], rep.keys[k]) ELSE <<>>])
                 some == SelectSeq(IF rep.kind = "list" THEN listed ELSE value[2], LAMBDA m : ~Textless(m[2]))
             IN <<"object", [i \in DOMAIN some |-> <<some[i][1], Kept(some[i][2], rep)>>]>>
      [] OTHER -> value

RECURSIVE Nests(_)
Nests(value) ==
    \/ value[1] = "nested"
    \/ value[1] = "array" /\ \E i \in DOMAIN value[2] : Nests(value[2][i])
    \/ value[1] = "object" /\ \E i \in DOMAIN value[2] : Nests(value[2][i][2])

\* parse reads what stringify wrote, with any replacer whose work the reviver undoes, and
\* with any space; a toJSON that calls stringify does no harm where there is no replacer; and
\* what a reviver drops is no member any more (json2.js: str, quote, parse, walk).
TextReadBack(value, rep, space) ==
    rep = NoRep \/ ~Nests(value) =>
        \A r \in {stringify(value, rep, space)} :
            /\ ~r.state.thrown
            /\ r.text = Null <=> Textless(value)
            /\ r.text # Null =>
                  /\ parse(r.text, IF rep.kind = "function" THEN "halve" ELSE Null) = Kept(value, rep)
                  /\ \A again \in {stringify(parse(r.text, "drop"), NoRep, 0).text} :
                        again # Null => \A i \in 2 .. Len(again) : again[i] = Word("null") => again[i - 1] # Mark(":")

\* Places where eval takes what JSON does not have: commas that join no two parts of an array
\* or object, numbers for keys, keys that come again.
Lax(text) ==
    LET depth(i) == Len(SelectSeq(SubSeq(text, 1, i), LAMBDA t : t \in {Mark("["), Mark("{")}))
                      - Len(SelectSeq(SubSeq(text, 1, i), LAMBDA t : t \in {Mark("]"), Mark("}")}))
    IN \E i \in DOMAIN text :
           \/ /\ text[i] = Mark(",")
              /\ depth(i) = 0 \/ i = 1 \/ i = Len(text) \/ text[i - 1] \in {Mark("["), Mark(",")}
                   \/ text[i + 1] \in {Mark("]"), Mark("}")}
           \/ text[i] = Mark(":") /\ i > 1 /\ text[i - 1][1] = "number"
           \/ \E j \in 1 .. i - 1 : i < Len(text) /\ text[i] = text[j] /\ text[i + 1] = Mark(":") /\ text[j + 1] = Mark(":")

\* What parse takes is what stringify writes of it, but for these, and is never indexed or
\* called (json2.js: the test before eval).
TakesJsonOnly(text) ==
    \A value \in {parse(text, Null)} :
        /\ value # Null /\ ~Lax(text) => stringify(value, NoRep, 0).text = text
        /\ value # Null => \A i \in 2 .. Len(text) : text[i] = Mark("[") => text[i - 1][1] = "mark"
=============================================================================
