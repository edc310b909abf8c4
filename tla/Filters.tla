------------------------------- MODULE Filters -------------------------------
(* The filters of angular-1.0.0.js that arrange lists and write numbers and   *)
(* dates.                                                                     *)
EXTENDS Integers, FiniteSets, SequencesExt

Digit == <<"0", "1", "2", "3", "4", "5", "6", "7", "8", "9">>

DigitsOf[n \in Nat] == IF n < 10 THEN <<Digit[n + 1]>> ELSE DigitsOf[n \div 10] \o <<Digit[(n % 10) + 1]>>

------------------------------------------------------------------------------
(* filter, orderBy, limitTo. A value is a text, a number or the fields of an  *)
(* object.                                                                    *)

HasPart(text, part) ==
    \E i \in 0 .. Len(text) - Len(part) : SubSeq(text, i + 1, i + Len(part)) = part

\* search: "!" negates, "$" fields are not looked at.
RECURSIVE search(_, _)
search(value, text) ==
    CASE text # <<>> /\ text[1] = "!" -> ~search(value, Tail(text))
      [] (text = <<>> \/ text[1] # "!") /\ value.type \in {"string", "number"} -> HasPart(value.text, text)
      [] (text = <<>> \/ text[1] # "!") /\ value.type = "object" ->
           \E key \in DOMAIN value.fields \ {"$private"} : search(value.fields[key], text)
      [] OTHER -> FALSE

Nothing == [type |-> "undefined"]
Field(value, key) ==
    IF value.type = "object" /\ key \in DOMAIN value.fields THEN value.fields[key] ELSE Nothing

\* filterFilter: every text that is not empty must be found, that of "$" anywhere.
filterFilter(array, expression) ==
    SelectSeq(array, LAMBDA value : \A key \in DOMAIN expression :
        expression[key] = <<>> \/ search(IF key = "$" THEN value ELSE Field(value, key), expression[key]))

\* compare: by type, then by value, of texts in lower case: their place in Lower.
TypeOrder == <<"number", "object", "string", "undefined">>
Lower == <<<<>>, <<"a">>, <<"a", "b">>, <<"b">>>>
Place(order, x) == CHOOSE i \in DOMAIN order : order[i] = x
compare(v1, v2) ==
    LET rank(v) == CASE v.type = "number" -> v.value
                     [] v.type = "string" -> Place(Lower, v.text)
                     [] OTHER -> 0
        Sign(a, b) == IF a = b THEN 0 ELSE IF a < b THEN -1 ELSE 1
    IN IF v1.type = v2.type THEN Sign(rank(v1), rank(v2))
       ELSE Sign(Place(TypeOrder, v1.type), Place(TypeOrder, v2.type))

\* The first predicate that tells the two apart; each may be descending, and the whole.
comparator(predicates, o1, o2) ==
    LET by == [i \in DOMAIN predicates |->
                  LET v1 == Field(o1, predicates[i].key)
                      v2 == Field(o2, predicates[i].key)
                  IN IF predicates[i].descending THEN compare(v2, v1) ELSE compare(v1, v2)]
        i == SelectInSeq(by, LAMBDA c : c # 0)
    IN IF i = 0 THEN 0 ELSE by[i]

\* orderByFilter: what sort, which need not be stable, may return for the copy.
orderByFilter(array, predicates, reverse) ==
    {[i \in DOMAIN array |-> array[p[i]]] : p \in
        {p \in [DOMAIN array -> DOMAIN array] :
            /\ \A i, j \in DOMAIN array : i # j => p[i] # p[j]
            /\ \A i \in 1 .. Len(array) - 1 :
                   LET c == IF reverse THEN comparator(predicates, array[p[i + 1]], array[p[i]])
                                       ELSE comparator(predicates, array[p[i]], array[p[i + 1]])
                   IN c <= 0}}

limitToFilter(array, limit) ==
    LET n == IF limit > Len(array) THEN Len(array)
             ELSE IF limit < -Len(array) THEN -Len(array) ELSE limit
    IN IF n > 0 THEN SubSeq(array, 1, n) ELSE SubSeq(array, Len(array) + n + 1, Len(array))

------------------------------------------------------------------------------
(* Numbers, in thousandths.                                                   *)

Power == <<1, 10, 100, 1000>>

\* The fraction as number + '' writes it.
RECURSIVE Trimmed(_)
Trimmed(digits) == IF digits # <<>> /\ Last(digits) = "0" THEN Trimmed(Front(digits)) ELSE digits

Padded(digits, n) == [i \in 1 .. (IF n > Len(digits) THEN n - Len(digits) ELSE 0) |-> "0"] \o digits

\* Mutant: every group is as long as the last one.
GroupedEvenly(whole, pattern) ==
    LET n == Len(whole)
    IN FlattenSeq([k \in 1 .. n |-> IF k # 1 /\ (n - k + 1) % pattern.lgSize = 0 THEN <<",", whole[k]>>
                                    ELSE <<whole[k]>>])

\* The digits of whole with separators: groups of gSize before the last of lgSize.
Grouped(whole, pattern) ==
    LET n == Len(whole)
        pos == IF n >= pattern.lgSize + pattern.gSize THEN n - pattern.lgSize ELSE 0
        Cut(i) == i # 0 /\ IF i < pos THEN (pos - i) % pattern.gSize = 0 ELSE (n - i) % pattern.lgSize = 0
    IN FlattenSeq([k \in 1 .. n |-> IF Cut(k - 1) THEN <<",", whole[k]>> ELSE <<whole[k]>>])

\* Unset: no fractionSize is given, and the pattern says how many digits may stand there.
Unset == -1
formatNumber(number, pattern, fractionSize) ==
    LET abs == IF number < 0 THEN -number ELSE number
        length == Len(Trimmed(Padded(DigitsOf[abs % 1000], 3)))
        atLeast == IF length > pattern.minFrac THEN length ELSE pattern.minFrac
        size == IF fractionSize # Unset THEN fractionSize
                ELSE IF atLeast < pattern.maxFrac THEN atLeast ELSE pattern.maxFrac
        pow == Power[size + 1]
        unit == Power[4 - size]
        rounded == (abs + unit \div 2) \div unit
        fraction == Padded(DigitsOf[rounded % pow], size)
    IN (IF number < 0 THEN <<"-">> ELSE <<>>) \o Grouped(DigitsOf[rounded \div pow], pattern)
          \o (IF size = 0 THEN <<>> ELSE <<".">> \o fraction)

------------------------------------------------------------------------------
(* Dates, in local time.                                                      *)

\* padNumber, of a number that is not negative.
padNumber(num, digits, trim) ==
    LET padded == Padded(DigitsOf[num], digits)
    IN IF trim THEN SubSeq(padded, Len(padded) - digits + 1, Len(padded)) ELSE padded

dateGetter(date, name, size, offset, trim) ==
    LET value == IF offset > 0 \/ date[name] > -offset THEN date[name] + offset ELSE date[name]
    IN padNumber(IF value = 0 /\ offset = -12 THEN 12 ELSE value, size, trim)

\* Months are counted from 0.
DATE_FORMATS(date, part) ==
    CASE part = "yyyy" -> dateGetter(date, "FullYear", 4, 0, FALSE)
      [] part = "yy" -> dateGetter(date, "FullYear", 2, 0, TRUE)
      [] part = "y" -> dateGetter(date, "FullYear", 1, 0, FALSE)
      [] part = "MM" -> dateGetter(date, "Month", 2, 1, FALSE)
      [] part = "M" -> dateGetter(date, "Month", 1, 1, FALSE)
      [] part = "dd" -> dateGetter(date, "Date", 2, 0, FALSE)
      [] part = "d" -> dateGetter(date, "Date", 1, 0, FALSE)
      [] part = "HH" -> dateGetter(date, "Hours", 2, 0, FALSE)
      [] part = "H" -> dateGetter(date, "Hours", 1, 0, FALSE)
      [] part = "hh" -> dateGetter(date, "Hours", 2, -12, FALSE)
      [] part = "h" -> dateGetter(date, "Hours", 1, -12, FALSE)
      [] part = "mm" -> dateGetter(date, "Minutes", 2, 0, FALSE)
      [] part = "a" -> IF date.Hours < 12 THEN <<"A", "M">> ELSE <<"P", "M">>

------------------------------------------------------------------------------
(* What they are checked against.                                             *)

Number(digits) == FoldLeft(LAMBDA n, d : 10 * n + Place(Digit, d) - 1, 0, digits)
IsDigit(c) == c \in ToSet(Digit)

\* A number is written as the decimal nearest to it that has the digits asked for, and
\* its separators stand where the groups, counted from the decimal point, meet.
NumberRead(number, pattern, fractionSize) ==
    LET text == formatNumber(number, pattern, fractionSize)
        point == SelectInSeq(text, LAMBDA c : c = ".")
        whole == IF point = 0 THEN text ELSE SubSeq(text, 1, point - 1)
        size == IF point = 0 THEN 0 ELSE Len(text) - point
        abs == IF number < 0 THEN -number ELSE number
        error == Number(SelectSeq(text, IsDigit)) * Power[4 - size] - abs
        digitsAfter(i) == Cardinality({j \in i .. Len(whole) : IsDigit(whole[j])})
    IN /\ -Power[4 - size] <= 2 * error /\ 2 * error <= Power[4 - size]
       /\ size \in IF fractionSize # Unset THEN {fractionSize} ELSE pattern.minFrac .. pattern.maxFrac
       /\ \A i \in DOMAIN whole : IsDigit(whole[i]) /\ i > 1 /\ whole[i - 1] # "-" =>
              (whole[i - 1] = ","
                 <=> \E k \in 0 .. 9 : digitsAfter(i) = pattern.lgSize + k * pattern.gSize)

\* Two different times of day are written differently in either clock, and dates in full
\* sort like the moments they stand for.
TimesTold(date, other) ==
    LET Told(d, hour) == <<DATE_FORMATS(d, hour), DATE_FORMATS(d, "a"), DATE_FORMATS(d, "mm")>>
        InFull(d) == FlattenSeq([i \in 1 .. 5 |->
                         DATE_FORMATS(d, <<"yyyy", "MM", "dd", "HH", "mm">>[i])])
        Moment(d) == <<d.FullYear, d.Month, d.Date, d.Hours, d.Minutes>>
        First(s, t) == CHOOSE i \in DOMAIN s : s[i] # t[i] /\ \A j \in 1 .. i - 1 : s[j] = t[j]
        Sorted(s, t) == Place(Digit, s[First(s, t)]) < Place(Digit, t[First(s, t)])
        Earlier(s, t) == s[First(s, t)] < t[First(s, t)]
    IN Moment(date) # Moment(other) =>
           /\ Len(InFull(date)) = Len(InFull(other)) /\ InFull(date) # InFull(other)
           /\ Sorted(InFull(date), InFull(other)) <=> Earlier(Moment(date), Moment(other))
           /\ <<date.Hours, date.Minutes>> # <<other.Hours, other.Minutes>> =>
                  \A hour \in {"h", "hh", "H", "HH"} : Told(date, hour) # Told(other, hour)

\* A page of an ordered list that is filtered: exactly the rows that match, none twice,
\* each as its order says, whatever ties the sort breaks in whatever way; and the first
\* rows and the last ones make up the whole.
PageShown(array, expression, predicates, reverse, limit) ==
    LET found == filterFilter(array, expression)
    IN \A page \in orderByFilter(found, predicates, reverse) :
           /\ \A i, j \in DOMAIN page :
                  LET c == comparator(predicates, page[i], page[j])
                  IN i < j => IF reverse THEN c >= 0 ELSE c <= 0
           /\ \A row \in ToSet(array) :
                  Cardinality({i \in DOMAIN page : page[i] = row})
                    = IF \A key \in DOMAIN expression : expression[key] = <<>> \/
                             search(IF key = "$" THEN row ELSE Field(row, key), expression[key])
                      THEN Cardinality({i \in DOMAIN array : array[i] = row}) ELSE 0
           /\ limit \in 1 .. Len(page) - 1 =>
                  limitToFilter(page, limit) \o limitToFilter(page, limit - Len(page)) = page
=============================================================================
