----------------------------- MODULE StoreText -----------------------------
(***************************************************************************)
(* The store keeps a namespace, a tuple of labels, as one text in the      *)
(* column prefix, and every query about namespaces is a LIKE on that text  *)
(* (store/mysql/base.py).  A text is the sequence of its character codes,  *)
(* a label is a text without dots and without LIKE's special characters.   *)
(***************************************************************************)
EXTENDS Ordering, SequencesExt

Dot == 46
Percent == 37
Star == <<42>>      \* the label "*" of a match condition
Unlimited == -1     \* max_depth = None

\* _namespace_to_text: the labels joined with dots.
NamespaceText(ns) ==
    LET text[n \in 0..Len(ns)] ==
            IF n = 0 THEN <<>>
            ELSE IF n = 1 THEN ns[1] ELSE text[n - 1] \o <<Dot>> \o ns[n]
    IN text[Len(ns)]

\* _namespace_to_text(handle_wildcards=True).
PatternText(path) ==
    NamespaceText([i \in DOMAIN path |-> IF path[i] = Star THEN <<Percent>> ELSE path[i]])

Dots(text) ==
    LET S == {i \in DOMAIN text : text[i] = Dot}
    IN InOrder(S, {p \in S \X S : p[1] < p[2]})

\* _decode_ns_bytes: namespace.split(".").
DecodeText(text) ==
    LET cut == <<0>> \o Dots(text) \o <<Len(text) + 1>>
    IN [n \in 1..(Len(cut) - 1) |-> SubSeq(text, cut[n] + 1, cut[n + 1] - 1)]

\* Mutant: one label too many.
SubstringIndexOneMore(text, depth) ==
    IF depth = Unlimited \/ Len(Dots(text)) <= depth
    THEN text
    ELSE SubSeq(text, 1, Dots(text)[depth + 1] - 1)

\* SUBSTRING_INDEX(prefix, '.', max_depth): the text before the max_depth-th dot.
SubstringIndex(text, depth) ==
    IF depth = Unlimited \/ Len(Dots(text)) < depth
    THEN text
    ELSE SubSeq(text, 1, Dots(text)[depth] - 1)

\* text LIKE pattern (external): % stands for any characters.
Like(text, pattern) ==
    LET match[i \in 1..(Len(text) + 1), j \in 1..(Len(pattern) + 1)] ==
            IF j > Len(pattern) THEN i > Len(text)
            ELSE IF pattern[j] = Percent
                 THEN match[i, j + 1] \/ (i <= Len(text) /\ match[i + 1, j])
                 ELSE i <= Len(text) /\ text[i] = pattern[j] /\ match[i + 1, j + 1]
    IN match[1, 1]

\* ORDER BY and <, > on texts (external): character by character.
TextLess(s, t) ==
    \E i \in 1..Len(t) :
        /\ i <= Len(s) + 1
        /\ \A j \in 1..(i - 1) : s[j] = t[j]
        /\ i = Len(s) + 1 \/ s[i] < t[i]

\* str(value) and CAST(... AS CHAR) of a number below 100.
Chars(n) == IF n < 10 THEN <<48 + n>> ELSE <<48 + (n \div 10), 48 + (n % 10)>>

\* _get_filter_condition: a value is compared for equality as JSON and for
\* order as text.
FilterPasses(value, filter) ==
    CASE filter.op = "$eq"  -> value = filter.value
      [] filter.op = "$ne"  -> value # filter.value
      [] filter.op = "$gt"  -> TextLess(Chars(filter.value), Chars(value))
      [] filter.op = "$gte" -> ~TextLess(Chars(value), Chars(filter.value))
      [] filter.op = "$lt"  -> TextLess(Chars(value), Chars(filter.value))
      [] filter.op = "$lte" -> ~TextLess(Chars(filter.value), Chars(value))

=============================================================================
