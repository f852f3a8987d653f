---------------------------- MODULE QueryLanguage ----------------------------
(***************************************************************************)
(* The Query parser of query_parser.cpp on the tokens of AuthoredText.  A  *)
(* predicate is known by the position it starts at, so that the operands   *)
(* of "and", "or" and "not" are sets of positions and a Query is one flat  *)
(* table of predicates.  Of an error only its presence is kept.            *)
(***************************************************************************)
EXTENDS AuthoredText

CONSTANT Calendar           \* the Journal Dates, oldest first

AnchorTokens == Names \cup DOMAIN References

\* The predicates that relate a Block to an anchored one.
Relations == {"child-of", "descendant-of", "parent-of", "ancestor-of",
              "page-links-to", "block-references", "linked-by", "block-referenced-by"}

\* The word behind each of the predicates that take one, and what an escape stands for.
Comparisons == {"=", "<", "<=", ">", ">="}
Arguments ==
    [type |-> {"entry", "page"}] @@ ("page-context" :> {"named", "journal"})
        @@ ("journal-date" :> Comparisons) @@ ("in-page-subtree" :> Names)
        @@ [name \in {"property-exists", "property-equals"} |-> Range(PropertyKeys)]
        @@ [name \in Relations |-> AnchorTokens \cup {"self"}]
Anchored == Relations \cup {"in-page-subtree"}
Escapes == ("\"" :> "\"") @@ ("\\" :> "\\") @@ ("n" :> "\n")
Numerals == ("0" :> 0) @@ ("1" :> 1) @@ ("2" :> 2) @@ ("3" :> 3)
SortKeys == {"update-time", "creation-time", "journal-date"}

\* A predicate ends before the position next, which is 0 when it does not parse.
Predicate(kind, next) ==
    [kind |-> kind, next |-> next, operands |-> {}, word |-> "", value |-> <<>>, anchor |-> 0]
Failed == Predicate("none", 0)

\* The token at a position, up to the last one that is not a separator.
TokenAt(text, i) == IF i \in 1 .. TextEnd(text) THEN text[i] ELSE ""
SkipSeparators(text, i) == Min({j \in i .. Len(text) : text[j] \notin Separators}
                               \cup {Max({i, Len(text) + 1})})

\* An atom runs up to a separator or a parenthesis; the ones that mean anything are
\* single tokens.
AtomEnd(text, i) ==
    Min({j \in i .. TextEnd(text) : text[j] \in Separators \cup {"(", ")"}}
        \cup {Max({i, TextEnd(text) + 1})})
Atom(text, i) == IF AtomEnd(text, i) = i + 1 THEN text[i] ELSE ""
IsSeparated(text, i) == TokenAt(text, i) \in Separators

\* The atom behind at least one separator, and the position after it.
SeparatedAtom(text, i) ==
    LET j == SkipSeparators(text, i)
    IN  IF IsSeparated(text, i) THEN [word |-> Atom(text, j), next |-> AtomEnd(text, j)]
        ELSE [word |-> "", next |-> i]

\* The position after the closing parenthesis, or 0.
ClosedAt(text, i) ==
    LET j == SkipSeparators(text, i) IN IF TokenAt(text, j) = ")" THEN j + 1 ELSE 0

\* A quoted string: its tokens and the position after it, 0 without its closing
\* quote, across a line end, or with an escape that means nothing.
ParseString(text, start) ==
    LET none == [value |-> <<>>, next |-> 0]
        rest[i \in 1 .. Len(text) + 1] ==
            LET prefixed(token, k) == [rest[k] EXCEPT !.value = <<token>> \o @]
            IN  CASE TokenAt(text, i) = "\"" -> [value |-> <<>>, next |-> i + 1]
                  [] TokenAt(text, i) \in {"", "\n"} -> none
                  [] TokenAt(text, i) = "\\" ->
                        IF TokenAt(text, i + 1) \in DOMAIN Escapes
                        THEN prefixed(Escapes[text[i + 1]], i + 2) ELSE none
                  [] OTHER -> prefixed(text[i], i + 1)
        begin == SkipSeparators(text, start)
    IN  IF IsSeparated(text, start) /\ TokenAt(text, begin) = "\"" THEN rest[begin + 1] ELSE none

\* Parenthesised predicates and references, one after the other from a position.
OperandsAt(text, start, later) ==
    LET from[j \in 1 .. Len(text) + 1] ==
            IF TokenAt(text, j) \notin AnchorTokens \cup {"(", "[["}
            THEN [all |-> {}, next |-> j]
            ELSE IF later[j].next = 0 THEN [all |-> {}, next |-> 0]
            ELSE LET others == from[SkipSeparators(text, later[j].next)]
                 IN  [others EXCEPT !.all = @ \cup {j}]
    IN  from[start]

\* A predicate with its operands, its word, its date or its string, up to their end.
WithOperands(p, operands) ==
    IF /\ operands.next # 0 /\ operands.all # {}
       /\ p.kind = "not" <=> Cardinality(operands.all) = 1
    THEN [p EXCEPT !.operands = operands.all, !.next = operands.next] ELSE Failed
WithWord(p, atom) ==
    IF atom.word \notin Arguments[p.kind] THEN Failed
    ELSE [p EXCEPT !.word = atom.word, !.next = atom.next,
                   !.anchor = IF p.kind \in Anchored THEN atom.next - 1 ELSE 0]
WithDate(p, atom) ==
    IF atom.word \notin Range(Calendar) THEN Failed
    ELSE [p EXCEPT !.value = <<atom.word>>, !.next = atom.next]
WithString(p, string) ==
    IF string.next = 0 \/ (p.kind = "text-contains" /\ string.value = <<>>) THEN Failed
    ELSE [p EXCEPT !.value = string.value, !.next = string.next]

\* The predicate with a name, which ends before after, up to its own parenthesis.
PredicateNamed(text, name, after, later) ==
    LET of == Predicate(name, after)
        worded == WithWord(of, SeparatedAtom(text, after))
    IN  CASE name = "all" -> of
          [] name \in {"and", "or", "not"} ->
                IF ~IsSeparated(text, after) THEN Failed
                ELSE WithOperands(of, OperandsAt(text, SkipSeparators(text, after), later))
          [] name = "text-contains" -> WithString(of, ParseString(text, after))
          [] name = "property-equals" -> WithString(worded, ParseString(text, worded.next))
          [] name = "journal-date" -> WithDate(worded, SeparatedAtom(text, worded.next))
          [] name \in DOMAIN Arguments \ {"property-equals", "journal-date"} -> worded
          [] OTHER -> Failed
Closed(text, p) ==
    IF p.next = 0 THEN Failed ELSE [p EXCEPT !.next = ClosedAt(text, p.next)]

\* The predicate that starts at a position, from those that start after it.
PredicateAt(text, i, later) ==
    CASE TokenAt(text, i) \in AnchorTokens ->
            IF Atom(text, i) = "" THEN Failed
            ELSE [Predicate("reference", i + 1) EXCEPT !.word = text[i], !.anchor = i]
      [] TokenAt(text, i) = "(" ->
            Closed(text, PredicateNamed(text, Atom(text, i + 1), AtomEnd(text, i + 1), later))
      [] OTHER -> Failed

\* The predicates of a text, by the position each starts at.
Predicates(text) ==
    FoldRight(LAMBDA i, later : (i :> PredicateAt(text, i, later)) @@ later,
              [i \in DOMAIN text |-> i], Len(text) + 1 :> Failed)

NoQuery == [ok |-> FALSE, where |-> 0, sort |-> "", descending |-> TRUE, limit |-> 0]

\* "(order-by key direction)" and "(limit n)", each at most once and in this order; a
\* clause ends before the position next, which is 0 when it does not parse.
SortClause(text, i) ==
    LET key == SeparatedAtom(text, i + 2)
        direction == SeparatedAtom(text, key.next)
    IN  IF TokenAt(text, i) # "(" \/ TokenAt(text, i + 1) # "order-by"
        THEN [key |-> "", descending |-> TRUE, next |-> i]
        ELSE [key |-> key.word, descending |-> direction.word = "desc",
              next |-> IF key.word \in SortKeys /\ direction.word \in {"asc", "desc"}
                       THEN ClosedAt(text, direction.next) ELSE 0]

LimitClause(text, i) ==
    LET number == SeparatedAtom(text, i + 2)
        isPositive == number.word \in DOMAIN Numerals /\ Numerals[number.word] \in Nat \ {0}
    IN  CASE TokenAt(text, i) # "(" \/ TokenAt(text, i + 1) # "limit" -> [limit |-> 0, next |-> i]
          [] isPositive -> [limit |-> Numerals[number.word], next |-> ClosedAt(text, number.next)]
          [] OTHER -> [limit |-> 0, next |-> 0]

\* A Query ends behind its clauses.
QueryWith(text, where, sorted, limited) ==
    LET last == SkipSeparators(text, limited.next)
    IN  IF sorted.next # 0 /\ limited.next # 0 /\ TokenAt(text, last) = "}}" /\ last = TextEnd(text)
        THEN [ok |-> TRUE, where |-> where, sort |-> sorted.key,
              descending |-> sorted.descending, limit |-> limited.limit]
        ELSE NoQuery
QueryBehind(text, where, sorted) ==
    QueryWith(text, where, sorted, LimitClause(text, SkipSeparators(text, sorted.next)))

ParseQuery(text) ==
    LET clause == SkipSeparators(text, TextBegin(text) + 1)
        where == SkipSeparators(text, clause + 2)
        end == Closed(text, Predicates(text)[where]).next
    IN  IF /\ HasQueryIntent(text)
           /\ TokenAt(text, clause) = "(" /\ TokenAt(text, clause + 1) = "where"
           /\ IsSeparated(text, clause + 2) /\ end # 0
        THEN QueryBehind(text, where, SortClause(text, SkipSeparators(text, end)))
        ELSE NoQuery

\* The positions of the Page Anchors of a Query that parses.
AnchorsIn(text, query, predicates) ==
    LET anchors[i \in 1 .. Len(text)] ==
            {k \in {predicates[i].anchor} \ {0} : text[k] \in Names}
                \cup UNION {anchors[j] : j \in predicates[i].operands}
    IN  IF query.ok THEN anchors[query.where] ELSE {}
PageAnchors(text) == AnchorsIn(text, ParseQuery(text), Predicates(text))
=============================================================================
