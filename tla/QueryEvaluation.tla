--------------------------- MODULE QueryEvaluation ---------------------------
(***************************************************************************)
(* The Query evaluator of query_evaluator.cpp: a parsed Query, the Entry   *)
(* it stands in and the rows of every Block of the Notebook make the       *)
(* ordered list of the Blocks it answers with.  Relations are resolved     *)
(* from the texts of the rows, not from the indexes of the file.           *)
(***************************************************************************)
EXTENDS QueryLanguage

CONSTANT Spelling           \* the bytes of each name

ASSUME SpellingAssumption == Spelling \in [Names -> Seq(Nat)]

Slash == 47

\* Bytewise (and rankwise) lexicographic order.
Precedes(x, y) ==
    \/ IsStrictPrefix(x, y)
    \/ \E k \in DOMAIN x \cap DOMAIN y : x[k] < y[k] /\ SubSeq(x, 1, k - 1) = SubSeq(y, 1, k - 1)

\* The elements of a set in a strict order: the i-th one has i - 1 before it.
InOrder(S, before(_, _)) ==
    [i \in 1 .. Cardinality(S) |-> CHOOSE x \in S : Cardinality({y \in S : before(y, x)}) = i - 1]

\* Faulty: any longer name passes for one below.
StartsWithName(name, root) == IsPrefix(Spelling[root], Spelling[name])

InPageSubtree(name, root) ==
    name = root \/ IsPrefix(Append(Spelling[root], Slash), Spelling[name])

\* A row: what the Block is, the Page it is on, its parent (0 for a Page), its
\* Properties and its place in a Journal outline.
LinkedNames(row) == {row.text[i] : i \in PageLinks(row.text)}
ReferencedBlocks(row) == {References[row.text[i]] : i \in BlockReferences(row.text)}

PageNamed(rows, name) ==
    {b \in DOMAIN rows : rows[b].type = "page" /\ rows[b].kind = "named" /\ rows[b].name = name}

\* The Block a relation is anchored at, none or one.
ResolveAnchor(rows, self, word) ==
    CASE word = "self" -> {self} \cap DOMAIN rows
      [] word \in DOMAIN References -> {References[word]} \cap DOMAIN rows
      [] OTHER -> PageNamed(rows, word)

Ancestors(rows, b) ==
    LET above[c \in DOMAIN rows] ==
            IF rows[c].parent \notin DOMAIN rows THEN {rows[c].parent} \ {0}
            ELSE {rows[c].parent} \cup above[rows[c].parent]
    IN  above[b]

EntryPageLinksTo(rows, b, page) ==
    rows[b].type = "entry" /\ \E name \in LinkedNames(rows[b]) : page \in PageNamed(rows, name)
EntryBlockReferences(rows, b, target) ==
    rows[b].type = "entry" /\ target \in ReferencedBlocks(rows[b])

MatchesJournalDate(row, comparison, date) ==
    LET at(d) == CHOOSE i \in DOMAIN Calendar : Calendar[i] = d
    IN  /\ row.kind = "journal"
        /\ CASE comparison = "="  -> at(row.date) = at(date)
             [] comparison = "<"  -> at(row.date) < at(date)
             [] comparison = "<=" -> at(row.date) <= at(date)
             [] comparison = ">"  -> at(row.date) > at(date)
             [] OTHER             -> at(row.date) >= at(date)

\* Containment and references between a candidate b and the anchored Block a.
MatchesRelation(rows, relation, b, a) ==
    CASE relation = "child-of" -> rows[b].parent = a
      [] relation = "descendant-of" -> a \in Ancestors(rows, b)
      [] relation = "parent-of" -> rows[a].parent = b
      [] relation = "ancestor-of" -> b \in Ancestors(rows, a)
      [] relation = "page-links-to" -> rows[a].type = "page" /\ EntryPageLinksTo(rows, b, a)
      [] relation = "block-references" -> EntryBlockReferences(rows, b, a)
      [] relation = "linked-by" -> EntryPageLinksTo(rows, a, b)
      [] relation = "block-referenced-by" -> EntryBlockReferences(rows, a, b)

\* Whether Block b satisfies the predicate at position where of a parsed text.
Matches(rows, self, predicates, where, b) ==
    LET row == rows[b]
        satisfied[i \in DOMAIN predicates] ==
            LET p == predicates[i]
            IN  CASE p.kind = "all" -> TRUE
                  [] p.kind = "and" -> \A j \in p.operands : satisfied[j]
                  [] p.kind = "or" -> \E j \in p.operands : satisfied[j]
                  [] p.kind = "not" -> \A j \in p.operands : ~satisfied[j]
                  [] p.kind = "type" -> row.type = p.word
                  [] p.kind = "page-context" -> row.kind = p.word
                  [] p.kind = "journal-date" -> MatchesJournalDate(row, p.word, p.value[1])
                  [] p.kind = "text-contains" ->
                        row.type = "entry" /\ \E i1 \in 1 .. Len(row.text) :
                            IsPrefix(p.value, SubSeq(row.text, i1, Len(row.text)))
                  [] p.kind = "in-page-subtree" ->
                        row.kind = "named" /\ InPageSubtree(row.name, p.word)
                  [] p.kind \in Relations ->
                        \E a \in ResolveAnchor(rows, self, p.word) :
                            MatchesRelation(rows, p.kind, b, a)
                  [] p.kind = "reference" ->
                        row.type = "entry" /\ IF p.word \in DOMAIN References
                                              THEN References[p.word] \in ReferencedBlocks(row)
                                              ELSE p.word \in LinkedNames(row)
                  [] p.kind = "property-exists" ->
                        \E property \in row.properties : property.key = p.word
                  [] p.kind = "property-equals" ->
                        \E property \in row.properties :
                            property.key = p.word /\ property.value = p.value
    IN  satisfied[where]

\* Identifiers count in the order of creation, and break ties.
RowBefore(rows, query, a, b) ==
    LET isJournal(c) == rows[c].kind = "journal"
        date(c) == CHOOSE i \in DOMAIN Calendar : Calendar[i] = rows[c].date
        time(c) == IF query.sort = "creation-time" THEN c ELSE rows[c].updated
        first(x, y) == IF query.descending THEN x > y ELSE x < y
    IN  IF query.sort = "journal-date"
        THEN CASE isJournal(a) # isJournal(b) -> isJournal(a)
               [] ~isJournal(a) /\ ~isJournal(b) -> a < b
               [] OTHER -> IF date(a) # date(b) THEN first(date(a), date(b))
                           ELSE rows[a].order < rows[b].order
        ELSE IF time(a) = time(b) THEN a < b ELSE first(time(a), time(b))

Evaluate(query, predicates, self, rows) ==
    InOrder({b \in DOMAIN rows : Matches(rows, self, predicates, query.where, b)},
            LAMBDA a, b : RowBefore(rows, query, a, b))
=============================================================================
