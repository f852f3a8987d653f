--------------------------- MODULE MCNotebookReads ---------------------------
(***************************************************************************)
(* A Page with a Query, an Entry under it that mentions Pages and a Block, *)
(* and another Query, beside a Journal Page with an escaped mention, a     *)
(* Property and two sources; and Pages of one hierarchy.                   *)
(***************************************************************************)
EXTENDS NotebookReads

Entry(id, parent, text) == [id |-> id, text |-> text, updated |-> 0, parent |-> parent]

QueryText(where, rest) ==
    <<"{{query", " ", "(", "where", " ">> \o where \o <<")", " ">> \o rest \o <<"}}", "\n">>
LinksToA == <<"(", "page-links-to", " ", "a", ")">>
BelowA == <<"(", "descendant-of", " ", "a", ")">>
Either == <<"(", "or", " ">> \o LinksToA \o <<"a", "(", "child-of", " ", "@2", ")", ")">>

NotebookWith(query) ==
    LET page == [id |-> 1, page |-> PageBlock("named", "a", 0),
                 entries |-> <<Entry(2, TopLevel, query), Entry(3, 2, <<"a", "ab", " ", "@2", "a">>),
                               Entry(7, TopLevel, QueryText(BelowA, <<>>))>>]
        day == [id |-> 4, page |-> PageBlock("journal", "mon", 0),
                entries |-> <<Entry(5, TopLevel, <<"\\", "a", "\n", "k::", "a">>),
                              Entry(6, TopLevel, <<"\\", "\\", "a", " ", "@2">>)>>]
    IN  InsertPage(InsertPage(EmptyStore, page), day)

\* Pages without Entries.
PagesNamed(names) ==
    LET insert(s, id) ==
            InsertPage(s, [id |-> id, page |-> PageBlock("named", names[id], 0), entries |-> <<>>])
    IN  FoldLeft(insert, EmptyStore, <<1, 2, 3>>)

MCStores ==
    {PagesNamed(<<"a", "ab", "a/a">>)} \cup
    {NotebookWith(QueryText(LinksToA, <<>>)),
     NotebookWith(QueryText(Either, <<"(", "limit", " ", "3", ")">>)),
     NotebookWith(QueryText(BelowA, <<"(", "order-by", " ", "creation-time", " ", "asc", ")">>))}

MCRequests ==
    [kind : {"linked"}, target : {1, 2}]
        \cup [kind : {"query"}, target : {2, 7}]
        \cup [kind : {"preview"}, target : {"ab"}]
        \cup [kind : {"children"}, target : {<<>>, <<97>>}]
        \cup [kind : {"occurrences"}, target : {1, 2}, source : {3}]

MCTyped == {<<"a">>}
MCCalendar == <<"mon">>
MCReferences == "@2" :> 2
MCNone == <<>>
MCKeys == "k::" :> "k"
MCSpelling == ("a" :> <<97>>) @@ ("ab" :> <<97, 98>>) @@ ("a/a" :> <<97, 47, 97>>)

\* Pages whose names differ after a byte below the slash.
Hyphened == ("a" :> <<97>>) @@ ("a-b" :> <<97, 45, 98>>) @@ ("a/c" :> <<97, 47, 99>>)
ThreePages == {PagesNamed(<<"a", "a-b", "a/c">>)}
HierarchyRequests == [kind : {"children"}, target : {<<>>, <<97>>}]
=============================================================================
