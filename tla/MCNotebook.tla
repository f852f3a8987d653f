----------------------------- MODULE MCNotebook -----------------------------
(***************************************************************************)
(* Small Notebooks for the run of module Notebook.  The clock starts at    *)
(* the newest time found in the Notebook, so that with MaxClock = 3 the    *)
(* Notebooks of time 1 take two commands and the one of time 0 takes       *)
(* three, one more than the history has room for.                          *)
(***************************************************************************)
EXTENDS Notebook

Entry(id, now, parent) == [id |-> id, text |-> <<"a">>, updated |-> now, parent |-> parent]

NamedOutline(id, now) ==
    [id |-> id, page |-> PageBlock("named", "a", now),
     entries |-> <<Entry(id + 1, now, TopLevel), [Entry(id + 2, now, id + 1) EXCEPT !.text = <<"\\", "a">>]>>]

JournalOutline(id, now) ==
    [id |-> id, page |-> PageBlock("journal", "mon", now),
     entries |-> <<Entry(id + 1, now, TopLevel)>>]

\* A Named Page mentioning itself, and escaping a mention; that Page beside a Journal Page.
OneNamed == InsertPage(EmptyStore, NamedOutline(1, 1))
NamedAndJournal == InsertPage(OneNamed, JournalOutline(4, 1))

\* A Page with one Entry and room for one Block more; two such Pages and no room,
\* where cross-Page moves go both ways.
Small(id) ==
    InsertPage(EmptyStore, [NamedOutline(id, 0) EXCEPT !.entries = SubSeq(@, 1, 1)])
Tight == InsertPage(Small(4), JournalOutline(6, 0))
MCAll == {EmptyStore, OneNamed, NamedAndJournal, Small(5), Tight}

MCTyped == {<<"a">>}
MCCalendar == <<"mon">>
MCNone == <<>>
=============================================================================
