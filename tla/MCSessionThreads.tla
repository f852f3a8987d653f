-------------------------- MODULE MCSessionThreads --------------------------
(***************************************************************************)
(* A Journal Page with an Entry beside an empty Named Page, for two        *)
(* callers.                                                                *)
(***************************************************************************)
EXTENDS SessionThreads

Outlines ==
    {[id |-> 1, page |-> PageBlock("named", "a", 0), entries |-> <<>>],
     [id |-> 2, page |-> PageBlock("journal", "mon", 0),
      entries |-> <<[id |-> 3, text |-> <<"w">>, updated |-> 0, parent |-> TopLevel]>>]}

MCTwoPages == {FoldSet(LAMBDA o, s : InsertPage(s, o), EmptyStore, Outlines)}
MCTyped == {<<"a">>}
MCCalendar == <<"mon">>
MCReferences == "ref" :> 2
MCNone == <<>>
=============================================================================
