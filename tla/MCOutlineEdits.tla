--------------------------- MODULE MCOutlineEdits ---------------------------
\* Values for OutlineEdits.cfg.
EXTENDS OutlineEdits

\* A text to cut, which two of are too long for one Entry; one that is too long itself.
MCNewTexts == {<<>>, <<"a", "b">>, <<"b", "a", "b">>}

\* The outline up to the choice of identifiers.  The edits compare identifiers and do
\* nothing else with them, and a new one is different from all others, so outlines
\* that agree in this have the same continuations up to that choice.
Shape == [i \in Positions |->
             [text |-> entries[i].text,
              parent |-> {k \in Positions : entries[k].id = entries[i].parent}]]
=============================================================================
