------------------------------- MODULE Outline -------------------------------
(***************************************************************************)
(* The entries of a Page as NotebookSession::Impl edits them: one sequence *)
(* in preorder, each entry naming its parent.  Every structural edit of    *)
(* editOutline, insertNestedEntry, insertPageEntry, deleteSubtrees and     *)
(* moveEntryToPage is an operator on such a sequence.                      *)
(***************************************************************************)
EXTENDS SequencesExt

TopLevel == 0               \* the parent of an entry directly under its Page

Ids(es) == {es[i].id : i \in DOMAIN es}
PositionOf(es, id) == CHOOSE i \in DOMAIN es : es[i].id = id
HasChildren(es, id) == \E i \in DOMAIN es : es[i].parent = id

\* Positions whose chain of parents meets one of the given identifiers.
BelowAny(es, ids) ==
    LET below[n \in 0 .. Len(es)] ==
            IF n = 0 THEN {}
            ELSE LET above == below[n - 1]
                 IN  IF es[n].parent \in ids \cup {es[k].id : k \in above}
                     THEN above \cup {n} ELSE above
    IN  below[Len(es)]

\* The position after the last descendant of the entry at i.
SubtreeEnd(es, i) ==
    Min({k \in i + 1 .. Len(es) : k \notin BelowAny(es, {es[i].id})} \cup {Len(es) + 1})

EarlierSiblings(es, i) == {k \in 1 .. i - 1 : es[k].parent = es[i].parent}

\* The entries from position i to before position k, and their insertion at i.
Slice(es, i, k) == SubSeq(es, i, k - 1)
Spliced(es, i, r) == Slice(es, 1, i) \o r \o Slice(es, i, Len(es) + 1)
Without(es, i, k) == Slice(es, 1, i) \o Slice(es, k, Len(es) + 1)

\* Faulty: the second run is taken one entry too long.
RotatedOverlapping(es, i, mid, k) ==
    Slice(es, 1, i) \o Slice(es, mid, k) \o Slice(es, i, mid + 1) \o Slice(es, k, Len(es) + 1)

\* Two adjacent runs of entries change places (std::rotate).
Rotated(es, i, mid, k) ==
    Slice(es, 1, i) \o Slice(es, mid, k) \o Slice(es, i, mid) \o Slice(es, k, Len(es) + 1)

\* Where an entry inserted after the entry named after goes, and its parent;
\* with no such entry it becomes the last one directly under the Page.
InsertionPoint(es, after) ==
    IF after = TopLevel
    THEN [at |-> Len(es) + 1, parent |-> TopLevel]
    ELSE LET i == PositionOf(es, after)
         IN  [at |-> SubtreeEnd(es, i), parent |-> es[i].parent]

Inserted(es, after, e) ==
    LET p == InsertionPoint(es, after)
    IN  Spliced(es, p.at, <<[e EXCEPT !.parent = p.parent]>>)

\* The entry with this identifier has been given a text at a time.
Stamped(es, id, text, now) ==
    [i \in DOMAIN es |->
        IF es[i].id = id THEN [es[i] EXCEPT !.text = text, !.updated = now] ELSE es[i]]

Split(es, i, text, cut, new, now) ==
    LET kept == Stamped(es, es[i].id, SubSeq(text, 1, cut), now)
        rest == [id |-> new, text |-> SubSeq(text, cut + 1, Len(text)),
                 updated |-> now, parent |-> es[i].parent]
    IN  Spliced(kept, SubtreeEnd(es, i), <<rest>>)

\* Faulty: the pending text goes before the text it is joined to.
JoinedBefore(es, i, text, now) ==
    Without(Stamped(es, es[i - 1].id, text \o es[i - 1].text, now), i, i + 1)

CanJoin(es, i) == i > 1 /\ ~HasChildren(es, es[i].id)
Joined(es, i, text, now) ==
    Without(Stamped(es, es[i - 1].id, es[i - 1].text \o text, now), i, i + 1)

CanErase(es, i) == ~HasChildren(es, es[i].id)
Erased(es, i) == Without(es, i, i + 1)

\* Faulty: the preceding entry becomes the parent, whatever its level.
IndentedUnderPreceding(es, i) == [es EXCEPT ![i].parent = es[i - 1].id]

CanIndent(es, i) == EarlierSiblings(es, i) # {}
Indented(es, i) == [es EXCEPT ![i].parent = es[Max(EarlierSiblings(es, i))].id]

CanOutdent(es, i) == es[i].parent # TopLevel
GrandParent(es, i) == es[PositionOf(es, es[i].parent)].parent
\* Faulty: the entry changes its parent and stays where it stands.
OutdentedInPlace(es, i) == [es EXCEPT ![i].parent = GrandParent(es, i)]

Outdented(es, i) ==
    LET end    == SubtreeEnd(es, i)
        moving == [Slice(es, i, end) EXCEPT ![1].parent = GrandParent(es, i)]
        rest   == Without(es, i, end)
    IN  Spliced(rest, SubtreeEnd(rest, PositionOf(rest, es[i].parent)), moving)

CanMoveUp(es, i) == EarlierSiblings(es, i) # {}
MovedUp(es, i) == Rotated(es, Max(EarlierSiblings(es, i)), i, SubtreeEnd(es, i))

CanMoveDown(es, i) ==
    LET end == SubtreeEnd(es, i)
    IN  end <= Len(es) /\ es[end].parent = es[i].parent
\* Faulty: the next sibling changes places without its subtree.
MovedDownPastRoot(es, i) ==
    LET end == SubtreeEnd(es, i) IN Rotated(es, i, end, end + 1)

MovedDown(es, i) ==
    LET end == SubtreeEnd(es, i)
    IN  Rotated(es, i, end, SubtreeEnd(es, end))

\* Faulty: only the selected entries go, and leave their descendants behind.
WithoutSelected(es, ids) == SelectSeq(es, LAMBDA e : e.id \notin ids)

\* The selected entries that lie under no other selected entry, and what is
\* left when their subtrees are deleted.
SelectedRoots(es, ids) ==
    {es[i].id : i \in {k \in DOMAIN es \ BelowAny(es, ids) : es[k].id \in ids}}
Remaining(es, gone) ==
    LET left[n \in 0 .. Len(es)] ==
            IF n = 0 THEN <<>>
            ELSE IF es[n].id \in gone THEN left[n - 1] ELSE Append(left[n - 1], es[n])
    IN  left[Len(es)]
WithoutSubtrees(es, ids) ==
    Remaining(es, ids \cup {es[i].id : i \in BelowAny(es, ids)})

\* Faulty: every entry of the subtree is stamped.
MovingSubtreeStamped(es, i, parent, now) ==
    LET moving == [Slice(es, i, SubtreeEnd(es, i)) EXCEPT ![1].parent = parent]
    IN  [k \in DOMAIN moving |-> [moving[k] EXCEPT !.updated = now]]

\* The subtree at i as it arrives under another parent.
MovingSubtree(es, i, parent, now) ==
    [Slice(es, i, SubtreeEnd(es, i)) EXCEPT ![1].parent = parent, ![1].updated = now]
-----------------------------------------------------------------------------
\* What a Page's entries are: distinct, and a depth-first walk of a forest.
InPreorder(es) ==
    /\ \A i, k \in DOMAIN es : es[i].id = es[k].id => i = k
    /\ \A i \in DOMAIN es : es[i].id # TopLevel
    /\ \A i \in DOMAIN es : es[i].parent # TopLevel =>
          \E k \in 1 .. i - 1 : /\ es[k].id = es[i].parent
                                /\ i < SubtreeEnd(es, k)
=============================================================================
