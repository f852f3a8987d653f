----------------------------- MODULE OutlineEdits -----------------------------
(***************************************************************************)
(* Every outline reachable by structural edits from an empty Page, and the *)
(* edits compared with what they mean on a forest of child lists, which is *)
(* how ADR-0008 describes them.                                             *)
(***************************************************************************)
EXTENDS Outline

CONSTANTS MaxEntries,       \* bound: entries on the Page at a time
          Letters,          \* what texts are made of
          NewTexts,         \* the texts an insertion may bring
          MaxLetters,       \* bound: letters on the Page when one more entry is inserted
          MaxText           \* the longest Authored Text (1 MiB in the code)

ASSUME MaxEntriesAssumption == MaxEntries \in Nat \ {0}
ASSUME NewTextsAssumption == \A text \in NewTexts : text \in Seq(Letters)
ASSUME MaxTextAssumption == MaxText \in Nat

VARIABLE entries

ReadingText(es) == FlattenSeq([i \in DOMAIN es |-> es[i].text])

TypeOK ==
    /\ entries \in Seq([id : 1 .. MaxEntries, text : Seq(Letters),
                        updated : {0}, parent : 0 .. MaxEntries])
    /\ Len(entries) = Cardinality(Ids(entries))

ValidAuthoredText(text) == Len(text) <= MaxText

Init ==
    \E text \in {t \in NewTexts : ValidAuthoredText(t)} :
        entries = <<[id |-> 1, text |-> text, updated |-> 0, parent |-> TopLevel]>>

Positions == DOMAIN entries
Unused == 1 .. MaxEntries \ Ids(entries)
New == Min(Unused)

InsertEntry(after, text) ==
    /\ Unused # {} /\ ValidAuthoredText(text)
    /\ Len(ReadingText(entries) \o text) <= MaxLetters
    /\ entries' = Inserted(entries, after,
                           [id |-> New, text |-> text, updated |-> 0, parent |-> TopLevel])

SplitEntry(i, cut) ==
    /\ Unused # {}
    /\ entries' = Split(entries, i, entries[i].text, cut, New, 0)

\* Faulty: only the text that is joined on is checked, not what it makes.
JoinEntryUnbounded(i) ==
    /\ CanJoin(entries, i) /\ ValidAuthoredText(entries[i].text)
    /\ entries' = Joined(entries, i, entries[i].text, 0)

JoinEntry(i) ==
    /\ CanJoin(entries, i) /\ ValidAuthoredText(entries[i - 1].text \o entries[i].text)
    /\ entries' = Joined(entries, i, entries[i].text, 0)

DeleteEntry(i) == CanErase(entries, i) /\ entries' = Erased(entries, i)
Indent(i) == CanIndent(entries, i) /\ entries' = Indented(entries, i)
Outdent(i) == CanOutdent(entries, i) /\ entries' = Outdented(entries, i)
MoveUp(i) == CanMoveUp(entries, i) /\ entries' = MovedUp(entries, i)
MoveDown(i) == CanMoveDown(entries, i) /\ entries' = MovedDown(entries, i)
DeleteSubtrees(ids) == ids # {} /\ entries' = WithoutSubtrees(entries, ids)

Next ==
    \/ \E after \in Ids(entries) \cup {TopLevel}, text \in NewTexts : InsertEntry(after, text)
    \/ \E i \in Positions :
          \/ \E cut \in 0 .. Len(entries[i].text) : SplitEntry(i, cut)
          \/ JoinEntry(i) \/ DeleteEntry(i)
          \/ Indent(i) \/ Outdent(i) \/ MoveUp(i) \/ MoveDown(i)
    \/ \E ids \in SUBSET Ids(entries) : DeleteSubtrees(ids)

Spec == Init /\ [][Next]_entries
-----------------------------------------------------------------------------
\* The forest an outline stands for: the ordered children of every container.
Forest(es) ==
    [p \in Ids(es) \cup {TopLevel} |->
        LET kids == SelectSeq(es, LAMBDA e : e.parent = p)
        IN  [i \in DOMAIN kids |-> kids[i].id]]

IndexIn(s, x) == CHOOSE i \in DOMAIN s : s[i] = x
AfterIn(s, x, y) == InsertAt(s, IndexIn(s, x) + 1, y)
SwappedAt(s, i) == [s EXCEPT ![i] = s[i + 1], ![i + 1] = s[i]]

\* No edit breaks the preorder that subtreeEnd and rewriteContainment rely on.
Preorder == InPreorder(entries)

\* Each edit does to the flat sequence what it means on the forest: a split or an
\* insertion adds the next sibling, an indent makes the entry the last child of
\* its previous sibling, an outdent the next sibling of its parent, up and down
\* exchange neighbours, and nothing else moves.
EditsMeanForestEdits ==
    [][ \A i \in Positions :
        LET e == entries[i].id
            p == entries[i].parent
            f == Forest(entries)
            g == Forest(entries')
            at == IndexIn(f[p], e)
        IN  /\ (\E cut \in 0 .. Len(entries[i].text) : SplitEntry(i, cut)) \/ (\E text \in NewTexts : InsertEntry(e, text)) =>
                  g = [c \in DOMAIN f \cup {New} |->
                         IF c = New THEN <<>> ELSE IF c = p THEN AfterIn(f[p], e, New) ELSE f[c]]
            /\ Indent(i) =>
                  g = [f EXCEPT ![p] = RemoveAt(@, at), ![f[p][at - 1]] = Append(@, e)]
            /\ Outdent(i) =>
                  g = [f EXCEPT ![p] = RemoveAt(@, at),
                                ![GrandParent(entries, i)] = AfterIn(@, p, e)]
            /\ MoveUp(i) => g = [f EXCEPT ![p] = SwappedAt(@, at - 1)]
            /\ MoveDown(i) => g = [f EXCEPT ![p] = SwappedAt(@, at)]
      ]_entries

\* A deleted selection takes every descendant along; everything else stays as it
\* is, in the same order, and nothing is new.
DeletionTakesSubtrees ==
    [][ \A ids \in SUBSET Ids(entries) : DeleteSubtrees(ids) =>
            LET left  == {i \in Positions : entries[i].id \in Ids(entries')}
                at(i) == PositionOf(entries', entries[i].id)
            IN  /\ left = {i \in Positions : /\ entries[i].id \notin ids
                                             /\ \A k \in Positions : entries[k].id \in ids =>
                                                   ~(k < i /\ i < SubtreeEnd(entries, k))}
                /\ Ids(entries') \subseteq Ids(entries)
                /\ \A i \in left : /\ entries'[at(i)] = entries[i]
                                   /\ \A k \in left : i < k => at(i) < at(k) ]_entries

TextsWithinLimit(es) == \A i \in DOMAIN es : ValidAuthoredText(es[i].text)

\* A split and a join lose, double and alter no letter of the Page.  What a split cuts
\* off comes behind the whole subtree of the entry it was cut from, so the Page reads
\* as before if the entry is a leaf; then joining the new entry takes the split back,
\* and is never refused.  A join leaves the Page reading as before.  No edit makes a text
\* longer than an Authored Text may be: the two texts of a join may each be valid and
\* exceed the limit together.
SplitAndJoinKeepText ==
    [][ TextsWithinLimit(entries') /\ \A i \in Positions :
        LET text == entries[i].text
            end  == SubtreeEnd(entries, i)
        IN  /\ \A cut \in 0 .. Len(text) : SplitEntry(i, cut) =>
                  /\ ReadingText(entries') =
                         ReadingText(Slice(entries, 1, i)) \o SubSeq(text, 1, cut)
                         \o ReadingText(Slice(entries, i + 1, end))
                         \o SubSeq(text, cut + 1, Len(text))
                         \o ReadingText(Slice(entries, end, Len(entries) + 1))
                  /\ ~HasChildren(entries, entries[i].id) =>
                         LET back == PositionOf(entries', New)
                         IN  /\ CanJoin(entries', back)
                             /\ ValidAuthoredText(entries'[back - 1].text \o entries'[back].text)
                             /\ Joined(entries', back, entries'[back].text, 0) = entries
            /\ JoinEntry(i) => ReadingText(entries') = ReadingText(entries) ]_entries

\* Outdent takes back an indent, and down an up, subtrees included.
MovesTakeBack ==
    [][ \A i \in Positions :
          LET back == PositionOf(entries', entries[i].id)
          IN  /\ Indent(i) => Outdented(entries', back) = entries
              /\ MoveUp(i) => MovedDown(entries', back) = entries
              /\ MoveDown(i) => MovedUp(entries', back) = entries ]_entries
=============================================================================
