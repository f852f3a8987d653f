------------------------ MODULE OutlineEdits_proofs -------------------------
(**************************************************************************)
(* The outline a session edits is in preorder in every reachable state,   *)
(* whatever the number of entries, the texts and their limit, and this is *)
(* what is proved about the single steps from it.                         *)
(**************************************************************************)
EXTENDS OutlineEdits, Outline_proofs

\* The entries of the Page, in preorder, with texts that are Authored Text.
Numbers == 1 .. MaxEntries
ValidTexts == {t \in Seq(Letters) : ValidAuthoredText(t)}
Ordered == Page(Numbers, ValidTexts, {0}, entries)

\* There are as many identifiers as entries.
LEMMA IdsCounted ==
    ASSUME NEW es, Len(es) \in Nat, DOMAIN es = 1 .. Len(es), Named(es)
    PROVE  Cardinality(Ids(es)) = Len(es)
  <1> DEFINE n == Len(es)
             f == [i \in 1 .. n |-> es[i].id]
  <1>1. f \in Bijection(1 .. n, Ids(es))
    <2>1. f \in [1 .. n -> Ids(es)]
      BY DEF Ids
    <2>2. \A i, k \in 1 .. n : f[i] = f[k] => i = k
      BY DEF Named
    <2>3. \A x \in Ids(es) : \E i \in 1 .. n : f[i] = x
      BY DEF Ids
    <2> HIDE DEF f, n
    <2> QED
      BY <2>1, <2>2, <2>3 DEF Bijection, Injection, Surjection, IsInjective
  <1> HIDE DEF f
  <1>2. n \in Nat /\ ExistsBijection(1 .. n, Ids(es))
    BY <1>1 DEF ExistsBijection
  <1> HIDE DEF n
  <1>3. Cardinality(Ids(es)) = n
    BY <1>2, FS_CountingElements
  <1> QED
    BY <1>3 DEF n

\* Valid texts are texts.
LEMMA OrderedWidens ==
    ASSUME Ordered
    PROVE  Page(Numbers, Seq(Letters), {0}, entries)
  <1>1. ValidTexts \subseteq Seq(Letters)
    BY DEF ValidTexts
  <1> QED
    BY <1>1, PageWidens DEF Ordered

\* Pages in preorder are what the invariants say.
LEMMA OrderedIs ==
    ASSUME Ordered
    PROVE  TypeOK /\ Preorder /\ TextsWithinLimit(entries)
  <1>1. /\ TopLevel \notin Numbers /\ entries \in Seq(Entry(Numbers, ValidTexts, {0}))
        /\ Len(entries) \in Nat /\ DOMAIN entries = 1 .. Len(entries)
        /\ \A i \in 1 .. Len(entries) : entries[i] \in Entry(Numbers, ValidTexts, {0})
    BY PageIs DEF Ordered
  <1>2. PICK D : Tree(entries, D)
    BY DEF Ordered, Page
  <1>3. Preorder
    BY <1>1, <1>2, TreeInPreorder DEF Preorder
  <1>4. Len(entries) = Cardinality(Ids(entries))
    BY <1>1, <1>2, IdsCounted DEF Tree
  <1>5. TextsWithinLimit(entries)
    <2>1. \A i \in 1 .. Len(entries) : entries[i].text \in ValidTexts
      BY <1>1 DEF Entry
    <2> QED
      BY <1>1, <2>1 DEF TextsWithinLimit, ValidTexts
  <1>6. entries \in Seq([id : 1 .. MaxEntries, text : Seq(Letters),
                         updated : {0}, parent : 0 .. MaxEntries])
    <2>1. Numbers \cup {TopLevel} = 0 .. MaxEntries
      BY MaxEntriesAssumption DEF Numbers, TopLevel
    <2>2. Entry(Numbers, Seq(Letters), {0})
             = [id : 1 .. MaxEntries, text : Seq(Letters), updated : {0}, parent : 0 .. MaxEntries]
      BY <2>1 DEF Entry, Numbers
    <2>3. Page(Numbers, Seq(Letters), {0}, entries)
      BY OrderedWidens
    <2>4. entries \in Seq(Entry(Numbers, Seq(Letters), {0}))
      BY <2>3 DEF Page
    <2> QED
      BY <2>2, <2>4
  <1> QED
    BY <1>3, <1>4, <1>5, <1>6 DEF TypeOK

\* A new identifier is one that is not in use.
LEMMA NewIsUnused ==
    ASSUME Unused # {}
    PROVE  New \in Numbers /\ New \notin Ids(entries)
  <1>1. Unused \in SUBSET Nat
    BY MaxEntriesAssumption DEF Unused
  <1>2. New \in Unused
    BY <1>1, LeastNumber DEF New, Min
  <1> QED
    BY <1>2 DEF Unused, Numbers

\* The first Page.
LEMMA FirstOrdered ==
    ASSUME Init
    PROVE  Ordered
  <1>t. PICK text \in {t \in NewTexts : ValidAuthoredText(t)} :
            entries = <<[id |-> 1, text |-> text, updated |-> 0, parent |-> TopLevel]>>
    BY DEF Init
  <1> DEFINE e == [id |-> 1, text |-> text, updated |-> 0, parent |-> TopLevel]
             D == [i \in 1 .. 1 |-> 0]
  <1>1. entries = <<e>>
    BY <1>t
  <1>2. e \in Entry(Numbers, ValidTexts, {0}) /\ e.id = 1 /\ e.parent = TopLevel
    BY MaxEntriesAssumption, NewTextsAssumption DEF Entry, Numbers, ValidTexts
  <1>3. TopLevel \notin Numbers
    BY MaxEntriesAssumption DEF Numbers, TopLevel
  <1> HIDE DEF e
  <1>4. /\ entries \in Seq(Entry(Numbers, ValidTexts, {0})) /\ Len(entries) = 1
        /\ entries[1].id = 1 /\ entries[1].parent = TopLevel
    BY <1>1, <1>2
  <1>5. Tree(entries, D)
    <2>1. Named(entries)
      BY <1>4 DEF Named, TopLevel
    <2>2. Walk(D, 1)
      BY DEF Walk
    <2>3. Linked(entries, D)
      BY <1>4 DEF Linked
    <2> QED
      BY <1>4, <2>1, <2>2, <2>3 DEF Tree
  <1> HIDE DEF D
  <1> QED
    BY <1>3, <1>4, <1>5 DEF Ordered, Page

\* Every edit leaves a preorder.
LEMMA NextOrdered ==
    ASSUME Ordered, Next
    PROVE  Ordered'
  <1> DEFINE P(es) == Page(Numbers, ValidTexts, {0}, es)
  <1>1. P(entries)
    BY DEF Ordered
  <1>2. SUFFICES P(entries')
    BY DEF Ordered
  <1>3. /\ TopLevel \notin Numbers /\ DOMAIN entries = 1 .. Len(entries) /\ Len(entries) \in Nat
        /\ \A i \in 1 .. Len(entries) :
              entries[i] \in Entry(Numbers, ValidTexts, {0}) /\ entries[i].text \in ValidTexts
    <2>1. /\ TopLevel \notin Numbers /\ DOMAIN entries = 1 .. Len(entries) /\ Len(entries) \in Nat
          /\ \A i \in 1 .. Len(entries) : entries[i] \in Entry(Numbers, ValidTexts, {0})
      BY <1>1, PageIs
    <2> QED
      BY <2>1 DEF Entry
  <1>4. 0 \in {0}
    OBVIOUS
  <1> HIDE DEF P
  <1>5. ASSUME NEW after \in Ids(entries) \cup {TopLevel}, NEW text \in NewTexts,
               InsertEntry(after, text)
        PROVE  P(entries')
    <2> DEFINE e == [id |-> New, text |-> text, updated |-> 0, parent |-> TopLevel]
    <2>1. entries' = Inserted(entries, after, e) /\ Unused # {} /\ text \in ValidTexts
      BY <1>5, NewTextsAssumption DEF InsertEntry, ValidTexts
    <2>2. New \in Numbers /\ New \notin Ids(entries)
      BY <2>1, NewIsUnused
    <2>3. e \in Entry(Numbers, ValidTexts, {0}) /\ e.id \notin Ids(entries)
      BY <2>1, <2>2 DEF Entry
    <2> HIDE DEF e
    <2>4. Page(Numbers, ValidTexts, {0}, Inserted(entries, after, e))
      BY <1>1, <2>3, InsertedPage DEF P
    <2> QED
      BY <2>1, <2>4 DEF P
  <1>6. ASSUME NEW i \in Positions, NEW cut \in 0 .. Len(entries[i].text), SplitEntry(i, cut)
        PROVE  P(entries')
    <2> DEFINE text == entries[i].text
    <2>1. entries' = Split(entries, i, text, cut, New, 0) /\ Unused # {}
      BY <1>6 DEF SplitEntry
    <2>2. New \in Numbers \ Ids(entries)
      BY <2>1, NewIsUnused
    <2>3. i \in 1 .. Len(entries) /\ text \in ValidTexts /\ cut \in 0 .. Len(text)
      BY <1>3 DEF Positions
    <2> HIDE DEF text
    <2>v. text \in Seq(Letters) /\ Len(text) \in Nat /\ Len(text) <= MaxText
      BY <2>3 DEF ValidTexts, ValidAuthoredText
    <2>4. SubSeq(text, 1, cut) \in ValidTexts
      <3>1. SubSeq(text, 1, cut) \in Seq(Letters) /\ Len(SubSeq(text, 1, cut)) = cut
        BY <2>3, <2>v
      <3> QED
        BY <2>3, <2>v, <3>1, MaxTextAssumption DEF ValidTexts, ValidAuthoredText
    <2>5. SubSeq(text, cut + 1, Len(text)) \in ValidTexts
      <3>1. /\ SubSeq(text, cut + 1, Len(text)) \in Seq(Letters)
            /\ Len(SubSeq(text, cut + 1, Len(text))) = Len(text) - cut
        BY <2>3, <2>v
      <3> QED
        BY <2>3, <2>v, <3>1, MaxTextAssumption DEF ValidTexts, ValidAuthoredText
    <2>6. Page(Numbers, ValidTexts, {0}, Split(entries, i, text, cut, New, 0))
      BY <1>1, <1>4, <2>2, <2>3, <2>4, <2>5, SplitPage DEF P
    <2> QED
      BY <2>1, <2>6 DEF P
  <1>7. ASSUME NEW i \in Positions, JoinEntry(i)
        PROVE  P(entries')
    <2> DEFINE text == entries[i].text
    <2>1. /\ entries' = Joined(entries, i, text, 0) /\ CanJoin(entries, i)
          /\ ValidAuthoredText(entries[i - 1].text \o text)
      BY <1>7 DEF JoinEntry
    <2>2. i \in 1 .. Len(entries) /\ text \in ValidTexts
      BY <1>3 DEF Positions
    <2>3. i - 1 \in 1 .. Len(entries)
      BY <1>3, <2>1, <2>2 DEF CanJoin
    <2> HIDE DEF text
    <2>4. entries[i - 1].text \o text \in ValidTexts
      <3>1. entries[i - 1].text \in Seq(Letters) /\ text \in Seq(Letters)
        BY <1>3, <2>2, <2>3 DEF ValidTexts
      <3>2. entries[i - 1].text \o text \in Seq(Letters)
        BY <3>1, ConcatProperties
      <3> QED
        BY <2>1, <3>2 DEF ValidTexts
    <2>5. Page(Numbers, ValidTexts, {0}, Joined(entries, i, text, 0))
      BY <1>1, <1>4, <2>1, <2>2, <2>4, JoinedPage DEF P
    <2> QED
      BY <2>1, <2>5 DEF P
  <1>8. ASSUME NEW i \in Positions, DeleteEntry(i)
        PROVE  P(entries')
    BY <1>1, <1>3, <1>8, ErasedPage DEF DeleteEntry, Positions, P
  <1>9. ASSUME NEW i \in Positions, Indent(i)
        PROVE  P(entries')
    BY <1>1, <1>3, <1>9, IndentedPage DEF Indent, Positions, P
  <1>10. ASSUME NEW i \in Positions, Outdent(i)
         PROVE  P(entries')
    BY <1>1, <1>3, <1>10, OutdentedPage DEF Outdent, Positions, P
  <1>11. ASSUME NEW i \in Positions, MoveUp(i)
         PROVE  P(entries')
    BY <1>1, <1>3, <1>11, MovedUpPage DEF MoveUp, Positions, P
  <1>12. ASSUME NEW i \in Positions, MoveDown(i)
         PROVE  P(entries')
    BY <1>1, <1>3, <1>12, MovedDownPage DEF MoveDown, Positions, P
  <1>13. ASSUME NEW ids \in SUBSET Ids(entries), DeleteSubtrees(ids)
         PROVE  P(entries')
    BY <1>1, <1>13, WithoutSubtreesPage DEF DeleteSubtrees, P
  <1> QED
    BY <1>5, <1>6, <1>7, <1>8, <1>9, <1>10, <1>11, <1>12, <1>13 DEF Next

\* Whatever the edits do, the entries of the Page are the depth-first walk of a
\* forest, with distinct identifiers and valid texts.
THEOREM AlwaysOrdered == Spec => []Ordered
  <1>1. Init => Ordered
    BY FirstOrdered
  <1>2. Ordered /\ [Next]_entries => Ordered'
    <2>1. CASE Next
      BY <2>1, NextOrdered
    <2>2. CASE UNCHANGED entries
      BY <2>2 DEF Ordered, Page, Tree, Named, Linked, Walk
    <2> QED
      BY <2>1, <2>2
  <1> QED
    BY <1>1, <1>2, PTL DEF Spec

\* The entries are records of their types, and no identifier stands twice.
THEOREM TypeOKHolds == Spec => []TypeOK
  BY AlwaysOrdered, OrderedIs, PTL

\* Every parent stands before its children and its subtree is one run of entries,
\* which is what subtreeEnd and rewriteContainment rely on.
THEOREM PreorderHolds == Spec => []Preorder
  BY AlwaysOrdered, OrderedIs, PTL

\* No text is longer than an Authored Text may be: both parts of a split are shorter
\* than what was cut, and a join too long is refused.
THEOREM TextsWithinLimitHolds == Spec => []TextsWithinLimit(entries)
  BY AlwaysOrdered, OrderedIs, PTL

\* Outdent takes back an indent, and down an up and up a down, whatever subtrees
\* are carried along.
THEOREM MovesTakeBackHolds == Spec => MovesTakeBack
  <1> DEFINE back(i) == PositionOf(entries', entries[i].id)
  <1>1. Ordered => Positions = 1 .. Len(entries)
    BY PageIs DEF Ordered, Positions
  <1>2. ASSUME Ordered, NEW i \in Positions, Indent(i)
        PROVE  Outdented(entries', back(i)) = entries
    <2>1. CanIndent(entries, i) /\ entries' = Indented(entries, i)
      BY <1>2 DEF Indent
    <2> QED
      BY <1>1, <1>2, <2>1, IndentedBack DEF Ordered
  <1>3. ASSUME Ordered, NEW i \in Positions, MoveUp(i)
        PROVE  MovedDown(entries', back(i)) = entries
    <2>1. CanMoveUp(entries, i) /\ entries' = MovedUp(entries, i)
      BY <1>3 DEF MoveUp
    <2> QED
      BY <1>1, <1>3, <2>1, MovedUpBack DEF Ordered
  <1>4. ASSUME Ordered, NEW i \in Positions, MoveDown(i)
        PROVE  MovedUp(entries', back(i)) = entries
    <2>1. CanMoveDown(entries, i) /\ entries' = MovedDown(entries, i)
      BY <1>4 DEF MoveDown
    <2> QED
      BY <1>1, <1>4, <2>1, MovedDownBack DEF Ordered
  <1>5. Ordered => [ \A i \in Positions :
                       LET b == PositionOf(entries', entries[i].id)
                       IN  /\ Indent(i) => Outdented(entries', b) = entries
                           /\ MoveUp(i) => MovedDown(entries', b) = entries
                           /\ MoveDown(i) => MovedUp(entries', b) = entries ]_entries
    BY <1>2, <1>3, <1>4
  <1> QED
    BY <1>5, AlwaysOrdered, PTL DEF MovesTakeBack

\* Of a deleted selection nothing stays behind and nothing else goes; what stays
\* keeps its contents, its parent and its order.
THEOREM DeletionTakesSubtreesHolds == Spec => DeletionTakesSubtrees
  <1>1. Ordered => [ \A ids \in SUBSET Ids(entries) : DeleteSubtrees(ids) =>
            LET left  == {i \in Positions : entries[i].id \in Ids(entries')}
                at(i) == PositionOf(entries', entries[i].id)
            IN  /\ left = {i \in Positions : /\ entries[i].id \notin ids
                                             /\ \A k \in Positions : entries[k].id \in ids =>
                                                   ~(k < i /\ i < SubtreeEnd(entries, k))}
                /\ Ids(entries') \subseteq Ids(entries)
                /\ \A i \in left : /\ entries'[at(i)] = entries[i]
                                   /\ \A k \in left : i < k => at(i) < at(k) ]_entries
    <2> SUFFICES ASSUME Ordered, NEW ids \in SUBSET Ids(entries), DeleteSubtrees(ids)
                 PROVE  LET left  == {i \in Positions : entries[i].id \in Ids(entries')}
                            at(i) == PositionOf(entries', entries[i].id)
                        IN  /\ left = {i \in Positions : /\ entries[i].id \notin ids
                                             /\ \A k \in Positions : entries[k].id \in ids =>
                                                   ~(k < i /\ i < SubtreeEnd(entries, k))}
                            /\ Ids(entries') \subseteq Ids(entries)
                            /\ \A i \in left : /\ entries'[at(i)] = entries[i]
                                               /\ \A k \in left : i < k => at(i) < at(k)
      OBVIOUS
    <2>1. Page(Numbers, ValidTexts, {0}, entries)
      BY DEF Ordered
    <2> DEFINE r == WithoutSubtrees(entries, ids)
    <2>2. entries' = r
      BY DEF DeleteSubtrees
    <2>3. LET left  == {i \in Positions : entries[i].id \in Ids(r)}
              at(i) == PositionOf(r, entries[i].id)
          IN  /\ left = {i \in Positions : /\ entries[i].id \notin ids
                                           /\ \A k \in Positions : entries[k].id \in ids =>
                                                 ~(k < i /\ i < SubtreeEnd(entries, k))}
              /\ Ids(r) \subseteq Ids(entries)
              /\ \A i \in left : /\ r[at(i)] = entries[i]
                                 /\ \A k \in left : i < k => at(i) < at(k)
      BY <2>1, WithoutSubtreesIs DEF Positions
    <2> HIDE DEF r
    <2> QED
      BY <2>2, <2>3
  <1> QED
    BY <1>1, AlwaysOrdered, PTL DEF DeletionTakesSubtrees

\* A split loses no letter and puts what it cuts off behind the subtree; of a leaf it is
\* taken back by a join, which the limit allows; a join leaves the Page reading as before,
\* and no edit makes a text too long.
THEOREM SplitAndJoinKeepTextHolds == Spec => SplitAndJoinKeepText
  <1> DEFINE Wide == Page(Numbers, Seq(Letters), {0}, entries)
  <1>1. ASSUME Ordered
        PROVE  Wide /\ Positions = 1 .. Len(entries) /\ Len(entries) \in Nat
    BY <1>1, OrderedWidens, PageIs DEF Positions
  <1>r. \A es : ReadingText(es) = FlattenSeq(Texts(es))
    BY DEF ReadingText, Texts
  <1>z. 0 \in {0}
    OBVIOUS
  <1>2. ASSUME Ordered, NEW i \in Positions, NEW cut \in 0 .. Len(entries[i].text), SplitEntry(i, cut)
        PROVE  /\ ReadingText(entries') =
                      ReadingText(Slice(entries, 1, i)) \o SubSeq(entries[i].text, 1, cut)
                      \o ReadingText(Slice(entries, i + 1, SubtreeEnd(entries, i)))
                      \o SubSeq(entries[i].text, cut + 1, Len(entries[i].text))
                      \o ReadingText(Slice(entries, SubtreeEnd(entries, i), Len(entries) + 1))
               /\ ~HasChildren(entries, entries[i].id) =>
                      LET back == PositionOf(entries', New)
                      IN  /\ CanJoin(entries', back)
                          /\ ValidAuthoredText(entries'[back - 1].text \o entries'[back].text)
                          /\ Joined(entries', back, entries'[back].text, 0) = entries
    <2> DEFINE U == {0}
               now == 0
               new == New
               r == Split(entries, i, entries[i].text, cut, new, now)
               b == PositionOf(r, new)
    <2>1. entries' = r /\ Unused # {}
      BY <1>2 DEF SplitEntry
    <2>2. new \in Numbers \ Ids(entries) /\ now \in U
      BY <2>1, NewIsUnused
    <2>3. i \in 1 .. Len(entries) /\ cut \in 0 .. Len(entries[i].text)
      BY <1>1, <1>2
    <2>w. Page(Numbers, Seq(Letters), U, entries)
      BY <1>1, <1>2
    <2>n. new = New /\ now = 0
      OBVIOUS
    <2> HIDE DEF U, now, new, Wide
    <2>4. SplitReads(entries, i, cut, r)
      BY <2>2, <2>3, <2>w, SplitTexts
    <2>5. ASSUME ~HasChildren(entries, entries[i].id)
          PROVE  /\ CanJoin(r, b)
                 /\ ValidAuthoredText(r[b - 1].text \o r[b].text)
                 /\ Joined(r, b, r[b].text, now) = entries
      <3>1. entries[i].updated = now /\ ValidAuthoredText(entries[i].text)
        <4>1. entries[i] \in Entry(Numbers, ValidTexts, {0})
          BY <1>2, <2>3, PageIs DEF Ordered
        <4> QED
          BY <4>1 DEF Entry, ValidTexts, now
      <3>2. JoinsTo(r, new, now, entries[i].text, entries)
        BY <2>2, <2>3, <2>w, <2>5, <3>1, SplitBack
      <3> HIDE DEF r
      <3> QED
        BY <3>1, <3>2 DEF JoinsTo
    <2> HIDE DEF r
    <2> QED
      BY <1>r, <2>1, <2>4, <2>5, <2>n DEF SplitReads
  <1>3. ASSUME Ordered, NEW i \in Positions, JoinEntry(i)
        PROVE  ReadingText(entries') = ReadingText(entries)
    <2>1. entries' = Joined(entries, i, entries[i].text, 0) /\ CanJoin(entries, i)
      BY <1>3 DEF JoinEntry
    <2>2. i \in 1 .. Len(entries)
      BY <1>1, <1>3
    <2>3. FlattenSeq(Texts(Joined(entries, i, entries[i].text, 0))) = FlattenSeq(Texts(entries))
      BY <1>1, <1>3, <1>z, <2>1, <2>2, JoinedTexts
    <2> QED
      BY <1>r, <2>1, <2>3
  <1>t. ASSUME Ordered, Next
        PROVE  TextsWithinLimit(entries')
    <2>1. Page(Numbers, ValidTexts, {0}, entries')
      BY <1>t, NextOrdered DEF Ordered
    <2>2. DOMAIN entries' = 1 .. Len(entries')
          /\ \A i \in 1 .. Len(entries') : entries'[i] \in Entry(Numbers, ValidTexts, {0})
      BY <2>1, PageIs
    <2> QED
      BY <2>2 DEF Entry, ValidTexts, TextsWithinLimit
  <1>4. Ordered /\ [Next]_entries => [ TextsWithinLimit(entries') /\ \A i \in Positions :
        LET text == entries[i].text
            end  == SubtreeEnd(entries, i)
        IN  /\ \A cut \in 0 .. Len(text) : SplitEntry(i, cut) =>
                  /\ ReadingText(entries') =
                         ReadingText(Slice(entries, 1, i)) \o SubSeq(text, 1, cut)
                         \o ReadingText(Slice(entries, i + 1, end))
                         \o SubSeq(text, cut + 1, Len(text))
                         \o ReadingText(Slice(entries, end, Len(entries) + 1))
                  /\ ~HasChildren(entries, entries[i].id) =>
                         LET back == PositionOf(entries', New)
                         IN  /\ CanJoin(entries', back)
                             /\ ValidAuthoredText(entries'[back - 1].text \o entries'[back].text)
                             /\ Joined(entries', back, entries'[back].text, 0) = entries
            /\ JoinEntry(i) => ReadingText(entries') = ReadingText(entries) ]_entries
    BY <1>2, <1>3, <1>t
  <1> QED
    BY <1>4, AlwaysOrdered, PTL DEF Spec, SplitAndJoinKeepText
=============================================================================
