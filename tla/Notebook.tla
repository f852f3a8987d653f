------------------------------ MODULE Notebook ------------------------------
(***************************************************************************)
(* One open Notebook: NotebookSession with its store, its session history  *)
(* and every command of the editing interface, each run under the session  *)
(* mutex and in one write transaction.  A command that fails (an early     *)
(* return, a refused write, a failed commit) aborts its transaction and    *)
(* changes nothing, so it is a stuttering step.                            *)
(*                                                                         *)
(* The two variants of the Entry commands, for Journal and Named Pages,    *)
(* share one operator with the variant as a parameter: what they record    *)
(* depends on it.  Here the variant is the kind of the Entry's own Page;   *)
(* module SessionThreads separates the look-up from the command.           *)
(***************************************************************************)
EXTENDS Store, QueryLanguage, HistoryStacks

CONSTANTS Typed,            \* texts a user types: sequences of tokens
          MaxText,          \* tokens an Authored Text may hold (1 MiB in the code)
          Ticks,            \* how far the clock may advance between commands
          InitialStores,    \* Notebooks found on disk
          MaxClock,         \* bound: time at which the last command runs
          MaxRevision       \* bound: commits

Dates == Range(Calendar)

HistoryTracks ==
    {<<"journal", d>> : d \in Dates} \cup {<<"named", p>> : p \in BlockIds} \cup {<<"cross">>}

\* One pair of deques per Journal Date, per Named Page and for cross-Page moves; the
\* budget counts actions here (32 MiB in the code).
ASSUME HistoryTracksAssumption == Tracks = HistoryTracks

ASSUME TextsAssumption == Names \subseteq STRING /\ Typed \subseteq Seq(STRING)
ASSUME TicksAssumption == Ticks \subseteq Nat

\* Pages as they can be: one for a name or a date, every Block in one place, the
\* entries of each in preorder.
PageBlocks ==
    [kind : {"journal"}, key : Dates, updated : Nat]
        \cup [kind : {"named"}, key : Names, updated : Nat]
Entries == [id : BlockIds, text : Seq(STRING), updated : Nat, parent : BlockIds \cup {TopLevel}]

WellFormed(A) ==
    /\ DOMAIN A \subseteq BlockIds /\ DOMAIN A \cap EntriesOf(A) = {}
    /\ \A p \in DOMAIN A :
          /\ A[p] = [id |-> p, page |-> A[p].page, entries |-> A[p].entries]
          /\ A[p].page \in PageBlocks
          /\ A[p].entries \in Seq(Entries) /\ InPreorder(A[p].entries)
    /\ \A p, q \in DOMAIN A : p # q =>
          /\ PageKey(A[p].page) # PageKey(A[q].page)
          /\ Ids(A[p].entries) \cap Ids(A[q].entries) = {}

\* A Notebook on disk was written by the commands below, so its databases hold its Pages.
PagesOn(s) == [p \in PageIds(s) |-> LoadOutline(s, p)]
ASSUME StoresAssumption ==
    \A s \in InitialStores : WellFormed(PagesOn(s)) /\ Holds(s, PagesOn(s))

VARIABLES store,            \* the committed content of the file
          history,          \* the three kinds of deques, the counter and the bytes
          clock,            \* the time of the last command
          issued,           \* identifiers generated so far
          session           \* whether the Notebook is open, and its cached revision

vars == <<store, history, clock, issued, session>>

Kinds == {"journal", "named"}
Containers(s, p) == Ids(LoadOutline(s, p).entries) \cup {TopLevel}

Init ==
    /\ store \in InitialStores
    /\ history = EmptyHistory
    /\ clock = Max({store.blocks[b].updated : b \in DOMAIN store.blocks} \cup {0})
    /\ issued = Max(DOMAIN store.blocks \cup {0})
    /\ session = [open |-> TRUE, revision |-> store.revision]

-----------------------------------------------------------------------------
\* Snapshots: Journal actions keep both outlines of the date, Page actions both
\* states of the Page and the texts a rename rewrote, cross-Page actions four outlines.
JournalAction(before, after) == [before |-> before, after |-> after]
PageAction(before, after, texts) == [before |-> before, after |-> after, texts |-> texts]
CrossAction(beforeSource, beforeDestination, afterSource, afterDestination) ==
    [beforeSource |-> beforeSource, beforeDestination |-> beforeDestination,
     afterSource |-> afterSource, afterDestination |-> afterDestination]
NoTexts == <<>>

\* Faulty: the cached revision is left behind.
CommitUncached(s) ==
    /\ session.open /\ s.revision < MaxRevision
    /\ store' = Committed(s) /\ UNCHANGED session

\* A transaction commits: both revisions advance.
Commit(s) ==
    /\ session.open
    /\ s.revision < MaxRevision
    /\ store' = Committed(s)
    /\ session' = [session EXCEPT !.revision = @ + 1]

\* A command commits and records what it did.
CommitAndRecord(s, track, what) ==
    /\ Commit(s)
    /\ history' = Recorded(history, track, 1, what)

\* The Journal variant records if the Page it found is a Journal Page, and the
\* Named variant refuses a Page that is not Named before it starts.
CommitOutline(kind, s, before, after) ==
    /\ kind = "named" => before.page.kind = "named"
    /\ CASE kind = "named" ->
              CommitAndRecord(s, <<"named", before.id>>, PageAction(before, after, NoTexts))
         [] kind = "journal" /\ before.page.kind = "journal" ->
              CommitAndRecord(s, <<"journal", before.page.key>>, JournalAction(before, after))
         [] OTHER -> Commit(s) /\ UNCHANGED history

\* The structural edit of one Page turns its entries into es and touches containers.
EditOutline(kind, o, es, containers, now) ==
    LET after == Touch([o EXCEPT !.entries = es], containers, now)
    IN  CanReplace(store, o, after) /\ CommitOutline(kind, Replace(store, o, after), o, after)

-----------------------------------------------------------------------------
CreatePage(name, now) ==
    LET o == [id |-> issued + 1, page |-> PageBlock("named", name, now), entries |-> <<>>]
    IN  /\ issued < MaxIds
        /\ CanInsertPage(store, o)
        /\ CommitAndRecord(InsertPage(store, o), <<"named", o.id>>,
                           PageAction(Absent, o, NoTexts))
        /\ clock' = now /\ issued' = o.id

DeletePage(p, now) ==
    LET o == LoadOutline(store, p)
    IN  /\ CommitAndRecord(RemovePage(store, o), <<"named", p>>, PageAction(o, Absent, NoTexts))
        /\ clock' = now /\ UNCHANGED issued

\* The mentions of the old name, Page Links and Query Anchors alike, are rewritten
\* in whatever Entry they stand, without touching the Entry's time.
Mentions(text) == PageLinks(text) \cup PageAnchors(text)

\* Faulty: only the first mention in a text is rewritten.
RenamedOnce(text, old, new) ==
    LET at == {i \in Mentions(text) : text[i] = old}
    IN  [i \in DOMAIN text |-> IF at # {} /\ i = Min(at) THEN new ELSE text[i]]

\* Faulty: the Query Anchors keep the old name.
RenamedLinks(text, old, new) ==
    LET at == {i \in PageLinks(text) : text[i] = old}
    IN  [i \in DOMAIN text |-> IF i \in at THEN new ELSE text[i]]

Renamed(text, old, new) ==
    LET at == {i \in Mentions(text) : text[i] = old}
    IN  [i \in DOMAIN text |-> IF i \in at THEN new ELSE text[i]]
Changed(s, texts) ==
    [e \in {b \in EntryIds(s) : texts[b] # s.blocks[b].text} |->
        [before |-> s.blocks[e].text, after |-> texts[e]]]
TextChanges(s, old, new) ==
    Changed(s, [e \in EntryIds(s) |-> Renamed(s.blocks[e].text, old, new)])
WriteTexts(s, texts, side) ==
    [s EXCEPT !.blocks = Over([e \in DOMAIN texts |-> [@[e] EXCEPT !.text = texts[e][side]]], @)]

\* Renaming to the same name stands for a change of the display title alone.
CommitRename(p, before, after, s, texts) ==
    IF before # after THEN CommitAndRecord(s, <<"named", p>>, PageAction(before, after, texts))
    ELSE Commit(s) /\ UNCHANGED history
RewriteMentions(p, name, texts, now) ==
    LET before == LoadOutline(store, p)
        renamed == [before EXCEPT !.page = PageBlock("named", name, now)]
        s == IndexPage(WritePage(WriteTexts(UnindexPage(store, before), texts, "after"),
                                 renamed), renamed)
    IN  CommitRename(p, before, LoadOutline(s, p), s, texts)
RenamePage(p, name, now) ==
    LET old == store.blocks[p].key
    IN  /\ name # old => <<"named", name>> \notin DOMAIN store.pages
        /\ RewriteMentions(p, name, TextChanges(store, old, name), now)
        /\ clock' = now /\ UNCHANGED issued

NewEntry(id, text, now) == [id |-> id, text |-> text, updated |-> now, parent |-> TopLevel]

InsertPageEntry(p, after, text, now) ==
    LET o == LoadOutline(store, p)
    IN  /\ issued < MaxIds
        /\ EditOutline("named", o, Inserted(o.entries, after, NewEntry(issued + 1, text, now)),
                       {InsertionPoint(o.entries, after).parent}, now)
        /\ clock' = now /\ issued' = issued + 1

\* On a date without a Page the insertion creates it in the same transaction.
InsertJournalEntry(date, after, text, now) ==
    LET before == LoadOutlineForDate(store, date)
        virtual == before = Absent
        page == IF virtual
                THEN [id |-> issued + 1, page |-> PageBlock("journal", date, now),
                      entries |-> <<>>]
                ELSE before
        new == IF virtual THEN issued + 2 ELSE issued + 1
        outline == Touch([page EXCEPT !.entries =
                              Inserted(@, after, NewEntry(new, text, now))],
                         {InsertionPoint(page.entries, after).parent}, now)
        s == IF virtual THEN IndexPage(store, page) ELSE store
    IN  /\ new <= MaxIds
        /\ CanReplace(s, page, outline)
        /\ CommitAndRecord(Replace(s, page, outline), <<"journal", date>>,
                           JournalAction(before, outline))
        /\ clock' = now /\ issued' = new

UpdateEntry(kind, e, text, now) ==
    LET o == LoadOutline(store, PageOf(store, e))
        after == [o EXCEPT !.entries = Stamped(@, e, text, now)]
    IN  /\ store.blocks[e].text # text
        /\ CommitOutline(kind, WriteEntries(store, after), o, after)
        /\ clock' = now /\ UNCHANGED issued

SplitEntry(kind, e, text, cut, now) ==
    LET o == LoadOutline(store, PageOf(store, e))
        i == PositionOf(o.entries, e)
    IN  /\ issued < MaxIds
        /\ EditOutline(kind, o, Split(o.entries, i, text, cut, issued + 1, now),
                       {o.entries[i].parent}, now)
        /\ clock' = now /\ issued' = issued + 1

JoinEntry(kind, e, text, now) ==
    LET o == LoadOutline(store, PageOf(store, e))
        i == PositionOf(o.entries, e)
    IN  /\ CanJoin(o.entries, i)
        /\ Len(o.entries[i - 1].text) + Len(text) <= MaxText
        /\ EditOutline(kind, o, Joined(o.entries, i, text, now), {o.entries[i].parent}, now)
        /\ clock' = now /\ UNCHANGED issued

DeleteEntry(kind, e, now) ==
    LET o == LoadOutline(store, PageOf(store, e))
        i == PositionOf(o.entries, e)
    IN  /\ CanErase(o.entries, i)
        /\ EditOutline(kind, o, Erased(o.entries, i), {o.entries[i].parent}, now)
        /\ clock' = now /\ UNCHANGED issued

\* Indent, outdent, up and down take the pending text along.
Movements == {"indent", "outdent", "up", "down"}

MoveEntry(kind, e, movement, text, now) ==
    LET o == LoadOutline(store, PageOf(store, e))
        es == o.entries
        i == PositionOf(es, e)
        moved(result, containers) ==
            /\ EditOutline(kind, o, Stamped(result, e, text, now), containers, now)
            /\ clock' = now /\ UNCHANGED issued
    IN  \/ /\ movement = "indent" /\ CanIndent(es, i)
           /\ moved(Indented(es, i), {es[i].parent, Indented(es, i)[i].parent})
        \/ /\ movement = "outdent" /\ CanOutdent(es, i)
           /\ moved(Outdented(es, i), {es[i].parent, GrandParent(es, i)})
        \/ /\ movement = "up" /\ CanMoveUp(es, i)
           /\ moved(MovedUp(es, i), {es[i].parent})
        \/ /\ movement = "down" /\ CanMoveDown(es, i)
           /\ moved(MovedDown(es, i), {es[i].parent})

DeleteSubtrees(kind, ids, now) ==
    LET e == CHOOSE b \in ids : TRUE
        o == LoadOutline(store, PageOf(store, e))
        roots == SelectedRoots(o.entries, ids)
    IN  /\ ids \subseteq Ids(o.entries)
        /\ EditOutline(kind, o, WithoutSubtrees(o.entries, ids),
                       {o.entries[PositionOf(o.entries, b)].parent : b \in roots}, now)
        /\ clock' = now /\ UNCHANGED issued

\* A subtree moves to the Page with this kind and key; a date without a Page gets one.
MoveEntryToPage(e, kind, key, after, now) ==
    LET source == LoadOutline(store, PageOf(store, e))
        virtual == <<kind, key>> \notin DOMAIN store.pages
        beforeDestination == IF virtual THEN Absent ELSE LoadOutline(store, store.pages[<<kind, key>>])
        destination == IF virtual
                       THEN [id |-> issued + 1, page |-> PageBlock(kind, key, now),
                             entries |-> <<>>]
                       ELSE beforeDestination
        i == PositionOf(source.entries, e)
        to == InsertionPoint(destination.entries, after)
        left == Touch([source EXCEPT !.entries = Without(@, i, SubtreeEnd(@, i))],
                      {source.entries[i].parent}, now)
        arrived == Touch([destination EXCEPT !.entries =
                              Spliced(@, to.at, MovingSubtree(source.entries, i, to.parent, now))],
                         {to.parent}, now)
        erased == EraseContainment(store, Ids(source.entries) \cup Ids(destination.entries))
        indexed == IF virtual THEN IndexPage(erased, destination) ELSE erased
        written == WriteEntries(WriteEntries(WritePage(WritePage(indexed, left), arrived), left),
                                arrived)
    IN  /\ virtual => kind = "journal" /\ after = TopLevel /\ issued < MaxIds
        /\ source.id # destination.id
        /\ after \in Ids(destination.entries) \cup {TopLevel}
        /\ CommitAndRecord(WriteContainment(WriteContainment(written, left), arrived),
                           <<"cross">>, CrossAction(source, beforeDestination, left, arrived))
        /\ clock' = now /\ issued' = IF virtual THEN issued + 1 ELSE issued

-----------------------------------------------------------------------------
\* restoreOutline: whatever is on the date now gives way to the snapshot.
WithoutDate(s, date) ==
    LET current == LoadOutlineForDate(s, date)
    IN  IF current = Absent THEN s ELSE RemovePage(s, current)
CanRestoreOutline(s, date, target) ==
    target = Absent \/ CanInsertPage(WithoutDate(s, date), target)
RestoreOutline(s, date, target) ==
    LET cleared == WithoutDate(s, date)
    IN  IF target = Absent THEN cleared ELSE InsertPage(cleared, target)

\* restorePageState: the same for a Named Page, then the texts a rename rewrote.
WithoutPage(s, p) == IF p \in DOMAIN s.blocks THEN RemovePage(s, LoadOutline(s, p)) ELSE s
PageRestored(s, p, target) ==
    LET cleared == WithoutPage(s, p)
    IN  IF target = Absent THEN cleared ELSE InsertPage(cleared, target)
CanRestorePage(s, p, target, texts) ==
    /\ target = Absent \/ CanInsertPage(WithoutPage(s, p), target)
    /\ DOMAIN texts \subseteq DOMAIN PageRestored(s, p, target).blocks

\* Faulty: the texts that a rename rewrote on other Pages stay rewritten.
RestorePageAlone(s, p, target, texts, side) == PageRestored(s, p, target)

RestorePage(s, p, target, texts, side) ==
    WriteTexts(PageRestored(s, p, target), texts, side)

\* applyCrossPageHistory: the recorded outlines of the side left, not the current
\* ones, say which orderings to erase.

\* Faulty: the ordering of the destination is left in place.
CrossErasedSource(s, fromSource, fromDestination) ==
    EraseContainment(s, Ids(fromSource.entries))

CrossErased(s, fromSource, fromDestination) ==
    EraseContainment(s, Ids(fromSource.entries) \cup Ids(fromDestination.entries))
CrossPages(s, fromDestination, toSource, toDestination) ==
    LET sourced == WritePage(s, toSource)
    IN  IF toDestination = Absent
        THEN UnindexPage(DeleteBlocks(sourced, {fromDestination.id}), fromDestination)
        ELSE LET paged == WritePage(sourced, toDestination)
             IN  IF fromDestination = Absent THEN IndexPage(paged, toDestination) ELSE paged
CanApplyCross(s, fromSource, fromDestination, toSource, toDestination) ==
    LET erased == CrossErased(s, fromSource, fromDestination)
        entries == Ids(toSource.entries) \cup Ids(toDestination.entries)
    IN  /\ CanEraseContainment(s, Ids(fromSource.entries) \cup Ids(fromDestination.entries))
        /\ fromDestination = Absent => PageKey(toDestination.page) \notin DOMAIN s.pages
        /\ entries \subseteq EntryIds(s)
        /\ CanWriteContainment(erased, toSource)
        /\ CanWriteContainment(WriteContainment(erased, toSource), toDestination)
ApplyCross(s, fromSource, fromDestination, toSource, toDestination) ==
    LET paged == CrossPages(CrossErased(s, fromSource, fromDestination),
                            fromDestination, toSource, toDestination)
        written == WriteContainment(WriteEntries(paged, toSource), toSource)
    IN  IF toDestination = Absent
        THEN written
        ELSE WriteContainment(WriteEntries(written, toDestination), toDestination)

\* Taking an action of a track back, or taking it again.
CanApply(s, track, what, redo) ==
    CASE track[1] = "journal" ->
            CanRestoreOutline(s, track[2], IF redo THEN what.after ELSE what.before)
      [] track[1] = "named" ->
            CanRestorePage(s, track[2], IF redo THEN what.after ELSE what.before, what.texts)
      [] OTHER ->
            IF redo
            THEN CanApplyCross(s, what.beforeSource, what.beforeDestination,
                               what.afterSource, what.afterDestination)
            ELSE CanApplyCross(s, what.afterSource, what.afterDestination,
                               what.beforeSource, what.beforeDestination)

Apply(s, track, what, redo) ==
    CASE track[1] = "journal" ->
            RestoreOutline(s, track[2], IF redo THEN what.after ELSE what.before)
      [] track[1] = "named" ->
            RestorePage(s, track[2], IF redo THEN what.after ELSE what.before, what.texts,
                        IF redo THEN "after" ELSE "before")
      [] OTHER ->
            IF redo
            THEN ApplyCross(s, what.beforeSource, what.beforeDestination,
                            what.afterSource, what.afterDestination)
            ELSE ApplyCross(s, what.afterSource, what.afterDestination,
                            what.beforeSource, what.beforeDestination)

UndoEdit(t) ==
    /\ NewestUndo(history, t)
    /\ CanApply(store, t, Last(history.undo[t]).what, FALSE)
    /\ Commit(Apply(store, t, Last(history.undo[t]).what, FALSE))
    /\ history' = Undone(history, t)
    /\ UNCHANGED <<clock, issued>>

RedoEdit(t) ==
    /\ OldestRedo(history, t)
    /\ CanApply(store, t, Last(history.redo[t]).what, TRUE)
    /\ Commit(Apply(store, t, Last(history.redo[t]).what, TRUE))
    /\ history' = Redone(history, t)
    /\ UNCHANGED <<clock, issued>>

Close ==
    /\ session.open
    /\ session' = [open |-> FALSE, revision |-> 0]
    /\ history' = EmptyHistory
    /\ UNCHANGED <<store, clock, issued>>

Open ==
    /\ ~session.open
    /\ session' = [open |-> TRUE, revision |-> store.revision]
    /\ UNCHANGED <<store, history, clock, issued>>
-----------------------------------------------------------------------------
\* Commands on one Entry, in the variant the dispatch chose.
EntryCommand(kind, e, now) ==
    \/ \E text \in Typed :
          \/ UpdateEntry(kind, e, text, now)
          \/ JoinEntry(kind, e, text, now)
          \/ \E cut \in 0 .. Len(text) : SplitEntry(kind, e, text, cut, now)
          \/ \E movement \in Movements : MoveEntry(kind, e, movement, text, now)
    \/ DeleteEntry(kind, e, now)

PageCommand(now) ==
    \/ \E name \in Names : CreatePage(name, now)
    \/ \E p \in NamedPages(store) :
          \/ DeletePage(p, now)
          \/ \E name \in Names : RenamePage(p, name, now)
          \/ \E after \in Containers(store, p), text \in Typed :
                InsertPageEntry(p, after, text, now)
    \/ \E date \in Dates, text \in Typed :
          \E after \in Ids(LoadOutlineForDate(store, date).entries) \cup {TopLevel} :
             InsertJournalEntry(date, after, text, now)

Destinations == {<<"journal", d>> : d \in Dates} \cup {PageKey(store.blocks[p]) : p \in NamedPages(store)}

MoveCommand(now) ==
    \E e \in EntryIds(store), to \in Destinations :
        \E after \in EntryIds(store) \cup {TopLevel} :
            MoveEntryToPage(e, to[1], to[2], after, now)

\* The kind of the Page an Entry is on, as entryPageKind finds it.
PageKind(e) == store.blocks[PageOf(store, e)].kind

Command(now) ==
    \/ PageCommand(now)
    \/ \E e \in EntryIds(store) : EntryCommand(PageKind(e), e, now)
    \/ \E p \in PageIds(store) :
          \E ids \in (SUBSET Ids(LoadOutline(store, p).entries)) \ {{}} :
             DeleteSubtrees(store.blocks[p].kind, ids, now)
    \/ MoveCommand(now)

Next ==
    \/ \E tick \in Ticks : clock + tick <= MaxClock /\ Command(clock + tick)
    \/ \E t \in HistoryTracks : UndoEdit(t) \/ RedoEdit(t)
    \/ Close
    \/ Open

Spec == Init /\ [][Next]_vars
-----------------------------------------------------------------------------
\* An open session caches the revision of the last commit, and no Block bears an
\* identifier or a time that has not been handed out yet.
TypeOK ==
    /\ session.open => session.revision = store.revision
    /\ \A b \in DOMAIN store.blocks : b <= issued /\ store.blocks[b].updated <= clock
    /\ HistoryRecord(history)

\* ADR-0023: after every commit each Entry has one parent and one rank in both
\* containment databases, and its chain of parents ends at exactly one Page,
\* whatever outlines rewriteContainment was given.
PageRootedContainment == PageRooted(store)

\* pagesByName and journalByDate hold each Page under the name or date it bears,
\* through creation, rename, deletion, materialization and their reversals.
PageIndexesAgree == PagesIndexed(store)

\* An acknowledged action can always be taken back, and one taken back can be
\* taken again: the writes of restoreOutline, restorePageState and
\* applyCrossPageHistory never meet a key that is taken or missing.
HistoryNeverStuck ==
    \A t \in HistoryTracks :
        /\ NewestUndo(history, t) => CanApply(store, t, Last(history.undo[t]).what, FALSE)
        /\ OldestRedo(history, t) => CanApply(store, t, Last(history.redo[t]).what, TRUE)

-----------------------------------------------------------------------------
\* What the history as a whole would restore, one action after the other.
Content(s) == [s EXCEPT !.revision = 0]

\* Every state that one more undoEdit (or redoEdit) leads to from these.
Steps(states, redo) ==
    UNION {{[store |-> IF CanApply(at.store, t, Last(stack[t]).what, redo)
                       THEN Apply(at.store, t, Last(stack[t]).what, redo)
                       ELSE at.store,
             history |-> IF redo THEN Redone(at.history, t) ELSE Undone(at.history, t)] :
                stack \in {IF redo THEN at.history.redo ELSE at.history.undo},
                t \in {u \in HistoryTracks : IF redo THEN OldestRedo(at.history, u)
                                                     ELSE NewestUndo(at.history, u)}} :
           at \in states}

\* The states reached by repeating undoEdit (or redoEdit), the nearest last.
Replayed(redo) ==
    LET stacks == IF redo THEN history.redo ELSE history.undo
        n == SumFunction([t \in HistoryTracks |-> Len(stacks[t])])
        at[k \in 0 .. n] == IF k = 0 THEN {[store |-> store, history |-> history]}
                                     ELSE Steps(at[k - 1], redo)
    IN  [k \in 1 .. n |-> LET reached == CHOOSE s \in at[n + 1 - k] : TRUE
                          IN  Content(reached.store)]

Linear == INSTANCE LinearHistory
    WITH past <- Replayed(FALSE), present <- Content(store), future <- Replayed(TRUE)

\* ADR-0022: the per-Date, per-Page and cross-Page deques of partial snapshots
\* together behave as one history of whole-Notebook states.
RefinesLinearHistory == Linear!Spec

-----------------------------------------------------------------------------
\* A command was recorded, as opposed to undo, redo, open and close.
Commanded == history'.next > history.next
Kept == DOMAIN store.blocks \cap DOMAIN store'.blocks

\* ADR-0020: a command stamps every container whose ordered children changed; of
\* the Blocks whose content, children and place it left alone it stamps at most
\* the one it was given.
TimestampsFollowEdits ==
    [][ Commanded =>
          LET children(s, b) == ChildrenOf(s, b)
              own(s, b) == IF IsPage(s, b) THEN PageKey(s.blocks[b]) ELSE <<"entry", s.blocks[b].text>>
              parent(s, b) == IF IsPage(s, b) THEN 0 ELSE s.byChild[b][1]
              stamped(b) == store'.blocks[b].updated # store.blocks[b].updated
              quiet == {b \in Kept : /\ children(store, b) = children(store', b)
                                     /\ own(store, b) = own(store', b)
                                     /\ parent(store, b) = parent(store', b)}
          IN  /\ \A b \in Kept : children(store, b) # children(store', b) =>
                     store'.blocks[b].updated = clock'
              /\ Cardinality({b \in quiet : stamped(b)}) <= 1 ]_vars

\* The Page a mention in an Entry's text leads to.
Leads(s, e, i, p) ==
    /\ i \in Mentions(s.blocks[e].text)
    /\ <<"named", s.blocks[e].text[i]>> \in DOMAIN s.pages
    /\ s.pages[<<"named", s.blocks[e].text[i]>>] = p

\* ADR-0013: every mention of a renamed Page still leads to it, on whatever Page
\* it stands, the rest of the text is as it was, and the rewriting stamps no Entry.
RenameKeepsMentions ==
    [][ \A p \in NamedPages(store) \cap Kept :
          Commanded /\ PageKey(store.blocks[p]) # PageKey(store'.blocks[p]) =>
              \A e \in EntryIds(store) :
                  /\ e \in EntryIds(store')
                  /\ store'.blocks[e].updated = store.blocks[e].updated
                  /\ \A i \in DOMAIN store.blocks[e].text :
                        IF Leads(store, e, i, p) THEN Leads(store', e, i, p)
                        ELSE store'.blocks[e].text[i] = store.blocks[e].text[i] ]_vars

\* A move between Pages, ADR-0023: the subtree arrives whole, with the same texts,
\* the same descendants in the same order and only its root stamped.
MovesKeepSubtrees ==
    [][ \A e \in EntryIds(store) :
          Commanded /\ e \in Kept /\ PageOf(store, e) # PageOf(store', e) =>
              /\ store'.blocks[e].text = store.blocks[e].text
              /\ ChildrenOf(store', e) = ChildrenOf(store, e)
              /\ store.byChild[e][1] # store'.byChild[e][1] =>
                     store'.blocks[e].updated = clock'
              /\ store.byChild[e][1] = store'.byChild[e][1] =>
                     store'.blocks[e].updated = store.blocks[e].updated ]_vars
=============================================================================
