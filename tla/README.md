# A verification project for Hieda

Hieda is a desktop outliner.  A *Notebook* is one file; it holds *Blocks*, which are *Pages*
(Named Pages and Journal Pages, one per date) and *Entries* (texts ordered below a Page or below
another Entry).  The core is `NotebookSession`, a synchronous C++ module that owns one open
Notebook and is called from several threads; on top of it a Qt controller and a QML window.

This directory holds TLA+ modules translated from that source, TLC runs that check them on small
instances, and proofs that TLAPS checks.  Paths below are relative to the repository.

## The system

| Part | Source | State it keeps | Operations |
|---|---|---|---|
| Notebook session | `src/notebook/notebook_session.cpp`, `include/hieda/notebook/notebook_session.hpp` | one mutex; the open store, the cached Notebook info and revision, the subscribers | create, open, close; every editing command; reads; undo, redo |
| Session history | same file, `Impl::record*History` to `applyCrossPageHistory` | a pair of deques per Journal Date, per Named Page, and one for cross-Page moves; a counter; a byte total | record, clear redo, evict, undo, redo |
| Outline editing | same file, `editOutline`, `insert*Entry`, `deleteSubtrees`, `moveEntryToPage` | a Page's Entries in preorder (inside a transaction) | insert, split, join, delete, indent, outdent, up, down, delete selection, move to another Page |
| Store | `openJournalDatabases`, `*Containment`, `loadOutline`; `src/notebook/miare_store.hpp` | Blocks; containment by parent and rank, and by child; Pages by name and by date; revision; derived indexes | reads and writes in one transaction |
| References and links | `rebuildSemanticReferenceIndexes`, linked references | indexes derived at every commit; cursors with a revision | rebuild, paged reads |
| Query language | `src/notebook/query_parser.cpp`, `query_evaluator.cpp`, `evaluateQuery` | none (a function of a snapshot); cursors | parse, evaluate, page through results |
| Authored Text | `src/notebook/authored_text_parser.cpp` | none | find links, references, properties |
| Lifecycle and files | `createEnvironment`, `openEnvironment`, `src/notebook/platform_file*.cpp` | lock file, temporary file, data file | create and publish, lock, open, close |
| Live Queries and closing | `src/app/notebook_controller.cpp` | active Queries, waiting requests, generations, cursors, one worker, close and quit requests | activate, deactivate, refresh, load more, close, quit, open |
| Controller, the rest | same file | the Page on screen, previews, references | recomputed from the session |
| Editor window | `qml/Main.qml` | drafts, a typing timer, focus, selection | commits typed text after a pause, on focus loss, before structural commands |

How they interact: QML calls the controller, the controller the session, both on the GUI thread.  A
session command takes the mutex, runs in one write transaction, records history, copies the
subscribers, releases the mutex and calls them.  The controller's subscriber refreshes references
and Queries.  A Query is evaluated on a worker thread, on a snapshot taken under the mutex; its
answer returns to the GUI thread as an event.  A close waits for that worker.

What is hard: commands made of several critical sections (an Entry's Page kind is looked up first,
the variant for that kind runs afterwards); history kept as partial snapshots on many deques that
must behave as one; two copies of the ordering of Entries written in place; answers overtaken by
commits, collapsing and closing; failures between a commit and what should follow it.

What makes each part correct:

* history: one chronological order, undo and redo inverse, exact byte count, bounded memory without
  losing the newest action, never a stuck undo;
* outline: always a preorder of a forest, each edit the edit the user means, subtrees kept together;
* store: both orderings agree and every Entry is on exactly one Page; the indexes find exactly the
  Pages there are;
* session: every command recorded, times stamped as ADR-0020 says, links survive renames, no commit
  unobserved;
* lifecycle: what appears at the path is a whole Notebook, it has one owner at most, an acknowledged
  one is never lost, no file is overwritten, every call returns and gives back its locks;
* reads: what arrives in batches adds up to the whole answer of one revision; the Query evaluator, the
  derived databases and the hierarchy agree; renames keep what Queries find;
* Live Queries: rows on screen are current or marked as loading, batches never mix revisions, loading
  ends, closes happen, the application exits only when asked.

## The modules

| Module | Models | State | Main operators and actions |
|---|---|---|---|
| `HistoryStacks` | the deques, as values | none | `Recorded` (clear redo, number, push, evict), `NewestUndo`, `OldestRedo`, `Undone`, `Redone` |
| `EditingHistory` | the life of the history while a Notebook is open | `history` | `RecordCommand`, `UndoEdit`, `RedoEdit`, `Close` |
| `LinearHistory` | abstract: one history of whole Notebooks with one position (ADR-0022) | `past`, `present`, `future` | `Command`, `Undo`, `Redo`, `Close` |
| `Outline` | the structural edits of a preorder sequence | none | `Split`, `Joined`, `Indented`, `Outdented`, `MovedUp`, `WithoutSubtrees`, `MovingSubtree`, ... |
| `OutlineEdits` | every outline reachable by those edits | `entries` | one action per edit |
| `Store` | the logical databases and what a transaction does to them | none | `LoadOutline`, `EraseContainment`, `WriteContainment`, `Replace`, `InsertPage`, `RemovePage` |
| `Notebook` | one open Notebook used by one caller | `store`, `history`, `clock`, `issued`, `session` | one action per command, `UndoEdit`, `RedoEdit`, `Close`, `Open` |
| `SessionThreads` | several threads calling the session | the above, `calls`, `observed` | `LookUp` then `RunCommand`; `Compose`, `LookUpComposed`, `RunUpdate`; `Notify`; ... |
| `NotebookFile` | create, open and close by several processes, each a sequence of file operations | `content`, `path`, `temps`, `flushed`, `lock`, `at`, `env`, `draft`, ... | one action per file operation and per way it fails; `Crash`, `PowerLoss`, `PlaceFile` |
| `NotebookOwnership` | abstract: one Notebook, one owner, nothing acknowledged is lost (ADR-0026) | `notebook`, `owner`, `promised` | `Appear`, `Take`, `Leave`, `Vanish` |
| `AuthoredText` | the notation of texts, on tokens | none | `PageLinks`, `BlockReferences`, `Properties`, `HasQueryIntent` |
| `QueryLanguage` | the Query parser, on tokens | none | `Predicates`, `ParseQuery`, `PageAnchors` |
| `QueryEvaluation` | the Query evaluator | none | `Matches`, `RowBefore`, `Evaluate` |
| `NotebookReads` | reads of an open Notebook while it changes | those of `Notebook`, `derived`, `reader` | `Write` (any command, with the rebuilding of `derived`), `ReadFirst`, `ReadNext`, `AskOccurrences` to `AnswerOccurrences`, `GiveUp` |
| `QueryScheduler` | Live Queries, the worker, close and quit in the controller | `sched`, `shown`, `closeRequested`, `quitRequested`, ... | one action per handler, `Evaluate` for the worker |
| `HistoryStacks_proofs`, `EditingHistory_proofs`, `Outline_proofs`, `OutlineEdits_proofs`, `QueryScheduler_proofs`, `NotebookFile_proofs`, `Notebook_proofs`, `NotebookBehaviours_proofs` | the proofs | | |
| `MCNotebook`, `MCOutlineEdits`, `MCSessionThreads`, `MCNotebookReads` | values for TLC | | |

`Notebook` extends `Store`, which extends `Outline`, and `QueryLanguage`, which extends
`AuthoredText`, and `HistoryStacks`, whose `Tracks` are given the value `HistoryTracks`: one per
Journal Date, per Named Page and one for cross-Page moves.  `SessionThreads` extends `Notebook` and runs its commands as its own
steps; `NotebookReads` extends `Notebook` and `QueryEvaluation` and composes every command with a
reader.  `NotebookFile` stands by itself: what an open Notebook does to its file are transactions.  An operator whose comment begins with *Faulty* is a
plausible bug; no module uses it, and each property is violated when the definition after it is
replaced by it.

How the state corresponds to the code:

* `history.undo[t]` and `history.redo[t]` are the deques of the track `t`, back of the deque last.
  `next` is `nextHistorySequence`, `bytes` is `historyBytes`.  `what` is the snapshot an action
  keeps: two outlines, two Page states with the texts a rename rewrote, or four outlines.
* `store.byParent` and `store.byChild` are the two containment databases.  A rank counts in units of
  the gap `rewriteContainment` leaves; every command rewrites the ranks of the Pages it changes from
  scratch, so other ranks never occur.  `storeNoOverwrite` is the guard `CanWriteContainment` and
  `CanInsertPage`; a refused write aborts the transaction, so the action is not enabled.
* A text is a sequence of tokens of the notation.  A Page's name stands for `[[name]]`, a reference
  token for `[[block:UUID]]`, a key token for `key::` at the start of a line; backslash, new line,
  blank, quote, parentheses, `{{query` and `}}` are tokens, as is every keyword of Queries, and any
  other token is a word.  Whether a name in a text is a link, is escaped, is part of a Property's
  value or is an anchor of a Query is decided by `AuthoredText` and `QueryLanguage` as the code does.
* A predicate is known by the position it starts at.  Of a parse error only its presence is kept.
* `Spelling` gives names as bytes, for the order and the prefixes of the hierarchy.
* `derived` holds what `rebuildSemanticReferenceIndexes` writes: the resolved links of each source,
  the sources of each target, the Properties.  `incrementRevision` calls it in every transaction
  that commits.
* `reader` is one caller in the middle of an enumeration: what it has got, its cursor (an offset or
  a segment, a revision and what it continues), and for `linkedReferenceOccurrences` the critical section it is in.
* Identifiers count in the order of creation; ties of update times are broken by identifier, as the
  code does with its time-ordered identifiers.
* In `NotebookFile` files are numbered and names point to them, so that linking, unlinking and making
  a new file at a path are told apart.  `at` is how far each session's call has come, `env` the file
  it has open in Miare, `draft` the file it is creating, `promised` the files whose creation it
  acknowledged.  A `draft` or a `blank` file is a Miare database without the Notebook's schema, a
  `bare` one a Notebook without current derived indexes, which `open` backfills.
* `clock` is the time of the last command, `issued` the last identifier generated.
* `calls[t]` says in which of its critical sections a thread's call is; `observed` is what the
  subscriber last read.
* `sched.task` is the request in the worker's hands and its answer; `shown[q]` names the batches the
  rows of a Query come from; `wanted` is what the delegates last said with `setQueryActive`, and
  `asked` whether the user asked to quit since a close was last answered: both only remember inputs.

Failures: a command that fails aborts its transaction and changes nothing, so it is a stuttering
step.  Closing the store may fail when `CloseCanFail` is true.  In `NotebookFile` every step of create
and open may fail, a commit may report an error and have happened all the same, a process may end at
any point, and a power failure ends all of them and may take back a directory entry that was not
flushed.

## The runs

| Run | Question | Bounds | Outcome |
|---|---|---|---|
| `editing_history` | is the set of deques one chronological, correctly counted history? | three tracks, sizes 1, 3 and 7 against a budget of 6, five actions | holds |
| `outline_edits` | does each edit of the flat sequence do what it means on the forest, and what do splits and joins do to the texts? | up to four Entries, texts of up to two letters | holds |
| `notebook_commands` | do all commands keep the databases, the times, the links and the history right? | five Notebooks on disk, two commands of any kind and two reversals, or three commands; a budget of two actions, seven Blocks | holds |
| `session_threads` | what survives any interleaving of two callers? | a Journal Page with an Entry beside an empty Named Page, two threads, four commits: two commands and two reversals | holds |
| `query_scheduler` | are rows current, does loading end, do closes happen? | two Queries of two batches, two commits, four requests each | holds |
| `notebook_file` | do create, open and close keep their promises through failures? | two processes, four files ever made | holds |
| `notebook_reads` | do enumerations, Queries, derived databases and renames agree? | three Notebooks with two Queries and one of nested names, one command of any kind and its reversal, batches of one and of two | holds |
| `hierarchy_listing` | is a level of the hierarchy listed once and in order? | the Pages `a`, `a-b` and `a/c`, one command and its reversal | violated |
| `stale_variant` | is every committed command recorded when two threads interleave? | as `session_threads` | violated |
| `lost_text` | does inserting a reference keep the rest of the text? | as `session_threads` | violated |
| `failed_close` | are rows current after a close that failed? | as `query_scheduler` | violated |
| `stale_quit` | does the application exit only when asked? | as `query_scheduler` | violated |

Why the bounds are enough to be worth something.  In `editing_history` an action of size 7 exceeds
the budget by itself, two of size 3 meet it exactly, and five actions let an eviction drop actions
of every track between undos.  Four Entries contain every relative position the edits distinguish
(parent, previous and next sibling, child, cousin), and an outdent past a sibling's subtree; four
letters cut and joined at every place make texts that are together too long for the limit of two.  The
run tells outlines apart up to the choice of identifiers (`VIEW Shape`), which the edits only compare.
In `notebook_commands` two commands and two reversals reach every pair of commands of all kinds,
among them a rename of a Page that mentions itself beside an escaped mention, moves that materialize a
Journal Page, and deletions of what was moved; the two Notebooks of time 0 take three commands, one
more than the budget, so that evictions happen among cross-Page moves.  In `session_threads` a second
command follows the one that made a looked-up Page kind stale, and both can be taken back.  In
`notebook_file` four files are enough for a file found, a creation that fails, one that succeeds and
a file another program puts there.  In `notebook_reads` answers have up to three sources or results
and four occurrences, so that batches of one and of two leave a cursor, and the command may come
before, between or after the batches.  A cursor of one Query may be handed to the other one, and that
of a level of the hierarchy to another level.  In `query_scheduler` four generations let a Query be refreshed, collapsed, reopened and asked for more while an old
answer is on its way.  Times of commands strictly increase, as commands take longer than the clock's
resolution; equal times are a matter of `TimestampsFollowEdits` only.  The named bounds are
`MaxSequence`, `MaxEntries`, `MaxLetters`, `MaxIds`, `MaxText` (also a limit of the code: 1 MiB), `MaxClock`,
`MaxRevision`, `MaxGeneration`, `MaxBatches` and `MaxFiles`; `BatchSize` (100 in the code) and
`OccurrenceBatch` (3) are constants.

What the runs show, property by property:

* `Chronology`, `UndoRedoInverse`, `NewestIsUndoable`, `BytesAccounted`,
  `WithinBudget`: undo takes the newest action, redo the oldest undone one, each
  reverses the other, the unsigned byte total never drifts, and eviction never takes the newest.
* `Preorder`, `EditsMeanForestEdits`, `DeletionTakesSubtrees`, `MovesTakeBack`: the index arithmetic
  of `editOutline` is right.
* `SplitAndJoinKeepText`: no letter is lost, doubled or altered.  What a split cuts off comes behind
  the subtree of its Entry, so a Page reads as before when the Entry is a leaf; joining the new Entry
  then takes the split back.  A join leaves the Page reading as before.  Texts that are valid by
  themselves may be too long together, and such a join is refused.
* `PageRootedContainment`, `PageIndexesAgree`, `HistoryNeverStuck`: after any commands the databases
  agree, and the next undo and redo can always be applied, although they write recorded outlines
  over whatever is there with `storeNoOverwrite`.
* `RefinesLinearHistory`: replaying the deques from the present state gives the states a linear
  history of whole Notebooks would hold.  The mapping computes `past` by undoing repeatedly and
  `future` by redoing repeatedly; a partial snapshot that misses something another command changed
  (the texts a rename rewrote, say) breaks it.
* `TimestampsFollowEdits`, `RenameKeepsMentions`, `MovesKeepSubtrees`: ADR-0020, ADR-0013 and
  ADR-0023 as step properties; a mention is a link outside Queries or an anchor inside one, never an
  escaped name or part of a Property.
* `StaleVariantsKeepContainment`, `EveryCommitObserved`: whatever variant a thread runs on a Page
  that has changed kind, the databases stay consistent, and callbacks outside the mutex miss nothing.
* `NoTaskWithoutSession`, `WorkerNotIdle`, `WantedQueriesAreCurrent`, `RowsOfOneRevision`,
  `LoadingEnds`, `CloseHappens`, `ExitsOnlyWhenAsked`: ADR-0025 and ADR-0026, when closing succeeds.

* `LocksGivenBack`, `CreatorOpensFirst`, `NoDraftPublished`, `NothingOverwritten`, `CallsReturn`: the
  order of lock, draft, schema, link, flush and open is right at every failure.  Two things are weaker
  than one might think, and the properties say so: an *empty* file at the path is removed and replaced
  when it is opened, even if opening then fails; and only an acknowledged creation survives a power
  failure, since `open` never flushes the directory.  A creation whose flush fails reports an error
  although the Notebook is there, and a retry is told that the path exists.
* `RefinesOwnership`: seen through the file operations, a Notebook is there or not, has one owner at
  most, and is not lost once its creation was acknowledged.
* `EnumerationsAreWhole`: whatever commits between two batches, or between the five critical sections
  of `linkedReferenceOccurrences`, an enumeration that ends without an error has given every source,
  result or occurrence of one revision once and in order (ADR-0016).  The cursor of a Query handed to
  another Query is refused, else that one's answer would begin in the middle.
* `QueriesAgreeWithReads`: the evaluator resolves names and references from texts and climbs parents;
  its answers agree with the derived databases, the containment and the hierarchy.
* `RenameKeepsQueries`: after a rename, Queries made of relations, references, conjunctions and
  disjunctions still find what they found (ADR-0025).  Excluded are subtree predicates: `renamePage` renames one Page, so its descendants leave the subtree.
* `ListingAgreesWithLookup`: a level of the hierarchy, and what its batches have brought so far, lists
  the nodes a look-up by name finds, in order.  It holds for names that sort a slash first
  wherever they differ (`SlashSortsFirst`), and is violated in `hierarchy_listing`.  A cursor of another
  level is refused here too.

The five violations are disagreements between the code and what the repository says of it; they are
listed in `PROJECT.json` with the lines that disagree.

1. `updateEntry`, `splitEntry` and their kin look up the Page kind in one critical section and run
   the variant for it in another.  If the Entry moves from a Journal Page to a Named Page in
   between, the edit commits without being recorded and leaves the redo branch standing.
2. `insertBlockReference` composes the new text outside the mutex and overwrites what another thread
   committed meanwhile.
3. `closeNotebook` forgets the active Queries before closing.  If the close fails, the Notebook stays
   open, visible Queries are no longer refreshed, and nothing marks their rows as old.
4. `requestApplicationQuit` remembers the wish to quit; if the close fails the wish stays, and closing
   the Notebook later ends the application.
5. `readHierarchyChildren` scans names in byte order and drops a segment only when it equals the one
   before.  `a-b` sorts between `a` and `a/c`, so the node `a` is listed twice, out of order, or missed
   when a batch ends in between.

Fairness.  `SessionSpec` assumes weak fairness of `Notify` alone: a command that committed returns
only after its callbacks, on the thread that is running it.  `QueryScheduler` assumes weak fairness
of `Evaluate` (the thread pool runs a submitted task) and of the two handlers of its end (the event
loop delivers the watcher's signal).  `NotebookFile` assumes weak fairness of
`Proceed`: a call in progress takes its next step, which may be a failing one.  Nothing a user does is
assumed to happen, and no step is assumed to succeed.  `CHECK_DEADLOCK
FALSE` is set for `QueryScheduler` alone, because the application may exit.

## The proofs

Five parts are proved for every value of their constants.

**The history** (`HistoryStacks_proofs`, `EditingHistory_proofs`), for any finite set of tracks, any
positive sizes and any budget, from the assumptions named in `HistoryStacks` and `EditingHistory`:

* `ChronologyHolds`: all deques together are one chronological history (`Chronology`);
* `UndoRedoInverseHolds`: undo then redo, and redo then undo, restore the history
  (`UndoRedoInverse`);
* `TypeOKHolds`, `BytesAccountedHolds`: the deques hold actions of the tracks they are for, and the
  running total is the sum of the sizes of what they hold (`TypeOK`, `BytesAccounted`);
* `WithinBudgetHolds`: that total exceeds the budget only when a single action does (`WithinBudget`);
* `NewestIsUndoableHolds`: a command just recorded can be taken back, whatever its recording evicted
  (`NewestIsUndoable`).

The inductive invariant, `HistoryInv` (theorem `HistoryInvariant`), is the type of the deques, that every deque is ordered by
sequence number (undo deques rising, redo deques falling), that whatever is undoable is older than
whatever is redoable, and that no number occurs twice.  The order between undoable and redoable is
what makes the others inductive: without it an undone action could be pushed onto a redo deque below
a newer one.  The argument goes through one lemma per operation: evicting leaves suffixes of the undo
deques (`DropOlderIsSuffix`), recording puts the largest number last (`RecordedChronological`), undo
takes the largest undoable, which is then the smallest redoable (`UndoneChronological`), and redo the
reverse (`RedoneChronological`); `UndoThenRedo` and `RedoThenUndo` show the inverse from the
uniqueness of numbers, by which the one just moved is the one taken next.

The byte total is a sum over tracks of sums over deques.  `HistoryInv` also says that it is accounted
for and that either it is within the budget or one action is left.  Its proof needs how sums behave
when a deque grows by one, loses its last or loses a prefix, which the first part of `Outline_proofs`
derives for sums over finite sets; the eviction then subtracts exactly what it drops, and the cut it stops at leaves
the newest action, because every suffix it tries contains it.

**Outline editing** (`Outline_proofs`, `OutlineEdits_proofs`), for any number of Entries, any letters,
any limit of texts and any sequence of edits:

* `TypeOKHolds`, `PreorderHolds`: the flat sequence is always the preorder of a forest of distinct
  Entries (`TypeOK`, `Preorder`);
* `MovesTakeBackHolds`: indent is taken back by outdent, up by down and the reverse, where the code
  allows both (`MovesTakeBack`);
* `DeletionTakesSubtreesHolds`: deleting a selection takes the selected subtrees and leaves all other
  Entries as they were, in their order (`DeletionTakesSubtrees`);
* `SplitAndJoinKeepTextHolds`: a split loses no letter and puts what it cuts off behind the subtree, a
  join takes the split of a leaf back and keeps what the Page reads, and no edit makes a text too long
  (`SplitAndJoinKeepText`);
* `TextsWithinLimitHolds`: no text is ever longer than an Authored Text may be (`TextsWithinLimit`).

The inductive invariant `Ordered` says that every text is within the limit and restates the preorder on
positions: `D` gives each Entry the
position of its parent, a *walk* is such a map in which every parent is on the path from the Entry
before, and the sequence is *linked* to it when the parents' identifiers are those of these positions.
The code never sees positions of parents: it moves slices of the sequence and changes single parents.
Each edit is shown to turn one walk into another, by `GrownWalks` for insertions and splits,
`IndentedWalks` for indents, `ThinnedWalks` for deletions, `TurnedWalks` for the exchange of two
neighbouring slices (`SwapTurns` for up and down, `OutdentTurns` for outdents, which also leave their
parent's subtree), and `SplicedWalks` for a subtree that arrives from another Page.  That a subtree is a slice, and where it ends
(`SubtreeEnd`), is the fact all of them rest on.

The recursive functions there (which Entries remain, what is below an Entry) are unfolded with
`StepsExist`: induction with a *set* of numbers or of Entries in place of a
formula, so that no theorem with an operator as parameter is used.

**The Live Query scheduler** (`QueryScheduler_proofs`), for any set of Queries and any number of
commits, requests and batches.  Whether closes succeed or fail:

* `TaskHasSession`: no evaluation outlives the session it reads (`NoTaskWithoutSession`);
* `RowsAgree`: the rows of a Query are consecutive batches of one revision (`RowsOfOneRevision`);
* `TypeOKHolds`: one request of a Query waits at most, and rows, cursors and generations stay within
  what commits, batches and requests there can be (`TypeOK`).

And when closes succeed (`CloseCanFail = FALSE`; the run `failed_close` shows why that is needed):

* `WorkerTakesRequests`: the worker is never idle while a request waits (`WorkerNotIdle`);
* `ScreenIsCurrent`: what is on screen is current, loading or failed (`WantedQueriesAreCurrent`);
* `ExitWasAskedFor`: the application ends only after the user asked it to (`ExitsOnlyWhenAsked`).

The invariant `Inv` (`SchedulerOrder`) says that a Query has at most one waiting request, newer than
the one in the worker's hands, and neither is newer than the Query's generation (`Ordered`); and that
every cursor that can still be used, the Query's own and those of requests whose generation stands,
continues the rows on screen (`Positioned`).  The order of generations is what makes the second part
inductive: when an answer changes the rows it is the only request of its Query that can still be
current, so no other cursor is left pointing into rows that are gone.  While the Notebook is closed
neither part holds, as a request that arrived while a close was waiting stays behind; opening drops
it.  `FreshInv` adds that a current answer is of the newest revision, because a commit raises the
generation of every active Query, and that the delegates' wishes are among the active Queries.
`SmallInv` bounds generations: an answer is stale only if its request had a cursor, and the request
made of a stale answer has none, so a generation passes `MaxGeneration` by one at most.
`DroppedInv` carries most of the steps: dropping requests and tasks and raising generations is always
safe; `ScheduledInv`, `StartedInv`, `RefreshedInv` and `AppliedInv` are about the four helpers.

**The Notebook file** (`NotebookFile_proofs`), for any sessions and any number of files, with every
failure, crash and power failure the module has:

* `LocksAreGivenBack`, `CreatorIsFirst`, `DraftsStayHidden`, `FoundFilesAreSafe`: the four safety
  properties of the run (`LocksGivenBack`, `CreatorOpensFirst`, `NoDraftPublished`,
  `NothingOverwritten`);
* `OwnershipIsExclusive`: the file operations implement `NotebookOwnership` (`RefinesOwnership`).

The invariant `Inv` (`FileInvariant`) says of every session where its call stands and what that means
for its draft (`DraftOf`), its environment (`EnvironmentOf`) and the lock (`LockOf`), and of the disk
that numbers are given out in order, that the file at the path is more than a draft, and that every
promised file is at the path, whole and flushed (`DiskInv`).  From `LockOf` follows that one session at
most is past the lock (`OneLocked`); every lemma on a step then has two cases, the session that steps
and the others, which are before the lock.  It needs that drafts are numbered freshly (`Made`): else
a file made at the path could be somebody's draft.  The refinement goes through `AppearStep`,
`TakeStep`, `LeaveStep` and `PowerLossStep`; all other steps leave what can be seen unchanged
(`QuietSteps`).

**The Notebook** (`Notebook_proofs`, `NotebookBehaviours_proofs`), for any names and dates, any texts, any number of Blocks, any
budget and any sequence of commands, undos, redos, closes and openings:

* `TypeOKHolds`: the cached revision is that of the last commit, and no Block bears an identifier or
  a time that was not handed out (`TypeOK`);
* `PageRootedContainmentHolds`: both containment databases agree and every Entry is on exactly one
  Page (`PageRootedContainment`, ADR-0023);
* `PageIndexesAgreeHolds`: `pagesByName` and `journalByDate` have each Page under the name or date it
  bears, and no other (`PageIndexesAgree`);
* `HistoryNeverStuckHolds`: the newest undoable and the oldest redoable action can be applied, in
  every state (`HistoryNeverStuck`);
* `HistoryIsLinear`: the deques of partial snapshots implement one history of whole Notebooks with one
  position (`RefinesLinearHistory`, ADR-0022);
* `MovesKeepSubtreesHolds`: what goes to another Page arrives with its texts, its Blocks below each Entry
  in their order, and only its root stamped (`MovesKeepSubtrees`, ADR-0023);
* `TimestampsFollowEditsHolds`: a command stamps every container whose ordered children changed, and of
  the Blocks it left alone at most one (`TimestampsFollowEdits`, ADR-0020).

The assumptions are those named in the modules: the tracks are the Journal Dates, the Named Pages and
the cross-Page one, names are strings, spelt in bytes, and texts sequences of strings, a level of the hierarchy is asked for
by the bytes of its parent, clocks do not run backwards, and
a Notebook found on disk is one a session could have left there: its Pages have distinct names and
dates, no Block is in two places, each Page is a preorder, and the databases hold just these Pages.

None of the first four is inductive.  Whether an action can be applied depends on the Pages that are there
at that moment, and those depend on every action that will have been taken back by then: an action
remembers its own Page or date and says nothing of the others.  The inductive invariant `Inv`
(`CoherentHolds`) therefore speaks of whole Notebooks, which no deque keeps.  A Notebook is a map `A`
from Pages to outlines; `Paged` says that it can be one, `Holds` that the store's databases hold it and
nothing else.  `Inv` says that there are a map that the store holds and, for every action of a deque,
a map it began with and one it ended with, all of which can be, so that each action leads from the one
to the other and back on *any* store that holds it (`Links`), and so that the actions of all deques,
in the order of their numbers, form one line on which the present is a point (`Line`).  That is what
ADR-0022 means by a linear history, and the three parts about the store follow from the first part
alone.

The argument has six layers.

1. *Reading*: on a store that holds `A`, `loadOutline` returns `A[p]` with its Entries in preorder
   (`LoadedIs`), `pageOf` climbs to the one Page an Entry is on (`PageOfIs`), `containerOf` finds its
   parent.  `loadOutline` is a stack of children still to visit, so `LoadedIs` says what is on that
   stack after each step.
2. *Writing*: `RemovePage`, `InsertPage`, `Replace`, `WriteTexts` and the updates in place lead from
   a store that holds one map to a store that holds another (`RemovedPage`, `InsertedOutline`,
   `ReplacedPage`, `WroteTexts`, `UpdatedPage`), and are not refused.
3. *Actions*: the three kinds of snapshots lead there and back: an outline of a date (`JournalLinks`),
   a Page with the texts a rename rewrote elsewhere (`NamedLinks`), and the four outlines of a move
   between Pages (`CrossLinks`), where both orderings are erased before either is written.
4. *Commands*: each leads to a map that can be and is recorded with an action that links the two
   (`Recording`), or changes no Page and is not recorded (`Repeating`): `OutlineRecords` for all that
   edit one Page, `CreatePageRecords`, `DeletePageRecords`, `RenamePageRecords`,
   `InsertJournalEntryRecords`, `MoveEntryToPageRecords`.  `CommandCoherent` then adds one action to
   the line and forgets the redo branch and what is evicted, `HistoryCoherent` moves the present
   along the line, and `OpenCloseCoherent` drops it.
5. *Behaviours*: the refinement mapping replays the deques from the store of the present.  A store that
   holds `A` has one content, `Image(A)` (`ImageIs`: the databases are functions of the Pages, which is
   why `IsStore` says that each of them is a database), so replaying meets the maps of the line: `past`
   is the images of the maps the undoable actions began with, in the order of their numbers, `future`
   the images of those the redoable ones ended with, in reverse (`Told` with `Replayed`).  `Grown` says which of
   them a command keeps, as eviction drops the oldest.  `CommandMoves`, `UndoMoves` and `RedoMoves` then
   map each step to one of `LinearHistory`, or to none.
6. *Blocks*: the step properties say what a command leaves of each Block, of which `Inv` does not speak;
   `Recording` does, with `Remade`.  On outlines, `Keeps` says that an Entry has the same children in
   the same order, and each edit is traced from position to position (`Traced`): it keeps the children
   of all but the containers it hands to `touchContainers`, and moves the time of no Entry but its own.
   What leaves a Page and arrives on another is `Whole`.  `Remade` says that of whole Notebooks, and that
   no Page becomes an Entry; each of the commands of layer 4 is shown to do it.  On stores,
   `ChildrenKept` says that what a cursor reads below a Block before and after is the same exactly when
   the outlines keep its children, because a list in order without gaps can be numbered in one way
   only (`IncreasingIs`); `ShiftedIs` joins that with the Page, the place and the time the databases show
   for an Entry, and `CommandTurns` with the commands that are recorded: undo, redo, open and close
   raise no number, and a command that is not recorded changes no Page.

What the attempts found.  A move between Pages may be taken back only because the ordering
of both Pages is erased first: a moved Block would else be found in two places (`CrossApplied`).
A rename
must remember the texts on other Pages even when the Page itself mentions its name, since its own
text is restored with its outline and then a second time as a text (`RetextedTwice`).  And the reads
were first written with recursive functions on sets that no backend could unfold; `ChildrenOf` and
`LoadOutline` now follow the cursor and the stack of the code.

**Paged reads** (`NotebookBehaviours_proofs`), for any requests and any sizes of batches, with any
commands, undos and redos between two calls and between the critical sections of one:

* `EnumerationsAreWholeHolds`: an enumeration that ends without an error at the revision of the store
  has given each source, result or occurrence once and in the order promised (`EnumerationsAreWhole`);
* `ListingAgreesHolds`: where `SlashSortsFirst` holds of the names, the batches of a level of the
  hierarchy are the first of the nodes that a look-up by name finds there, in order, and the last one
  brings the rest (`ListingAgreesWithLookup`).

The invariant `ReadInv` joins three things: `Inv`; that the derived databases are those rebuilt from the
store; and `Followed`, which says what the reader has in its hands.  All of that is said under the
condition that the cursor's revision is still the store's.  A commit advances the revision and nothing
else changes the store (`StoreMoves`), so a write makes `Followed` hold by making the condition false
(`WriteFollowed`), and every critical section of a call compares the revision again before it uses what
the one before left (`SectionFollowed`, `AnswerFollowed`).  What remains is that an answer computed in
parts is the answer: a set in a strict order is listed once each by any sequence that keeps to the order
(`Arranges`, `InOrder`), the sources of references are in the preorder of their Pages because the ranks
along the paths from a Page to its Entries order these as a walk does (`PathsInOrder`,
`RanksInOrder`), the rebuilt databases are the mentions in the texts (`SourcesAre`, `LinkingIs`,
`PreviewingIs`, `NamingIs`, `OccurringIs`), and a batch is the next part of that sequence (`BatchIs`).

A level of the hierarchy has no offsets: each batch is a new scan of the names from the last node of the
batch before, and `LevelInv` adds to `ReadInv` that the reader holds the first nodes of the level and
that last node (`OnLevel`).  The scan drops a segment only when it equals the one before or does not
come after the one it started from.  `SegmentsRise` is why that suffices: of two names below one parent
the later has the same segment or a later one, *if* the names do not cross, one going on with a slash
where the other has a lesser byte (`Crossed`).  So the segments along the scan never fall, those taken
rise (`ScanTakes`), and `SegmentAhead` shows that a node after the starting point begins no name the scan
skipped.  Two rising sequences with the same members are the same (`RisingSame`); hence a scan from the
start is the level (`ScanIs`) and one from a node is the rest of it (`ScanRest`).  The condition is not
an assumption on the code but the hypothesis of this one theorem: `a`, `a-b` and `a/c` do cross, and
`hierarchy_listing` shows what the code then does.  The names of `notebook_reads` meet it.

What stays with TLC:

* every liveness property (`LoadingEnds`, `CloseHappens`, `CallsReturn`, `EveryCommitObserved` under
  fairness), which the prover does not handle;
* `EditsMeanForestEdits`, which compares each edit with one on a forest built with the library's
  `SelectSeq`, a recursive operator that the prover does not unfold;
* `RenameKeepsMentions` and `RenameKeepsQueries`: that the parsers find mentions at the same
  positions in a text with one name put in place of another is an induction over the texts for
  functions that are defined by folds and by recursion over positions;
* `QueriesAgreeWithReads`: it compares the evaluator with the reads, and both the parser (`FoldRight`)
  and the tables of properties (`@@`) are beyond what the prover unfolds;
* `StaleVariantsKeepContainment` of `SessionThreads`: a commit of a stale variant is not recorded, so
  undoing what is older leaves Pages that are on no line of Notebooks, with gaps between ranks.  `Inv`
  is false there, and an invariant for it has to be about the databases themselves.

Two things about the prover shaped the modules.  It does not know the operators `@@` and `:>` of
`TLC`, so `Store` has `Over` and `NotebookReads` has `Collecting`, which it can unfold; a fold over the
names of a level became the recursive function `upTo` for the same reason.  And it reads `SUBSET X \ {{}}` otherwise than SANY
does, so such expressions are parenthesised.

## Not modelled, and why

* Characters: which of them make a name, an identifier or a date, and the positions and wording of
  parse errors.  Words of texts are not name-like, and anchors stand for property keys.
* Reads with the same shape as modelled ones: `unresolvedPageLinkOccurrences`, `pages`, `outline`.
* Cursors as strings.  `LinkedReferencesCursor::decode` ignores what follows the offset and is not bound
  to a target, so a caller that mixes cursors up is not refused; the reader here does not.  Cursors of
  Queries and of levels name what they continue, and those the reader does mix up.  A cursor
  of one Notebook also passes in another one opened at the same revision.
* The inside of Miare: a transaction is atomic and a snapshot is isolated.  `evaluateQuery` begins its
  read transaction under the mutex and reads after releasing it, which is one step here; on the way
  `parentOf` and `loadOutline` copy the cached `info` without the mutex, for the path of their errors: a
  data race with the revision a commit writes there, whose value they do not use.
* The Windows variant of the file operations.
* The rename cascade of ADR-0017 and ADR-0024, and the no-op for an unchanged name and title: the code
  renames one Page and always commits; the models follow the code.
* The index of Blocks by type; the subscription list, which is fixed: callbacks are copied under the
  mutex and may run after their subscription has ended, but the controller subscribes once.
* A store error between the commit and the re-read of the Page (`updatePageEntry`,
  `pageAfterOutline`, `renamePage`): the edit stays committed, unrecorded and unannounced.  This
  needs store errors as actions inside every command.
* `Impl::insertEntry` (flat Journal insertion with rank midpoints) has no caller.
* Display titles are not told apart (a rename to the same name is a change of title).
* The navigation, preview and reference models of the controller, which it recomputes from the
  session, and the editor window with its drafts and timers.

## Plan

1. *Done*: history, outline, store, commands, threads, Live Queries, the lifecycle of the file, the
   notation of texts, Queries, and paged reads; proofs of the history, of outline editing, of the Live
   Query scheduler, of the lifecycle and of the Notebook under any sequence of commands.
2. Store errors as actions: what a command leaves behind when a step after its commit fails.
3. `EditorDraft`: the typing timer, focus loss, structural commands, midnight rollover.
4. `Navigation`: the controller's Page on screen, previews that become Pages, rows kept across
   refreshes.
5. Proofs: containment under stale variants in `SessionThreads`, whose invariant must allow commits
   that no action records; positions of the parsers under a change of names.
