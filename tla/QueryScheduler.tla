--------------------------- MODULE QueryScheduler ---------------------------
(***************************************************************************)
(* Live Queries in NotebookController: which are active, the one worker    *)
(* that evaluates them, the generations that tell a current answer from an *)
(* overtaken one, and the closing of the Notebook, which waits for the     *)
(* worker.  All handlers run on the GUI thread; only Evaluate runs on the  *)
(* worker.                                                                 *)
(***************************************************************************)
EXTENDS SequencesExt

CONSTANTS Queries,          \* the Query Entries of the Notebook
          CloseCanFail,     \* whether store_env_try_close may fail
          MaxRevision,      \* bound: commits
          MaxGeneration,    \* bound: requests and cancellations of one Query
          MaxBatches        \* bound: batches one Query has

ASSUME QueriesAssumption == IsFiniteSet(Queries)
ASSUME BoundsAssumption == MaxRevision \in Nat \ {0} /\ MaxGeneration \in Nat /\ MaxBatches \in Nat
ASSUME CloseCanFailAssumption == CloseCanFail \in BOOLEAN

VARIABLES open,             \* session_.isOpen()
          revision,         \* the last commit
          sched,            \* the scheduler's maps, the running task, the loading rows
          shown,            \* the batches each Query's rows come from
          rejected,         \* Queries whose last evaluation reported an error
          closeRequested,   \* a close waits for the worker
          quitRequested,    \* a successful close will quit the application
          exited,           \* QCoreApplication::quit
          wanted,           \* what the delegates last said with setQueryActive
          asked             \* the user's quit no close has answered yet

vars == <<open, revision, sched, shown, rejected,
          closeRequested, quitRequested, exited, wanted, asked>>

NoCursor == [revision |-> 0, offset |-> 0]
NoTask == [at |-> "none"]
Request(q, generation, cursor) == [query |-> q, generation |-> generation, cursor |-> cursor]

\* activeQueries_, pendingQueries_, queryGenerations_, queryCursors_, the request
\* in the worker's hands, and the rows marked as loading.
NothingScheduled ==
    [active |-> {}, pending |-> {}, generation |-> [q \in Queries |-> 0],
     cursor |-> [q \in Queries |-> NoCursor], task |-> NoTask, loading |-> {}]

NothingShown == [q \in Queries |-> <<>>]

Init ==
    /\ open = TRUE /\ revision = 1
    /\ sched = NothingScheduled
    /\ shown = NothingShown /\ rejected = {}
    /\ closeRequested = FALSE /\ quitRequested = FALSE /\ exited = FALSE
    /\ wanted = {} /\ asked = FALSE

Without(requests, q) == {r \in requests : r.query # q}

\* Faulty: the request that waits is not replaced.
ScheduledBesides(s, q, cursor) ==
    IF q \notin s.active
    THEN s
    ELSE [s EXCEPT !.generation[q] = @ + 1,
                   !.pending = @ \cup {Request(q, s.generation[q] + 1, cursor)},
                   !.loading = @ \cup {q}]

\* scheduleQuery: a new request supersedes the one that waits.
Scheduled(s, q, cursor) ==
    IF q \notin s.active
    THEN s
    ELSE [s EXCEPT !.generation[q] = @ + 1,
                   !.pending = Without(@, q) \cup {Request(q, s.generation[q] + 1, cursor)},
                   !.loading = @ \cup {q}]

\* startNextQuery: one of the waiting requests goes to the idle worker.
Started(s) ==
    IF s.task # NoTask \/ s.pending = {}
    THEN {s}
    ELSE {[s EXCEPT !.pending = @ \ {r}, !.task = [at |-> "queued", request |-> r]] :
             r \in s.pending}

\* refreshQueries: every active Query starts again at the new revision.
Refreshed(s) ==
    [s EXCEPT !.cursor = [q \in Queries |-> IF q \in s.active THEN NoCursor ELSE @[q]],
              !.generation = [q \in Queries |-> IF q \in s.active THEN @[q] + 1 ELSE @[q]],
              !.pending = {r \in @ : r.query \notin s.active}
                          \cup {Request(q, s.generation[q] + 1, NoCursor) : q \in s.active},
              !.loading = @ \cup s.active]

HasRoom(q) == sched.generation[q] < MaxGeneration

\* Faulty: the worker is not set going.
SchedulingOnly(next) == sched' = next /\ UNCHANGED <<shown, open>>

Scheduling(next) == sched' \in Started(next) /\ UNCHANGED <<shown, open>>
Running == UNCHANGED <<closeRequested, quitRequested, exited, asked>>

\* A command commits and its callback refreshes the Queries before it returns.
Commit ==
    /\ open /\ ~exited /\ revision < MaxRevision
    /\ \A q \in sched.active : HasRoom(q)
    /\ revision' = revision + 1
    /\ Scheduling(Refreshed(sched))
    /\ rejected' = rejected \ sched.active
    /\ Running /\ UNCHANGED wanted

\* setQueryActive(true): a delegate with Query intent is expanded and on screen.
ActivateQuery(q) ==
    /\ open /\ ~exited /\ HasRoom(q)
    /\ wanted' = wanted \cup {q}
    /\ IF q \in sched.active
       THEN UNCHANGED <<sched, shown, open, rejected>>
       ELSE /\ Scheduling(Scheduled([sched EXCEPT !.active = @ \cup {q}], q, NoCursor))
            /\ rejected' = rejected \ {q}
    /\ Running /\ UNCHANGED revision

\* Faulty: the row stays marked as loading.
DeactivateStillLoading(q) ==
    /\ ~exited /\ HasRoom(q)
    /\ wanted' = wanted \ {q}
    /\ sched' = [sched EXCEPT !.active = @ \ {q}, !.pending = Without(@, q),
                              !.generation[q] = @ + 1]
    /\ Running /\ UNCHANGED <<open, revision, shown, rejected>>

\* setQueryActive(false): collapsed, scrolled away, changed or destroyed.
DeactivateQuery(q) ==
    /\ ~exited /\ HasRoom(q)
    /\ wanted' = wanted \ {q}
    /\ sched' = [sched EXCEPT !.active = @ \ {q}, !.pending = Without(@, q),
                              !.generation[q] = @ + 1, !.loading = @ \ {q}]
    /\ Running /\ UNCHANGED <<open, revision, shown, rejected>>

LoadMoreResults(q) ==
    /\ ~exited /\ HasRoom(q)
    /\ sched.cursor[q] # NoCursor
    /\ Scheduling(Scheduled(sched, q, sched.cursor[q]))
    /\ rejected' = rejected \ (sched.active \cap {q})
    /\ Running /\ UNCHANGED <<revision, wanted>>

\* evaluateQuery takes its snapshot of the Notebook under the session mutex.
Evaluate ==
    /\ sched.task.at = "queued"
    /\ \E answer \in {"batch", "last batch", "stale", "error"} :
          /\ LET c == sched.task.request.cursor
                 stale == c # NoCursor /\ c.revision # revision
             IN  /\ answer = "stale" <=> stale
                 /\ answer = "batch" => c.offset + 1 < MaxBatches
          /\ sched' = [sched EXCEPT !.task =
                [at |-> "evaluated", request |-> @.request, answer |-> answer,
                 batch |-> [revision |-> revision, offset |-> @.request.cursor.offset]]]
    /\ Running /\ UNCHANGED <<open, revision, shown, rejected, wanted>>

\* applyQueryBatch: the rows are replaced, or extended when more were asked for.
Applied(s, answer, r, batch) ==
    [s EXCEPT !.loading = @ \ {r.query},
              !.cursor[r.query] =
                  IF answer = "batch"
                  THEN [revision |-> batch.revision, offset |-> batch.offset + 1]
                  ELSE NoCursor]

\* Faulty: a refreshed first batch is added to the old rows.
RowsAdded(rows, r, batch) == Append(rows, batch)

Rows(rows, r, batch) == IF r.cursor = NoCursor THEN <<batch>> ELSE Append(rows, batch)

\* Faulty: an answer to an active Query is taken for a current one.
IsActive(s, r) == r.query \in s.active

IsCurrent(s, r) == r.query \in s.active /\ s.generation[r.query] = r.generation

\* The watcher's handler when no close is waiting.
FinishTask ==
    LET done == sched.task
        r == done.request
        idle == [sched EXCEPT !.task = NoTask]
        settled == [idle EXCEPT !.loading = @ \ {r.query}]
    IN  /\ done.at = "evaluated" /\ ~closeRequested
        /\ \/ /\ ~IsCurrent(sched, r)
              /\ Scheduling(idle) /\ UNCHANGED rejected
           \/ /\ IsCurrent(sched, r) /\ done.answer \in {"batch", "last batch"}
              /\ sched' \in Started(Applied(idle, done.answer, r, done.batch))
              /\ shown' = [shown EXCEPT ![r.query] = Rows(@, r, done.batch)]
              /\ UNCHANGED <<open, rejected>>
           \/ /\ IsCurrent(sched, r) /\ done.answer = "stale"
              /\ Scheduling(Scheduled(settled, r.query, NoCursor)) /\ UNCHANGED rejected
           \/ /\ IsCurrent(sched, r) /\ done.answer = "error"
              /\ Scheduling(settled) /\ rejected' = rejected \cup {r.query}
        /\ Running /\ UNCHANGED <<revision, wanted>>

\* Faulty: closing the Notebook always ends the application.
ClosedForGood(s, quit) ==
    /\ open' = FALSE
    /\ sched' = [s EXCEPT !.cursor = NothingScheduled.cursor,
                          !.generation = NothingScheduled.generation, !.loading = {}]
    /\ shown' = NothingShown /\ rejected' = {}
    /\ exited' = TRUE /\ quitRequested' = FALSE

\* The Notebook is closed: its rows go, and the application if it is to quit.
Closed(s, quit) ==
    /\ open' = FALSE
    /\ sched' = [s EXCEPT !.cursor = NothingScheduled.cursor,
                          !.generation = NothingScheduled.generation, !.loading = {}]
    /\ shown' = NothingShown /\ rejected' = {}
    /\ exited' = quit /\ quitRequested' = FALSE

\* finishCloseNotebook on the scheduler in state s: quit is what quitRequested_
\* says, askedFor what the user has asked for since the last close was answered.
FinishClose(s, quit, askedFor) ==
    /\ closeRequested' = FALSE
    /\ \/ Closed(s, quit) /\ asked' = askedFor
       \/ /\ CloseCanFail
          /\ sched' = s /\ quitRequested' = quit /\ asked' = FALSE
          /\ UNCHANGED <<open, shown, rejected, exited>>
    /\ UNCHANGED <<revision, wanted>>

\* Faulty: the handler forgets the close that waits.
FinishTaskForgetfully ==
    /\ sched.task.at = "evaluated" /\ closeRequested
    /\ sched' = [sched EXCEPT !.task = NoTask]
    /\ UNCHANGED <<open, revision, shown, rejected, closeRequested, quitRequested,
                   exited, wanted, asked>>

\* The watcher's handler when a close is waiting.
FinishTaskAndClose ==
    /\ sched.task.at = "evaluated" /\ closeRequested
    /\ FinishClose([sched EXCEPT !.task = NoTask], quitRequested, asked)

\* Faulty: the Notebook is closed under the worker.
CloseAtOnce(quit) ==
    /\ open /\ ~exited /\ \A q \in Queries : HasRoom(q)
    /\ FinishClose([sched EXCEPT !.active = {}, !.pending = {}], quitRequested \/ quit,
                   asked \/ quit)

\* closeNotebook, by itself or for requestApplicationQuit.
CloseNotebook(quit) ==
    LET cleared == [sched EXCEPT !.active = {}, !.pending = {},
                                 !.generation = [q \in Queries |->
                                     IF @[q] = 0 THEN 0 ELSE @[q] + 1]]
    IN  /\ open /\ ~exited /\ \A q \in Queries : HasRoom(q)
        /\ IF sched.task # NoTask
           THEN /\ closeRequested' = TRUE
                /\ quitRequested' = (quitRequested \/ quit) /\ asked' = (asked \/ quit)
                /\ sched' = cleared
                /\ UNCHANGED <<open, revision, shown, rejected, exited, wanted>>
           ELSE FinishClose(cleared, quitRequested \/ quit, asked \/ quit)

QuitWithoutNotebook ==
    /\ ~open /\ ~exited /\ exited' = TRUE
    /\ UNCHANGED <<open, revision, sched, shown, rejected, closeRequested,
                   quitRequested, wanted, asked>>

\* accept, when the session has opened a Notebook.
OpenNotebook ==
    /\ ~open /\ ~exited
    /\ open' = TRUE /\ closeRequested' = FALSE
    /\ sched' = [NothingScheduled EXCEPT !.task = sched.task]
    /\ wanted' = {}
    /\ asked' = FALSE
    /\ UNCHANGED <<revision, shown, rejected, quitRequested, exited>>

Next ==
    \/ Commit \/ Evaluate \/ FinishTask \/ FinishTaskAndClose
    \/ \E q \in Queries : ActivateQuery(q) \/ DeactivateQuery(q) \/ LoadMoreResults(q)
    \/ \E quit \in BOOLEAN : CloseNotebook(quit)
    \/ QuitWithoutNotebook \/ OpenNotebook

\* The thread pool runs the task, and the event loop delivers its end.
Spec ==
    /\ Init /\ [][Next]_vars
    /\ WF_vars(Evaluate) /\ WF_vars(FinishTask) /\ WF_vars(FinishTaskAndClose)
-----------------------------------------------------------------------------
TypeOK ==
    /\ sched.active \subseteq Queries /\ sched.loading \subseteq Queries
    /\ wanted \subseteq Queries /\ rejected \subseteq Queries
    /\ sched.generation \in [Queries -> 0 .. MaxGeneration + 1]
    /\ \A r, o \in sched.pending : r.query \in Queries /\ (r.query = o.query => r = o)
    /\ shown \in [Queries -> Seq([revision : 1 .. MaxRevision, offset : 0 .. MaxBatches])]

\* closeNotebook waits for the worker: no evaluation outlives the session, whose
\* store could not be closed under its read transaction.
NoTaskWithoutSession == sched.task # NoTask => open

\* Outside a waiting close, what waits is worked on: the worker is never idle
\* while a request waits.
WorkerNotIdle == open /\ sched.task = NoTask => sched.pending = {}

\* ADR-0025: a Query on screen shows the newest revision, or is marked as loading,
\* or has reported an error; its old rows are never presented as current.
WantedQueriesAreCurrent ==
    open /\ ~closeRequested =>
        \A q \in wanted \ (sched.loading \cup rejected) :
            shown[q] # <<>> /\ \A i \in DOMAIN shown[q] : shown[q][i].revision = revision

\* ADR-0025: the rows of a Query are the consecutive batches of one revision,
\* however often more was asked for while answers were on their way.
RowsOfOneRevision ==
    \A q \in Queries : \A i \in DOMAIN shown[q] :
        /\ shown[q][i].offset = i - 1
        /\ shown[q][i].revision = shown[q][1].revision

\* ADR-0025: a loading state lasts until a batch arrives, the Query is dropped or
\* the Notebook closes; it is never left standing.
LoadingEnds == \A q \in Queries : q \in sched.loading ~> q \notin sched.loading

\* A close that waits for the worker is carried out.
CloseHappens == closeRequested ~> ~open

\* ADR-0026: a close that fails prevents the application's exit; only a quit that
\* the user asked for since the last answered close ends it.
ExitsOnlyWhenAsked == [][ ~exited /\ exited' /\ open => asked' ]_vars
=============================================================================
