------------------------ MODULE QueryScheduler_proofs ------------------------
(* The Live Query scheduler keeps its promises for any number of Queries,   *)
(* commits, requests and batches: the worker never outlives the session,    *)
(* the rows of a Query are the batches of one revision, and, when closing   *)
(* succeeds, no request waits for an idle worker and no old row passes for  *)
(* a current one.                                                           *)
EXTENDS QueryScheduler, TLAPS, SequenceTheorems

\* Cursors and batches both name a revision and an offset.
Places == [revision : Nat, offset : Nat]
Requests == [query : Queries, generation : Nat, cursor : Places]
Answers == {"batch", "last batch", "stale", "error"}
Tasks ==
    {NoTask} \cup [at : {"queued"}, request : Requests]
    \cup [at : {"evaluated"}, request : Requests, answer : Answers, batch : Places]

Fields == {"active", "pending", "generation", "cursor", "task", "loading"}
SchedRecord(s) == s = [f \in Fields |-> s[f]]

SchedTyped(s) ==
    /\ SchedRecord(s)
    /\ s.active \subseteq Queries /\ s.loading \subseteq Queries
    /\ s.pending \subseteq Requests
    /\ s.generation \in [Queries -> Nat]
    /\ s.cursor \in [Queries -> Places]
    /\ s.task \in Tasks

\* At most one request of a Query waits; it is newer than the one the worker has
\* for that Query, and no request is newer than the Query's generation.
Ordered(s) ==
    /\ \A r, o \in s.pending : r.query = o.query => r = o
    /\ \A r \in s.pending : r.generation <= s.generation[r.query]
    /\ s.task # NoTask =>
          /\ s.task.request.generation <= s.generation[s.task.request.query]
          /\ \A r \in s.pending : r.query = s.task.request.query =>
                 s.task.request.generation < r.generation

\* The cursor c asks for what follows these rows.
Continues(c, rows) ==
    c # NoCursor => /\ Len(rows) = c.offset
                    /\ \A i \in DOMAIN rows : rows[i].revision = c.revision

Latest(s, r) == s.generation[r.query] = r.generation

\* The cursors that can still be used continue the rows on screen.
Positioned(s, rows) ==
    /\ \A q \in Queries : Continues(s.cursor[q], rows[q])
    /\ \A r \in s.pending : Latest(s, r) => Continues(r.cursor, rows[r.query])
    /\ s.task # NoTask /\ Latest(s, s.task.request) =>
          Continues(s.task.request.cursor, rows[s.task.request.query])

SchedInv(s, rows) == SchedTyped(s) /\ Ordered(s) /\ Positioned(s, rows)

StateTyped ==
    /\ SchedTyped(sched)
    /\ shown \in [Queries -> Seq(Places)]
    /\ revision \in Nat /\ open \in BOOLEAN /\ closeRequested \in BOOLEAN

\* A close waits only while there is a task to wait for, and it leaves no cursor.
CloseInOrder ==
    /\ closeRequested => sched.task # NoTask
    /\ ~open => \A q \in Queries : sched.cursor[q] = NoCursor

\* While the Notebook is open its scheduler is in order; what waits when it closes
\* is dropped by the next one.
OpenInOrder == open => SchedInv(sched, shown)

\* An answer continues its cursor's revision at its cursor's offset.
AnswerFits ==
    sched.task.at = "evaluated" /\ sched.task.answer \in {"batch", "last batch"} =>
        LET r == sched.task.request
            batch == sched.task.batch
        IN  /\ batch.offset = r.cursor.offset
            /\ r.cursor # NoCursor => batch.revision = r.cursor.revision

Inv ==
    /\ StateTyped /\ CloseInOrder /\ OpenInOrder /\ AnswerFits
    /\ NoTaskWithoutSession /\ RowsOfOneRevision

\* An answer that is current is of the newest revision.
CurrentAnswerIsNew ==
    sched.task.at = "evaluated" /\ IsCurrent(sched, sched.task.request) =>
        sched.task.batch.revision = revision

\* Every active Query is loading, has failed, or shows the newest revision.
ActiveQueriesAreCurrent ==
    open /\ ~closeRequested =>
        /\ wanted \subseteq sched.active
        /\ \A q \in sched.active \ (sched.loading \cup rejected) :
              shown[q] # <<>> /\ \A i \in DOMAIN shown[q] : shown[q][i].revision = revision

FreshInv == CurrentAnswerIsNew /\ ActiveQueriesAreCurrent /\ WorkerNotIdle
-----------------------------------------------------------------------------
\* A task that is not NoTask holds a request.
LEMMA TaskKinds ==
    ASSUME NEW t \in Tasks, t # NoTask
    PROVE  /\ t.request \in Requests
           /\ t.request.query \in Queries
           /\ t.request.generation \in Nat
           /\ t.request.cursor \in Places
  BY DEF Tasks, Requests

\* The cursor that starts a Query continues any rows: they are replaced.
LEMMA NoCursorContinues ==
    /\ NoCursor \in Places
    /\ \A rows : Continues(NoCursor, rows)
  BY DEF NoCursor, Places, Continues

\* What scheduleQuery leaves and changes.
LEMMA ScheduledShape ==
    ASSUME NEW s, SchedTyped(s), NEW q \in s.active, NEW c
    PROVE  LET n == Scheduled(s, q, c)
               g == s.generation[q] + 1
           IN  /\ SchedRecord(n)
               /\ n.active = s.active /\ n.task = s.task /\ n.cursor = s.cursor
               /\ n.loading = s.loading \cup {q}
               /\ n.generation = [s.generation EXCEPT ![q] = g]
               /\ n.pending = Without(s.pending, q) \cup {Request(q, g, c)}
  BY DEF Scheduled, SchedTyped, SchedRecord, Fields

\* A new request keeps the scheduler in order, if its cursor continues the rows.
LEMMA ScheduledInv ==
    ASSUME NEW s, NEW rows, SchedInv(s, rows), NEW q \in s.active,
           NEW c \in Places, Continues(c, rows[q])
    PROVE  SchedInv(Scheduled(s, q, c), rows)
  <1> DEFINE n == Scheduled(s, q, c)
             g == s.generation[q] + 1
             new == Request(q, g, c)
  <1>1. SchedTyped(s) /\ Ordered(s) /\ Positioned(s, rows) /\ q \in Queries
    BY DEF SchedInv, SchedTyped
  <1>2. /\ SchedRecord(n)
        /\ n.active = s.active /\ n.task = s.task /\ n.cursor = s.cursor
        /\ n.loading = s.loading \cup {q}
        /\ n.generation = [s.generation EXCEPT ![q] = g]
        /\ n.pending = Without(s.pending, q) \cup {new}
    BY <1>1, ScheduledShape
  <1>3. /\ new \in Requests /\ new.query = q /\ new.generation = g /\ new.cursor = c
        /\ g \in Nat /\ g > s.generation[q] /\ s.generation[q] \in Nat
    BY <1>1 DEF Request, Requests, SchedTyped
  <1>4. \A r \in Without(s.pending, q) : r \in s.pending /\ r.query # q
    BY DEF Without
  <1> HIDE DEF n, g, new
  <1>5. /\ n.generation[q] = g
        /\ \A p \in Queries \ {q} : n.generation[p] = s.generation[p]
        /\ \A p \in Queries : n.generation[p] >= s.generation[p]
    BY <1>1, <1>2, <1>3 DEF SchedTyped
  <1>6. SchedTyped(n)
    BY <1>1, <1>2, <1>3, <1>4 DEF SchedTyped
  <1>7. \A r \in s.pending : r.query \in Queries /\ r.generation \in Nat
    BY <1>1 DEF SchedTyped, Requests
  <1>8. Ordered(n)
    <2>0. \A r, o \in n.pending : r.query = o.query => r = o
      BY <1>1, <1>2, <1>3, <1>4 DEF Ordered
    <2>1. \A r \in n.pending : r.generation <= n.generation[r.query]
      BY <1>1, <1>2, <1>3, <1>4, <1>5, <1>7 DEF Ordered
    <2>2. ASSUME n.task # NoTask
          PROVE  /\ n.task.request.generation <= n.generation[n.task.request.query]
                 /\ \A r \in n.pending : r.query = n.task.request.query =>
                        n.task.request.generation < r.generation
      <3>1. /\ s.task # NoTask /\ n.task = s.task
            /\ s.task.request.query \in Queries /\ s.task.request.generation \in Nat
        BY <1>1, <1>2, <2>2, TaskKinds DEF SchedTyped
      <3>2. /\ s.task.request.generation <= s.generation[s.task.request.query]
            /\ s.generation[s.task.request.query] \in Nat
            /\ n.generation[s.task.request.query] \in Nat
        BY <1>1, <1>6, <3>1 DEF Ordered, SchedTyped
      <3>3. \A r \in s.pending : r.query = s.task.request.query =>
                s.task.request.generation < r.generation
        BY <1>1, <3>1 DEF Ordered
      <3>4. n.task.request.generation <= n.generation[n.task.request.query]
        BY <1>5, <3>1, <3>2
      <3>5. new.query = s.task.request.query => s.task.request.generation < new.generation
        BY <1>3, <3>1, <3>2
      <3> QED
        BY <1>2, <1>4, <3>1, <3>3, <3>4, <3>5
    <2> QED
      BY <2>0, <2>1, <2>2 DEF Ordered
  <1>9. Positioned(n, rows)
    <2>1. \A p \in Queries : Continues(n.cursor[p], rows[p])
      BY <1>1, <1>2 DEF Positioned
    <2>2. ASSUME NEW r \in n.pending, Latest(n, r)
          PROVE  Continues(r.cursor, rows[r.query])
      <3>1. CASE r = new
        BY <1>3, <3>1
      <3>2. CASE r # new
        <4>1. r \in s.pending /\ r.query # q
          BY <1>2, <1>4, <3>2
        <4>2. Latest(s, r)
          BY <1>5, <1>7, <2>2, <4>1 DEF Latest
        <4> QED
          BY <1>1, <4>1, <4>2 DEF Positioned
      <3> QED
        BY <3>1, <3>2
    <2>3. ASSUME n.task # NoTask, Latest(n, n.task.request)
          PROVE  Continues(n.task.request.cursor, rows[n.task.request.query])
      <3>1. /\ s.task # NoTask /\ n.task = s.task
            /\ s.task.request.query \in Queries /\ s.task.request.generation \in Nat
            /\ s.task.request.generation <= s.generation[s.task.request.query]
        BY <1>1, <1>2, <2>3, TaskKinds DEF SchedTyped, Ordered
      <3>2. s.task.request.query # q
        BY <1>3, <1>5, <2>3, <3>1 DEF Latest
      <3>3. Latest(s, s.task.request)
        BY <1>5, <2>3, <3>1, <3>2 DEF Latest
      <3> QED
        BY <1>1, <3>1, <3>3 DEF Positioned
    <2> QED
      BY <2>1, <2>2, <2>3 DEF Positioned
  <1> QED
    BY <1>6, <1>8, <1>9 DEF SchedInv, n

\* What startNextQuery leaves and changes.
LEMMA StartedShape ==
    ASSUME NEW s, SchedTyped(s), NEW n \in Started(s)
    PROVE  /\ SchedRecord(n)
           /\ n.active = s.active /\ n.loading = s.loading
           /\ n.generation = s.generation /\ n.cursor = s.cursor
           /\ \/ n = s /\ (s.task # NoTask \/ s.pending = {})
              \/ \E r \in s.pending :
                    /\ n.pending = s.pending \ {r}
                    /\ n.task = [at |-> "queued", request |-> r]
  BY DEF Started, SchedTyped, SchedRecord, Fields

\* The request that goes to the worker is the only one that waited for its Query:
\* the scheduler stays in order, and the worker is idle only when nothing waits.
LEMMA StartedInv ==
    ASSUME NEW s, NEW rows, SchedInv(s, rows), NEW n \in Started(s)
    PROVE  /\ SchedInv(n, rows)
           /\ n.active = s.active /\ n.loading = s.loading
           /\ n.generation = s.generation /\ n.cursor = s.cursor
           /\ n.task = NoTask => n.pending = {}
           /\ n.task = s.task \/ n.task.at = "queued"
  <1>1. SchedTyped(s) /\ Ordered(s) /\ Positioned(s, rows)
    BY DEF SchedInv
  <1>2. /\ SchedRecord(n)
        /\ n.active = s.active /\ n.loading = s.loading
        /\ n.generation = s.generation /\ n.cursor = s.cursor
    BY <1>1, StartedShape
  <1>3. CASE n = s /\ (s.task # NoTask \/ s.pending = {})
    BY <1>2, <1>3
  <1>4. ASSUME NEW r \in s.pending,
               n.pending = s.pending \ {r},
               n.task = [at |-> "queued", request |-> r]
        PROVE  SchedInv(n, rows) /\ n.task # NoTask /\ n.task.at = "queued"
    <2>1. r \in Requests /\ n.task.request = r /\ n.task.at = "queued" /\ n.task # NoTask
      BY <1>1, <1>4 DEF SchedTyped, NoTask
    <2>2. SchedTyped(n)
      <3>1. n.task \in Tasks
        BY <1>4, <2>1 DEF Tasks
      <3> QED
        BY <1>1, <1>2, <1>4, <3>1 DEF SchedTyped
    <2>3. Ordered(n)
      BY <1>1, <1>2, <1>4, <2>1 DEF Ordered
    <2>4. Positioned(n, rows)
      BY <1>1, <1>2, <1>4, <2>1 DEF Positioned, Latest
    <2> QED
      BY <2>1, <2>2, <2>3, <2>4 DEF SchedInv
  <1> QED
    BY <1>1, <1>2, <1>3, <1>4, StartedShape

\* What refreshQueries leaves and changes.
LEMMA RefreshedShape ==
    ASSUME NEW s, SchedTyped(s)
    PROVE  LET n == Refreshed(s)
           IN  /\ SchedRecord(n)
               /\ n.active = s.active /\ n.task = s.task
               /\ n.loading = s.loading \cup s.active
               /\ n.cursor = [q \in Queries |-> IF q \in s.active THEN NoCursor
                                                ELSE s.cursor[q]]
               /\ n.generation = [q \in Queries |-> IF q \in s.active
                                                    THEN s.generation[q] + 1
                                                    ELSE s.generation[q]]
               /\ n.pending = {r \in s.pending : r.query \notin s.active}
                              \cup {Request(q, s.generation[q] + 1, NoCursor) : q \in s.active}
  BY DEF Refreshed, SchedTyped, SchedRecord, Fields

\* Refreshing every active Query keeps the scheduler in order.
LEMMA RefreshedInv ==
    ASSUME NEW s, NEW rows, SchedInv(s, rows)
    PROVE  SchedInv(Refreshed(s), rows)
  <1> DEFINE n == Refreshed(s)
             new == {Request(q, s.generation[q] + 1, NoCursor) : q \in s.active}
  <1>1. SchedTyped(s) /\ Ordered(s) /\ Positioned(s, rows)
    BY DEF SchedInv
  <1>2. /\ SchedRecord(n)
        /\ n.active = s.active /\ n.task = s.task
        /\ n.loading = s.loading \cup s.active
        /\ n.cursor = [q \in Queries |-> IF q \in s.active THEN NoCursor ELSE s.cursor[q]]
        /\ n.generation = [q \in Queries |-> IF q \in s.active THEN s.generation[q] + 1
                                             ELSE s.generation[q]]
        /\ n.pending = {r \in s.pending : r.query \notin s.active} \cup new
    BY <1>1, RefreshedShape
  <1>3. \A r \in new : /\ r \in Requests /\ r.query \in s.active
                       /\ r.generation = s.generation[r.query] + 1
                       /\ r.cursor = NoCursor
                       /\ r = Request(r.query, s.generation[r.query] + 1, NoCursor)
    BY <1>1, NoCursorContinues DEF Request, Requests, SchedTyped
  <1>4. \A r \in s.pending : r.query \in Queries /\ r.generation \in Nat
    BY <1>1 DEF SchedTyped, Requests
  <1>5. \A q \in Queries : /\ s.generation[q] \in Nat /\ n.generation[q] \in Nat
                           /\ q \in s.active => n.generation[q] = s.generation[q] + 1
                           /\ q \notin s.active => n.generation[q] = s.generation[q]
    BY <1>1, <1>2 DEF SchedTyped
  <1> HIDE DEF n, new
  <1>6. SchedTyped(n)
    <2>1. n.cursor \in [Queries -> Places]
      BY <1>1, <1>2, NoCursorContinues DEF SchedTyped
    <2>2. n.generation \in [Queries -> Nat]
      BY <1>2, <1>5
    <2>3. n.pending \subseteq Requests
      BY <1>1, <1>2, <1>3 DEF SchedTyped
    <2> QED
      BY <1>1, <1>2, <2>1, <2>2, <2>3 DEF SchedTyped
  <1>7. Ordered(n)
    <2>1. \A r, o \in n.pending : r.query = o.query => r = o
      BY <1>1, <1>2, <1>3 DEF Ordered
    <2>2. s.active \subseteq Queries
      BY <1>1 DEF SchedTyped
    <2>3. \A r \in n.pending : r.generation <= n.generation[r.query]
      BY <1>1, <1>2, <1>3, <1>4, <1>5, <2>2 DEF Ordered
    <2>4. ASSUME n.task # NoTask
          PROVE  /\ n.task.request.generation <= n.generation[n.task.request.query]
                 /\ \A r \in n.pending : r.query = n.task.request.query =>
                        n.task.request.generation < r.generation
      <3> DEFINE t == s.task.request
      <3>1. /\ s.task # NoTask /\ n.task = s.task
            /\ t.query \in Queries /\ t.generation \in Nat
        BY <1>1, <1>2, <2>4, TaskKinds DEF SchedTyped
      <3>2. /\ t.generation <= s.generation[t.query]
            /\ \A r \in s.pending : r.query = t.query => t.generation < r.generation
        BY <1>1, <3>1 DEF Ordered
      <3> HIDE DEF t
      <3>3. t.generation <= n.generation[t.query]
        BY <1>5, <3>1, <3>2
      <3>4. \A r \in new : r.query = t.query => t.generation < r.generation
        BY <1>3, <1>5, <3>1, <3>2
      <3> QED
        BY <1>2, <3>1, <3>2, <3>3, <3>4 DEF t
    <2> QED
      BY <2>1, <2>3, <2>4 DEF Ordered
  <1>8. Positioned(n, rows)
    <2>1. \A q \in Queries : Continues(n.cursor[q], rows[q])
      BY <1>1, <1>2, NoCursorContinues DEF Positioned
    <2>2. ASSUME NEW r \in n.pending, Latest(n, r)
          PROVE  Continues(r.cursor, rows[r.query])
      <3>1. CASE r \in new
        BY <1>3, <3>1, NoCursorContinues
      <3>2. CASE r \in s.pending /\ r.query \notin s.active
        BY <1>1, <1>4, <1>5, <2>2, <3>2 DEF Positioned, Latest
      <3> QED
        BY <1>2, <3>1, <3>2
    <2>3. ASSUME n.task # NoTask, Latest(n, n.task.request)
          PROVE  Continues(n.task.request.cursor, rows[n.task.request.query])
      <3> DEFINE t == s.task.request
      <3>1. /\ s.task # NoTask /\ n.task = s.task
            /\ t.query \in Queries /\ t.generation \in Nat
            /\ t.generation <= s.generation[t.query]
        BY <1>1, <1>2, <2>3, TaskKinds DEF SchedTyped, Ordered
      <3>2. Latest(s, t)
        BY <1>5, <2>3, <3>1 DEF Latest
      <3> QED
        BY <1>1, <3>1, <3>2 DEF Positioned
    <2> QED
      BY <2>1, <2>2, <2>3 DEF Positioned
  <1> QED
    BY <1>6, <1>7, <1>8 DEF SchedInv, n

\* Requests and tasks may be dropped, and generations raised, at any time; a task
\* may move on with its request.
LEMMA DroppedInv ==
    ASSUME NEW s, NEW rows, SchedInv(s, rows), NEW n, SchedTyped(n),
           n.pending \subseteq s.pending, n.cursor = s.cursor,
           n.task # NoTask => s.task # NoTask /\ n.task.request = s.task.request,
           \A q \in Queries : s.generation[q] <= n.generation[q]
    PROVE  SchedInv(n, rows)
  <1>1. SchedTyped(s) /\ Ordered(s) /\ Positioned(s, rows)
    BY DEF SchedInv
  <1>2. \A q \in Queries : s.generation[q] \in Nat /\ n.generation[q] \in Nat
    BY <1>1 DEF SchedTyped
  <1>3. \A r \in s.pending : r.query \in Queries /\ r.generation \in Nat
    BY <1>1 DEF SchedTyped, Requests
  <1>4. n.task # NoTask =>
            /\ s.task # NoTask /\ n.task.request = s.task.request
            /\ s.task.request.query \in Queries /\ s.task.request.generation \in Nat
    BY <1>1, TaskKinds DEF SchedTyped
  <1>5. Ordered(n)
    BY <1>1, <1>2, <1>3, <1>4 DEF Ordered
  <1>6. Positioned(n, rows)
    <2>1. \A q \in Queries : Continues(n.cursor[q], rows[q])
      BY <1>1 DEF Positioned
    <2>2. \A r \in n.pending : Latest(n, r) => Latest(s, r)
      BY <1>1, <1>2, <1>3 DEF Ordered, Latest
    <2>3. n.task # NoTask /\ Latest(n, n.task.request) => Latest(s, s.task.request)
      BY <1>1, <1>2, <1>4 DEF Ordered, Latest
    <2> QED
      BY <1>1, <1>4, <2>1, <2>2, <2>3 DEF Positioned
  <1> QED
    BY <1>5, <1>6 DEF SchedInv

\* The rows a batch leaves, for a request whose cursor continued the old ones.
LEMMA RowsTyped ==
    ASSUME NEW rows \in Seq(Places), NEW r \in Requests, NEW batch \in Places,
           Continues(r.cursor, rows),
           batch.offset = r.cursor.offset,
           r.cursor # NoCursor => batch.revision = r.cursor.revision,
           \A i \in DOMAIN rows : rows[i].offset = i - 1
    PROVE  LET new == Rows(rows, r, batch)
           IN  /\ new \in Seq(Places) /\ new # <<>>
               /\ Len(new) = batch.offset + 1
               /\ \A i \in DOMAIN new : /\ new[i].revision = batch.revision
                                        /\ new[i].offset = i - 1
  <1>1. r.cursor \in Places /\ batch.offset \in Nat
    BY DEF Requests, Places
  <1>2. CASE r.cursor = NoCursor
    BY <1>1, <1>2 DEF Rows, NoCursor
  <1>3. CASE r.cursor # NoCursor
    <2>1. /\ Len(rows) = batch.offset
          /\ \A i \in DOMAIN rows : rows[i].revision = batch.revision
      BY <1>3 DEF Continues
    <2>2. Rows(rows, r, batch) = Append(rows, batch)
      BY <1>3 DEF Rows
    <2> QED
      BY <1>1, <2>1, <2>2, AppendProperties
  <1> QED
    BY <1>2, <1>3

\* Applying a batch puts the Query's cursor at the end of its rows.
LEMMA AppliedInv ==
    ASSUME NEW s, NEW rows \in [Queries -> Seq(Places)], SchedInv(s, rows),
           s.task = NoTask, NEW answer,
           NEW r \in Requests, \A o \in s.pending : o.query # r.query,
           NEW batch \in Places, NEW new \in [Queries -> Seq(Places)],
           Continues([revision |-> batch.revision, offset |-> batch.offset + 1],
                     new[r.query]),
           \A p \in Queries \ {r.query} : new[p] = rows[p]
    PROVE  SchedInv(Applied(s, answer, r, batch), new)
  <1> DEFINE n == Applied(s, answer, r, batch)
             q == r.query
             c == IF answer = "batch"
                  THEN [revision |-> batch.revision, offset |-> batch.offset + 1]
                  ELSE NoCursor
  <1>1. SchedTyped(s) /\ Ordered(s) /\ Positioned(s, rows) /\ q \in Queries
    BY DEF SchedInv, Requests
  <1>2. c \in Places /\ Continues(c, new[q])
    <2>1. CASE answer = "batch"
      BY <2>1 DEF Places
    <2>2. CASE answer # "batch"
      BY <2>2, NoCursorContinues
    <2> QED
      BY <2>1, <2>2
  <1>3. /\ SchedRecord(n)
        /\ n.active = s.active /\ n.generation = s.generation /\ n.task = s.task
        /\ n.pending = s.pending /\ n.loading = s.loading \ {q}
        /\ n.cursor = [s.cursor EXCEPT ![q] = c]
    BY <1>1 DEF Applied, SchedTyped, SchedRecord, Fields
  <1> HIDE DEF n, c
  <1>5. SchedTyped(n)
    BY <1>1, <1>2, <1>3 DEF SchedTyped
  <1>6. Ordered(n)
    BY <1>1, <1>3 DEF Ordered
  <1>7. Positioned(n, new)
    <2>1. \A p \in Queries : Continues(n.cursor[p], new[p])
      BY <1>1, <1>2, <1>3 DEF Positioned, SchedTyped
    <2>2. ASSUME NEW o \in n.pending, Latest(n, o)
          PROVE  Continues(o.cursor, new[o.query])
      BY <1>1, <1>3, <2>2 DEF Positioned, Latest, SchedTyped, Requests
    <2> QED
      BY <1>3, <2>1, <2>2 DEF Positioned
  <1> QED
    BY <1>5, <1>6, <1>7 DEF SchedInv, n
-----------------------------------------------------------------------------
\* The state after startNextQuery, from a scheduler in order.
LEMMA SchedulingInv ==
    ASSUME Inv, open, NEW s, SchedInv(s, shown), Scheduling(s),
           \/ s.task = sched.task
           \/ s.task = NoTask /\ ~closeRequested,
           revision' \in Nat, UNCHANGED closeRequested
    PROVE  Inv'
  <1>1. /\ sched' \in Started(s) /\ shown' = shown /\ open' = open
        /\ closeRequested' = closeRequested
    BY DEF Scheduling
  <1>2. /\ SchedInv(sched', shown)
        /\ sched'.task = s.task \/ sched'.task.at = "queued"
        /\ sched'.task = s.task \/ sched'.task # NoTask
    BY <1>1, StartedInv DEF NoTask
  <1>3. StateTyped'
    BY <1>1, <1>2 DEF Inv, StateTyped, SchedInv
  <1>4. CloseInOrder'
    BY <1>1, <1>2 DEF Inv, CloseInOrder
  <1>5. OpenInOrder'
    BY <1>1, <1>2 DEF OpenInOrder
  <1>6. AnswerFits'
    <2>1. CASE sched'.task = sched.task
      BY <2>1 DEF Inv, AnswerFits
    <2>2. CASE sched'.task = NoTask \/ sched'.task.at = "queued"
      <3>1. sched'.task.at # "evaluated"
        BY <2>2 DEF NoTask
      <3> QED
        BY <3>1 DEF AnswerFits
    <2> QED
      BY <1>2, <2>1, <2>2
  <1>7. NoTaskWithoutSession'
    BY <1>1 DEF NoTaskWithoutSession
  <1>8. RowsOfOneRevision'
    BY <1>1 DEF Inv, RowsOfOneRevision
  <1> QED
    BY <1>3, <1>4, <1>5, <1>6, <1>7, <1>8 DEF Inv

\* Nothing is scheduled at first, nor after the Notebook opens.
LEMMA NothingScheduledInv ==
    ASSUME NEW rows
    PROVE  /\ SchedInv(NothingScheduled, rows)
           /\ NothingScheduled.task = NoTask /\ NothingScheduled.active = {}
           /\ \A q \in Queries : NothingScheduled.cursor[q] = NoCursor
  <1> DEFINE s == NothingScheduled
  <1>1. /\ SchedRecord(s)
        /\ s.active = {} /\ s.pending = {} /\ s.loading = {} /\ s.task = NoTask
        /\ s.generation = [q \in Queries |-> 0] /\ s.cursor = [q \in Queries |-> NoCursor]
    BY DEF NothingScheduled, SchedRecord, Fields
  <1> HIDE DEF s
  <1>2. SchedTyped(s)
    BY <1>1, NoCursorContinues DEF SchedTyped, Tasks
  <1>3. Ordered(s) /\ Positioned(s, rows)
    BY <1>1, NoCursorContinues DEF Ordered, Positioned
  <1> QED
    BY <1>1, <1>2, <1>3 DEF SchedInv, s

\* The application starts with nothing scheduled.
LEMMA InitInv == Init => Inv
  <1> SUFFICES ASSUME Init PROVE Inv
    OBVIOUS
  <1>1. SchedInv(sched, shown) /\ sched.task = NoTask
    BY NothingScheduledInv DEF Init
  <1>2. StateTyped
    <2>1. SchedTyped(sched)
      BY <1>1 DEF SchedInv
    <2>2. shown = [q \in Queries |-> <<>>] /\ <<>> \in Seq(Places)
      BY DEF Init, NothingShown
    <2>3. shown \in [Queries -> Seq(Places)]
      BY <2>2
    <2> QED
      BY <2>1, <2>3 DEF Init, StateTyped
  <1>3. CloseInOrder /\ OpenInOrder /\ NoTaskWithoutSession
    BY <1>1 DEF Init, CloseInOrder, OpenInOrder, NoTaskWithoutSession
  <1>4. AnswerFits
    <2>1. NoTask.at # "evaluated"
      BY DEF NoTask
    <2> QED
      BY <1>1, <2>1 DEF AnswerFits
  <1>5. RowsOfOneRevision
    BY DEF Init, RowsOfOneRevision, NothingShown
  <1> QED
    BY <1>2, <1>3, <1>4, <1>5 DEF Inv

\* A commit refreshes every active Query.
LEMMA CommitInv == Inv /\ Commit => Inv'
  <1> SUFFICES ASSUME Inv, Commit PROVE Inv'
    OBVIOUS
  <1>1. SchedInv(Refreshed(sched), shown)
    BY RefreshedInv DEF Inv, OpenInOrder, Commit
  <1>2. Refreshed(sched).task = sched.task
    BY RefreshedShape DEF Inv, StateTyped
  <1> QED
    BY <1>1, <1>2, SchedulingInv DEF Inv, StateTyped, Commit, Running

\* A Query that becomes active is scheduled from its start.
LEMMA ActivateQueryInv ==
    ASSUME Inv, NEW q \in Queries, ActivateQuery(q)
    PROVE  Inv'
  <1> DEFINE s == [sched EXCEPT !.active = @ \cup {q}]
             n == Scheduled(s, q, NoCursor)
  <1>1. CASE q \in sched.active
    BY <1>1 DEF ActivateQuery, Running, Inv, StateTyped, CloseInOrder, OpenInOrder,
                AnswerFits, NoTaskWithoutSession, RowsOfOneRevision
  <1>2. CASE q \notin sched.active
    <2>1. /\ SchedRecord(s) /\ s.active = sched.active \cup {q}
          /\ s.pending = sched.pending /\ s.generation = sched.generation
          /\ s.cursor = sched.cursor /\ s.task = sched.task /\ s.loading = sched.loading
      BY DEF Inv, StateTyped, SchedTyped, SchedRecord, Fields
    <2>2. SchedInv(sched, shown)
      BY DEF ActivateQuery, Inv, OpenInOrder
    <2>3. Scheduling(n)
      BY <1>2 DEF ActivateQuery
    <2> HIDE DEF s
    <2>4. SchedTyped(s)
      BY <2>1 DEF Inv, StateTyped, SchedTyped
    <2>5. SchedInv(s, shown)
      <3>1. \A p \in Queries : sched.generation[p] <= s.generation[p]
        BY <2>1 DEF Inv, StateTyped, SchedTyped
      <3> QED
        BY <2>1, <2>2, <2>4, <3>1, DroppedInv
    <2>6. SchedInv(n, shown)
      BY <2>1, <2>5, ScheduledInv, NoCursorContinues
    <2>7. n.task = sched.task
      <3>1. q \in s.active
        BY <2>1
      <3>2. n.task = s.task
        BY <2>4, <3>1 DEF Scheduled, SchedTyped, SchedRecord, Fields
      <3> QED
        BY <2>1, <3>2
    <2> HIDE DEF n
    <2> QED
      BY <2>3, <2>6, <2>7, SchedulingInv DEF ActivateQuery, Running, Inv, StateTyped
  <1> QED
    BY <1>1, <1>2

\* A Query that is no longer wanted loses its request and its claim to an answer.
LEMMA DeactivateQueryInv ==
    ASSUME Inv, NEW q \in Queries, DeactivateQuery(q)
    PROVE  Inv'
  <1>1. /\ UNCHANGED <<open, revision, shown, closeRequested>>
        /\ sched' = [sched EXCEPT !.active = @ \ {q}, !.pending = Without(@, q),
                                  !.generation[q] = @ + 1, !.loading = @ \ {q}]
    BY DEF DeactivateQuery, Running
  <1>2. SchedTyped(sched)
    BY DEF Inv, StateTyped
  <1>3. /\ SchedRecord(sched') /\ sched'.active = sched.active \ {q}
        /\ sched'.pending = Without(sched.pending, q)
        /\ sched'.generation = [sched.generation EXCEPT ![q] = sched.generation[q] + 1]
        /\ sched'.loading = sched.loading \ {q}
        /\ sched'.cursor = sched.cursor /\ sched'.task = sched.task
    BY <1>1, <1>2 DEF SchedTyped, SchedRecord, Fields
  <1>4. sched'.pending \subseteq sched.pending
    BY <1>3 DEF Without
  <1>5. SchedTyped(sched')
    BY <1>2, <1>3, <1>4 DEF SchedTyped
  <1>6. \A p \in Queries : sched.generation[p] <= sched'.generation[p]
    BY <1>2, <1>3 DEF SchedTyped
  <1>7. StateTyped'
    BY <1>1, <1>5 DEF Inv, StateTyped
  <1>8. CloseInOrder'
    BY <1>1, <1>3 DEF Inv, CloseInOrder
  <1>9. OpenInOrder'
    <2>1. ASSUME open PROVE SchedInv(sched', shown)
      <3>1. SchedInv(sched, shown)
        BY <2>1 DEF Inv, OpenInOrder
      <3> QED
        BY <1>3, <1>4, <1>5, <1>6, <3>1, DroppedInv
    <2> QED
      BY <1>1, <2>1 DEF OpenInOrder
  <1>10. AnswerFits' /\ NoTaskWithoutSession' /\ RowsOfOneRevision'
    BY <1>1, <1>3 DEF Inv, AnswerFits, NoTaskWithoutSession, RowsOfOneRevision
  <1> QED
    BY <1>7, <1>8, <1>9, <1>10 DEF Inv

\* More results are asked for at the cursor, which continues the rows on screen.
LEMMA LoadMoreResultsInv ==
    ASSUME Inv, NEW q \in Queries, LoadMoreResults(q)
    PROVE  Inv'
  <1> DEFINE c == sched.cursor[q]
             n == Scheduled(sched, q, c)
  <1>1. open
    BY DEF LoadMoreResults, Inv, CloseInOrder
  <1>2. SchedInv(sched, shown) /\ c \in Places /\ Continues(c, shown[q])
    BY <1>1 DEF Inv, OpenInOrder, SchedInv, SchedTyped, Positioned
  <1>3. SchedInv(n, shown) /\ n.task = sched.task
    <2>1. CASE q \in sched.active
      <3>1. SchedInv(n, shown)
        BY <1>2, <2>1, ScheduledInv
      <3>2. SchedTyped(sched)
        BY <1>2 DEF SchedInv
      <3>3. n.task = sched.task
        BY <2>1, <3>2 DEF Scheduled, SchedTyped, SchedRecord, Fields
      <3> QED
        BY <3>1, <3>3
    <2>2. CASE q \notin sched.active
      BY <1>2, <2>2 DEF Scheduled
    <2> QED
      BY <2>1, <2>2
  <1>4. Scheduling(n) /\ UNCHANGED <<revision, closeRequested>>
    BY DEF LoadMoreResults, Running
  <1> HIDE DEF n
  <1> QED
    BY <1>1, <1>3, <1>4, SchedulingInv DEF Inv, StateTyped

\* The evaluation answers the request that was queued, at the newest revision.
LEMMA EvaluateShape ==
    ASSUME Inv, Evaluate
    PROVE  LET t == sched.task.request
           IN  /\ open /\ sched.task # NoTask /\ t \in Requests
               /\ UNCHANGED <<open, revision, shown, rejected, wanted, closeRequested>>
               /\ SchedRecord(sched')
               /\ sched'.active = sched.active /\ sched'.pending = sched.pending
               /\ sched'.generation = sched.generation /\ sched'.cursor = sched.cursor
               /\ sched'.loading = sched.loading
               /\ \E answer \in Answers :
                     /\ answer # "stale" => t.cursor = NoCursor \/ t.cursor.revision = revision
                     /\ sched'.task =
                           [at |-> "evaluated", request |-> t, answer |-> answer,
                            batch |-> [revision |-> revision, offset |-> t.cursor.offset]]
  <1>1. sched.task # NoTask /\ SchedTyped(sched)
    <2>1. NoTask.at # "queued" /\ sched.task.at = "queued"
      BY DEF NoTask, Evaluate
    <2> QED
      BY <2>1 DEF Inv, StateTyped
  <1>2. open /\ sched.task.request \in Requests
    BY <1>1, TaskKinds DEF Inv, NoTaskWithoutSession, SchedTyped
  <1>3. UNCHANGED <<open, revision, shown, rejected, wanted, closeRequested>>
    BY DEF Evaluate, Running
  <1>4. PICK answer \in Answers :
           /\ answer # "stale" => \/ sched.task.request.cursor = NoCursor
                                  \/ sched.task.request.cursor.revision = revision
           /\ sched' = [sched EXCEPT !.task =
                [at |-> "evaluated", request |-> @.request, answer |-> answer,
                 batch |-> [revision |-> revision, offset |-> @.request.cursor.offset]]]
    BY DEF Evaluate, Answers
  <1> QED
    BY <1>1, <1>2, <1>3, <1>4 DEF SchedTyped, SchedRecord, Fields

\* Evaluating keeps the scheduler in order: the request stays the same.
LEMMA EvaluateInv == Inv /\ Evaluate => Inv'
  <1> SUFFICES ASSUME Inv, Evaluate PROVE Inv'
    OBVIOUS
  <1> DEFINE t == sched.task.request
             batch == [revision |-> revision, offset |-> t.cursor.offset]
             Done(a) == [at |-> "evaluated", request |-> t, answer |-> a, batch |-> batch]
  <1>1. /\ open /\ sched.task # NoTask /\ t \in Requests
        /\ UNCHANGED <<open, revision, shown, closeRequested>>
        /\ SchedRecord(sched')
        /\ sched'.active = sched.active /\ sched'.pending = sched.pending
        /\ sched'.generation = sched.generation /\ sched'.cursor = sched.cursor
        /\ sched'.loading = sched.loading
    BY EvaluateShape
  <1>2. PICK answer \in Answers :
           /\ answer # "stale" => t.cursor = NoCursor \/ t.cursor.revision = revision
           /\ sched'.task = Done(answer)
    BY EvaluateShape
  <1>3. SchedTyped(sched) /\ SchedInv(sched, shown) /\ revision \in Nat
    BY <1>1 DEF Inv, OpenInOrder, StateTyped
  <1>4. t.cursor \in Places /\ batch \in Places
    BY <1>1, <1>3 DEF Requests, Places
  <1>5. Done(answer) \in Tasks /\ Done(answer) # NoTask
    BY <1>1, <1>2, <1>4 DEF Tasks, NoTask
  <1> HIDE DEF t, batch
  <1>6. SchedTyped(sched')
    BY <1>1, <1>2, <1>3, <1>5 DEF SchedTyped
  <1>7. SchedInv(sched', shown)
    <2>1. sched'.task.request = sched.task.request
      BY <1>2 DEF t
    <2>2. \A q \in Queries : sched.generation[q] <= sched'.generation[q]
      BY <1>1, <1>3 DEF SchedTyped
    <2> QED
      BY <1>1, <1>3, <1>6, <2>1, <2>2, DroppedInv
  <1>8. StateTyped' /\ OpenInOrder'
    BY <1>1, <1>6, <1>7 DEF Inv, StateTyped, OpenInOrder
  <1>9. CloseInOrder' /\ NoTaskWithoutSession' /\ RowsOfOneRevision'
    BY <1>1, <1>2, <1>5 DEF Inv, CloseInOrder, NoTaskWithoutSession, RowsOfOneRevision
  <1>10. AnswerFits'
    <2>1. /\ sched'.task.request = t /\ sched'.task.answer = answer
          /\ sched'.task.batch = batch
      BY <1>2
    <2>2. batch.offset = t.cursor.offset /\ batch.revision = revision
      BY DEF batch
    <2> QED
      BY <1>2, <2>1, <2>2 DEF AnswerFits
  <1> QED
    BY <1>8, <1>9, <1>10 DEF Inv

\* The worker is idle again: the request it had no longer binds the scheduler.
LEMMA IdleInv ==
    ASSUME NEW s, NEW rows, SchedInv(s, rows), NEW l, l \subseteq s.loading
    PROVE  LET idle == [s EXCEPT !.task = NoTask]
               settled == [idle EXCEPT !.loading = l]
           IN  /\ SchedInv(idle, rows) /\ SchedInv(settled, rows)
               /\ idle.task = NoTask /\ settled.task = NoTask
               /\ idle.active = s.active /\ settled.active = s.active
               /\ idle.generation = s.generation /\ settled.generation = s.generation
               /\ idle.pending = s.pending /\ idle.loading = s.loading
               /\ settled.loading = l
  <1> DEFINE idle == [s EXCEPT !.task = NoTask]
             settled == [idle EXCEPT !.loading = l]
  <1>1. SchedTyped(s)
    BY DEF SchedInv
  <1>2. /\ SchedRecord(idle) /\ idle.task = NoTask
        /\ idle.active = s.active /\ idle.pending = s.pending
        /\ idle.generation = s.generation /\ idle.cursor = s.cursor
        /\ idle.loading = s.loading
    BY <1>1 DEF SchedTyped, SchedRecord, Fields
  <1> HIDE DEF idle
  <1>3. /\ SchedRecord(settled) /\ settled.task = NoTask
        /\ settled.active = s.active /\ settled.pending = s.pending
        /\ settled.generation = s.generation /\ settled.cursor = s.cursor
        /\ settled.loading = l
    BY <1>2 DEF SchedRecord, Fields
  <1> HIDE DEF settled
  <1>4. SchedTyped(idle) /\ SchedTyped(settled)
    BY <1>1, <1>2, <1>3 DEF SchedTyped, Tasks
  <1>5. \A q \in Queries : s.generation[q] <= s.generation[q]
    BY <1>1 DEF SchedTyped
  <1>6. SchedInv(idle, rows)
    BY <1>2, <1>4, <1>5, DroppedInv
  <1>7. SchedInv(settled, rows)
    BY <1>3, <1>4, <1>5, DroppedInv
  <1> QED
    BY <1>2, <1>3, <1>6, <1>7 DEF idle, settled

\* The task whose end the event loop delivers.
LEMMA DoneTask ==
    ASSUME Inv, sched.task.at = "evaluated"
    PROVE  LET r == sched.task.request
           IN  /\ open /\ sched.task # NoTask /\ SchedInv(sched, shown)
               /\ r \in Requests /\ r.query \in Queries
               /\ sched.task.answer \in Answers /\ sched.task.batch \in Places
               /\ IsCurrent(sched, r) =>
                     /\ Continues(r.cursor, shown[r.query])
                     /\ \A o \in sched.pending : o.query # r.query
  <1> DEFINE r == sched.task.request
  <1>1. sched.task # NoTask
    BY DEF NoTask
  <1>2. open /\ SchedInv(sched, shown) /\ sched.task \in Tasks
    BY <1>1 DEF Inv, NoTaskWithoutSession, OpenInOrder, StateTyped, SchedTyped
  <1>3. r \in Requests /\ sched.task.answer \in Answers /\ sched.task.batch \in Places
    BY <1>1, <1>2 DEF Tasks
  <1>4. r.query \in Queries /\ r.generation \in Nat
    BY <1>3 DEF Requests
  <1>5. \A o \in sched.pending : o.generation \in Nat
    BY <1>2 DEF SchedInv, SchedTyped, Requests
  <1>6. ASSUME IsCurrent(sched, r)
        PROVE  /\ Continues(r.cursor, shown[r.query])
               /\ \A o \in sched.pending : o.query # r.query
    BY <1>1, <1>2, <1>4, <1>5, <1>6 DEF IsCurrent, Latest, SchedInv, Positioned, Ordered
  <1> QED
    BY <1>1, <1>2, <1>3, <1>4, <1>6

\* The step that puts a batch on screen.
BatchApplied ==
    LET r == sched.task.request
        idle == [sched EXCEPT !.task = NoTask]
    IN  /\ sched.task.at = "evaluated" /\ ~closeRequested
        /\ IsCurrent(sched, r) /\ sched.task.answer \in {"batch", "last batch"}
        /\ sched' \in Started(Applied(idle, sched.task.answer, r, sched.task.batch))
        /\ shown' = [shown EXCEPT ![r.query] = Rows(@, r, sched.task.batch)]
        /\ UNCHANGED <<open, revision, rejected, wanted, closeRequested>>

\* The rows a batch leaves are of its revision, and the scheduler stays in order.
LEMMA BatchAppliedShape ==
    ASSUME Inv, BatchApplied
    PROVE  LET q == sched.task.request.query
           IN  /\ SchedInv(sched', shown') /\ q \in Queries
               /\ sched'.active = sched.active /\ sched'.generation = sched.generation
               /\ sched'.loading = sched.loading \ {q}
               /\ sched'.task = NoTask => sched'.pending = {}
               /\ sched'.task.at # "evaluated"
               /\ shown' \in [Queries -> Seq(Places)]
               /\ \A p \in Queries \ {q} : shown'[p] = shown[p]
               /\ shown'[q] # <<>>
               /\ \A i \in DOMAIN shown'[q] :
                     /\ shown'[q][i].revision = sched.task.batch.revision
                     /\ shown'[q][i].offset = i - 1
  <1> DEFINE r == sched.task.request
             q == r.query
             batch == sched.task.batch
             idle == [sched EXCEPT !.task = NoTask]
             n == Applied(idle, sched.task.answer, r, batch)
             after == Rows(shown[q], r, batch)
  <1>1. /\ SchedInv(sched, shown) /\ r \in Requests /\ q \in Queries /\ batch \in Places
        /\ Continues(r.cursor, shown[q]) /\ \A o \in sched.pending : o.query # q
    BY DoneTask DEF BatchApplied
  <1>2. /\ batch.offset = r.cursor.offset
        /\ r.cursor # NoCursor => batch.revision = r.cursor.revision
    BY DEF BatchApplied, Inv, AnswerFits
  <1>3. /\ shown \in [Queries -> Seq(Places)] /\ shown[q] \in Seq(Places)
        /\ \A i \in DOMAIN shown[q] : shown[q][i].offset = i - 1
    BY <1>1 DEF Inv, StateTyped, RowsOfOneRevision
  <1> HIDE DEF r, batch
  <1>4. /\ after \in Seq(Places) /\ after # <<>> /\ Len(after) = batch.offset + 1
        /\ \A i \in DOMAIN after : after[i].revision = batch.revision /\ after[i].offset = i - 1
    <2> SUFFICES ASSUME NEW rows, rows = shown[q]
                 PROVE  LET new == Rows(rows, r, batch)
                        IN  /\ new \in Seq(Places) /\ new # <<>>
                            /\ Len(new) = batch.offset + 1
                            /\ \A i \in DOMAIN new : /\ new[i].revision = batch.revision
                                                     /\ new[i].offset = i - 1
      OBVIOUS
    <2> QED
      BY <1>1, <1>2, <1>3, RowsTyped
  <1>5. /\ SchedInv(idle, shown) /\ idle.task = NoTask /\ idle.active = sched.active
        /\ idle.generation = sched.generation /\ idle.pending = sched.pending
        /\ idle.loading = sched.loading
    <2>1. sched.loading \subseteq sched.loading
      OBVIOUS
    <2> QED
      BY <1>1, <2>1, IdleInv DEF r, batch
  <1>6. /\ shown' = [shown EXCEPT ![q] = after] /\ sched' \in Started(n)
    BY DEF BatchApplied, r, batch
  <1> HIDE DEF idle, after
  <1>7. /\ shown' \in [Queries -> Seq(Places)]
        /\ shown'[q] = after /\ \A p \in Queries \ {q} : shown'[p] = shown[p]
    BY <1>1, <1>3, <1>4, <1>6
  <1>8. /\ SchedInv(n, shown')
        /\ n.active = idle.active /\ n.generation = idle.generation /\ n.task = NoTask
        /\ n.loading = idle.loading \ {q}
    <2>1. Continues([revision |-> batch.revision, offset |-> batch.offset + 1], shown'[q])
      BY <1>4, <1>7 DEF Continues
    <2>2. \A o \in idle.pending : o.query # q
      BY <1>1, <1>5
    <2>3. /\ SchedInv(idle, shown) /\ idle.task = NoTask
          /\ shown \in [Queries -> Seq(Places)] /\ r \in Requests /\ batch \in Places
      BY <1>1, <1>3, <1>5
    <2>4. /\ shown' \in [Queries -> Seq(Places)]
          /\ \A p \in Queries \ {q} : shown'[p] = shown[p]
      BY <1>7
    <2>5. SchedInv(n, shown')
      BY <2>1, <2>2, <2>3, <2>4, AppliedInv, Zenon
    <2>6. /\ n.active = idle.active /\ n.generation = idle.generation /\ n.task = idle.task
          /\ n.loading = idle.loading \ {q}
      BY <1>5 DEF Applied, SchedInv, SchedTyped, SchedRecord, Fields
    <2> QED
      BY <2>3, <2>5, <2>6
  <1> HIDE DEF n
  <1>9. /\ SchedInv(sched', shown')
        /\ sched'.active = n.active /\ sched'.generation = n.generation
        /\ sched'.loading = n.loading
        /\ sched'.task = NoTask => sched'.pending = {}
        /\ sched'.task = n.task \/ sched'.task.at = "queued"
    BY <1>6, <1>8, StartedInv
  <1>10. sched'.task.at # "evaluated"
    BY <1>8, <1>9 DEF NoTask
  <1> QED
    BY <1>1, <1>4, <1>5, <1>7, <1>8, <1>9, <1>10 DEF r, batch

\* Showing a batch keeps the scheduler in order.
LEMMA BatchAppliedInv == Inv /\ BatchApplied => Inv'
  <1> SUFFICES ASSUME Inv, BatchApplied PROVE Inv'
    OBVIOUS
  <1> DEFINE q == sched.task.request.query
  <1>1. /\ SchedInv(sched', shown') /\ q \in Queries
        /\ sched'.task.at # "evaluated"
        /\ shown' \in [Queries -> Seq(Places)]
        /\ \A p \in Queries \ {q} : shown'[p] = shown[p]
        /\ \A i \in DOMAIN shown'[q] :
              /\ shown'[q][i].revision = sched.task.batch.revision
              /\ shown'[q][i].offset = i - 1
    BY BatchAppliedShape
  <1>2. open /\ ~closeRequested /\ UNCHANGED <<open, revision, closeRequested>>
    BY DoneTask DEF BatchApplied
  <1> HIDE DEF q
  <1>3. StateTyped'
    BY <1>1, <1>2 DEF Inv, StateTyped, SchedInv
  <1>4. CloseInOrder' /\ OpenInOrder' /\ NoTaskWithoutSession'
    BY <1>1, <1>2 DEF CloseInOrder, OpenInOrder, NoTaskWithoutSession
  <1>5. AnswerFits'
    BY <1>1 DEF AnswerFits
  <1>6. RowsOfOneRevision'
    <2>1. ASSUME NEW p \in Queries, NEW i \in DOMAIN shown'[p]
          PROVE  shown'[p][i].offset = i - 1 /\ shown'[p][i].revision = shown'[p][1].revision
      <3>1. CASE p = q
        <4>1. 1 \in DOMAIN shown'[q]
          BY <1>1, <2>1, <3>1
        <4> QED
          BY <1>1, <2>1, <3>1, <4>1
      <3>2. CASE p # q
        BY <1>1, <2>1, <3>2 DEF Inv, RowsOfOneRevision
      <3> QED
        BY <3>1, <3>2
    <2> QED
      BY <2>1 DEF RowsOfOneRevision
  <1> QED
    BY <1>3, <1>4, <1>5, <1>6 DEF Inv

\* The four ends of a task, with the state that startNextQuery works on.
LEMMA FinishTaskCases ==
    ASSUME Inv, FinishTask
    PROVE  LET r == sched.task.request
               idle == [sched EXCEPT !.task = NoTask]
               settled == [idle EXCEPT !.loading = @ \ {r.query}]
           IN  /\ UNCHANGED <<open, revision, wanted, closeRequested>>
               /\ ~closeRequested /\ sched.task.at = "evaluated"
               /\ \/ ~IsCurrent(sched, r) /\ Scheduling(idle) /\ UNCHANGED rejected
                  \/ BatchApplied
                  \/ /\ IsCurrent(sched, r) /\ UNCHANGED rejected
                     /\ Scheduling(Scheduled(settled, r.query, NoCursor))
                  \/ /\ IsCurrent(sched, r) /\ Scheduling(settled)
                     /\ rejected' = rejected \cup {r.query}
  <1>1. UNCHANGED <<open, revision, wanted, closeRequested>>
    BY DEF FinishTask, Running, Scheduling
  <1>2. ~closeRequested /\ sched.task.at = "evaluated"
    BY DEF FinishTask
  <1> QED
    BY <1>1, <1>2, Zenon DEF FinishTask, BatchApplied

\* What startNextQuery works on after an end without a batch: the task is gone and
\* the row no longer loading, unless its evaluation starts again.
LEMMA SettledInv ==
    ASSUME Inv, sched.task.at = "evaluated"
    PROVE  LET r == sched.task.request
               idle == [sched EXCEPT !.task = NoTask]
               settled == [idle EXCEPT !.loading = @ \ {r.query}]
               again == Scheduled(settled, r.query, NoCursor)
           IN  /\ SchedInv(idle, shown) /\ idle.task = NoTask
               /\ idle.active = sched.active /\ idle.loading = sched.loading
               /\ SchedInv(settled, shown) /\ settled.task = NoTask
               /\ settled.active = sched.active
               /\ settled.loading = sched.loading \ {r.query}
               /\ IsCurrent(sched, r) =>
                     /\ SchedInv(again, shown) /\ again.task = NoTask
                     /\ again.active = sched.active
                     /\ again.loading = sched.loading \cup {r.query}
  <1> DEFINE r == sched.task.request
             q == r.query
             idle == [sched EXCEPT !.task = NoTask]
             settled == [idle EXCEPT !.loading = sched.loading \ {q}]
             again == Scheduled(settled, q, NoCursor)
  <1>1. SchedInv(sched, shown)
    BY DoneTask
  <1>2. /\ SchedInv(idle, shown) /\ SchedInv(settled, shown)
        /\ idle.task = NoTask /\ settled.task = NoTask
        /\ idle.active = sched.active /\ settled.active = sched.active
        /\ idle.loading = sched.loading /\ settled.loading = sched.loading \ {q}
    <2>1. sched.loading \ {q} \subseteq sched.loading
      OBVIOUS
    <2>2. SchedInv(idle, shown) /\ SchedInv(settled, shown)
      BY <1>1, <2>1, IdleInv
    <2>3. /\ SchedRecord(idle) /\ idle.task = NoTask
          /\ idle.active = sched.active /\ idle.loading = sched.loading
      BY <1>1 DEF SchedInv, SchedTyped, SchedRecord, Fields
    <2> HIDE DEF idle
    <2>4. /\ settled.task = idle.task /\ settled.active = idle.active
          /\ settled.loading = sched.loading \ {q}
      BY <2>3 DEF SchedRecord, Fields
    <2> QED
      BY <2>2, <2>3, <2>4
  <1>3. [idle EXCEPT !.loading = @ \ {q}] = settled
    BY <1>2
  <1> HIDE DEF idle, settled
  <1>4. ASSUME IsCurrent(sched, r)
        PROVE  /\ SchedInv(again, shown) /\ again.task = NoTask
               /\ again.active = sched.active
               /\ again.loading = sched.loading \cup {q}
    <2>1. q \in settled.active
      BY <1>2, <1>4 DEF IsCurrent
    <2>2. SchedInv(again, shown)
      BY <1>2, <2>1, ScheduledInv, NoCursorContinues
    <2>3. /\ again.task = settled.task /\ again.active = settled.active
          /\ again.loading = settled.loading \cup {q}
      BY <1>2, <2>1 DEF Scheduled, SchedInv, SchedTyped, SchedRecord, Fields
    <2>4. (sched.loading \ {q}) \cup {q} = sched.loading \cup {q}
      OBVIOUS
    <2> QED
      BY <1>2, <2>2, <2>3, <2>4
  <1> QED
    BY <1>2, <1>3, <1>4 DEF idle, settled

\* However a task ends, the scheduler goes on in order.
LEMMA FinishTaskInv == Inv /\ FinishTask => Inv'
  <1> SUFFICES ASSUME Inv, FinishTask PROVE Inv'
    OBVIOUS
  <1> DEFINE r == sched.task.request
             idle == [sched EXCEPT !.task = NoTask]
             settled == [idle EXCEPT !.loading = @ \ {r.query}]
             again == Scheduled(settled, r.query, NoCursor)
  <1>1. /\ UNCHANGED <<revision, closeRequested>>
        /\ ~closeRequested /\ sched.task.at = "evaluated"
        /\ \/ BatchApplied
           \/ Scheduling(idle)
           \/ Scheduling(settled)
           \/ IsCurrent(sched, r) /\ Scheduling(again)
    BY FinishTaskCases
  <1>2. open /\ revision \in Nat
    BY <1>1, DoneTask DEF Inv, StateTyped
  <1>3. /\ SchedInv(idle, shown) /\ idle.task = NoTask
        /\ SchedInv(settled, shown) /\ settled.task = NoTask
        /\ IsCurrent(sched, r) => SchedInv(again, shown) /\ again.task = NoTask
    BY <1>1, SettledInv
  <1> HIDE DEF idle, settled, again, r
  <1>4. ASSUME NEW s, SchedInv(s, shown), s.task = NoTask, Scheduling(s)
        PROVE  Inv'
    BY <1>1, <1>2, <1>4, SchedulingInv
  <1> QED
    BY <1>1, <1>3, <1>4, BatchAppliedInv

\* A close that succeeds, and one that fails, once nothing is being evaluated.
LEMMA FinishCloseInv ==
    ASSUME Inv, open, NEW s, SchedInv(s, shown), s.task = NoTask,
           NEW quit, NEW askedFor, FinishClose(s, quit, askedFor)
    PROVE  Inv'
  <1>1. SchedTyped(s) /\ revision' = revision /\ closeRequested' = FALSE
    BY DEF SchedInv, FinishClose
  <1>2. CASE Closed(s, quit)
    <2>1. /\ open' = FALSE /\ shown' = [q \in Queries |-> <<>>]
          /\ SchedRecord(sched')
          /\ sched'.active = s.active /\ sched'.pending = s.pending
          /\ sched'.task = NoTask /\ sched'.loading = {}
          /\ sched'.generation = NothingScheduled.generation
          /\ sched'.cursor = NothingScheduled.cursor
      BY <1>1, <1>2 DEF Closed, NothingShown, SchedTyped, SchedRecord, Fields
    <2>2. /\ NothingScheduled.generation = [q \in Queries |-> 0]
          /\ NothingScheduled.cursor = [q \in Queries |-> NoCursor]
      BY DEF NothingScheduled
    <2>3. SchedTyped(sched')
      BY <1>1, <2>1, <2>2, NoCursorContinues DEF SchedTyped, Tasks
    <2>4. shown' \in [Queries -> Seq(Places)]
      BY <2>1
    <2>5. StateTyped'
      BY <1>1, <2>1, <2>3, <2>4 DEF Inv, StateTyped
    <2>6. CloseInOrder' /\ OpenInOrder' /\ NoTaskWithoutSession'
      BY <1>1, <2>1, <2>2 DEF CloseInOrder, OpenInOrder, NoTaskWithoutSession
    <2>7. sched'.task.at # "evaluated"
      BY <2>1 DEF NoTask
    <2>8. AnswerFits'
      BY <2>7 DEF AnswerFits
    <2>9. RowsOfOneRevision'
      BY <2>1 DEF RowsOfOneRevision
    <2> QED
      BY <2>5, <2>6, <2>8, <2>9 DEF Inv
  <1>3. CASE sched' = s /\ UNCHANGED <<open, shown>>
    <2>1. s.task.at # "evaluated"
      BY DEF NoTask
    <2>2. StateTyped' /\ OpenInOrder'
      BY <1>1, <1>3 DEF Inv, StateTyped, OpenInOrder
    <2>3. CloseInOrder' /\ NoTaskWithoutSession' /\ AnswerFits'
      BY <1>1, <1>3, <2>1 DEF CloseInOrder, NoTaskWithoutSession, AnswerFits
    <2>4. RowsOfOneRevision'
      BY <1>3 DEF Inv, RowsOfOneRevision
    <2> QED
      BY <2>2, <2>3, <2>4 DEF Inv
  <1> QED
    BY <1>2, <1>3 DEF FinishClose

\* The close that waited for the task is carried out at its end.
LEMMA FinishTaskAndCloseInv == Inv /\ FinishTaskAndClose => Inv'
  <1> SUFFICES ASSUME Inv, FinishTaskAndClose PROVE Inv'
    OBVIOUS
  <1> DEFINE idle == [sched EXCEPT !.task = NoTask]
  <1>1. open /\ SchedInv(idle, shown) /\ idle.task = NoTask
    BY DoneTask, SettledInv DEF FinishTaskAndClose
  <1>2. FinishClose(idle, quitRequested, asked)
    BY DEF FinishTaskAndClose
  <1> HIDE DEF idle
  <1> QED
    BY <1>1, <1>2, FinishCloseInv

\* The scheduler that a close leaves: nothing waits and no answer is current.
Cleared(s) ==
    [s EXCEPT !.active = {}, !.pending = {},
              !.generation = [q \in Queries |-> IF @[q] = 0 THEN 0 ELSE @[q] + 1]]

\* Clearing drops requests and raises generations: what is left is in order.
LEMMA ClearedInv ==
    ASSUME NEW s, NEW rows, SchedInv(s, rows)
    PROVE  /\ SchedInv(Cleared(s), rows) /\ Cleared(s).task = s.task
           /\ Cleared(s).active = {} /\ Cleared(s).cursor = s.cursor
  <1> DEFINE n == Cleared(s)
  <1>1. SchedTyped(s)
    BY DEF SchedInv
  <1>2. /\ SchedRecord(n) /\ n.active = {} /\ n.pending = {}
        /\ n.generation = [q \in Queries |-> IF s.generation[q] = 0 THEN 0
                                             ELSE s.generation[q] + 1]
        /\ n.cursor = s.cursor /\ n.task = s.task /\ n.loading = s.loading
    BY <1>1 DEF Cleared, SchedTyped, SchedRecord, Fields
  <1> HIDE DEF n
  <1>3. SchedTyped(n)
    BY <1>1, <1>2 DEF SchedTyped
  <1>4. \A q \in Queries : s.generation[q] <= n.generation[q]
    BY <1>1, <1>2 DEF SchedTyped
  <1>5. SchedInv(n, rows)
    BY <1>2, <1>3, <1>4, DroppedInv
  <1> QED
    BY <1>2, <1>5 DEF n

\* A close is carried out, or waits for the task.
LEMMA CloseNotebookInv ==
    ASSUME Inv, NEW quit \in BOOLEAN, CloseNotebook(quit)
    PROVE  Inv'
  <1> DEFINE cleared == Cleared(sched)
  <1>1. open /\ SchedInv(sched, shown)
    BY DEF CloseNotebook, Inv, OpenInOrder
  <1>2. /\ SchedInv(cleared, shown) /\ cleared.task = sched.task
        /\ cleared.cursor = sched.cursor
    BY <1>1, ClearedInv
  <1>3. \/ /\ sched.task # NoTask /\ closeRequested' = TRUE /\ sched' = cleared
           /\ UNCHANGED <<open, revision, shown>>
        \/ /\ sched.task = NoTask
           /\ FinishClose(cleared, quitRequested \/ quit, asked \/ quit)
    BY DEF CloseNotebook, Cleared
  <1> HIDE DEF cleared
  <1>4. CASE sched.task = NoTask /\ FinishClose(cleared, quitRequested \/ quit, asked \/ quit)
    BY <1>1, <1>2, <1>4, FinishCloseInv
  <1>5. CASE /\ sched.task # NoTask /\ closeRequested' = TRUE /\ sched' = cleared
             /\ UNCHANGED <<open, revision, shown>>
    <2>1. StateTyped'
      BY <1>2, <1>5 DEF Inv, StateTyped, SchedInv
    <2>2. CloseInOrder' /\ OpenInOrder' /\ NoTaskWithoutSession'
      BY <1>1, <1>2, <1>5 DEF CloseInOrder, OpenInOrder, NoTaskWithoutSession
    <2>3. AnswerFits' /\ RowsOfOneRevision'
      BY <1>2, <1>5 DEF Inv, AnswerFits, RowsOfOneRevision
    <2> QED
      BY <2>1, <2>2, <2>3 DEF Inv
  <1> QED
    BY <1>3, <1>4, <1>5

\* A Notebook opens with nothing scheduled.
LEMMA OpenNotebookInv == Inv /\ OpenNotebook => Inv'
  <1> SUFFICES ASSUME Inv, OpenNotebook PROVE Inv'
    OBVIOUS
  <1>1. sched.task = NoTask
    BY DEF Inv, NoTaskWithoutSession, OpenNotebook
  <1>2. sched' = NothingScheduled
    BY <1>1 DEF OpenNotebook, NothingScheduled
  <1>3. open' = TRUE /\ closeRequested' = FALSE /\ UNCHANGED <<revision, shown>>
    BY DEF OpenNotebook
  <1>4. SchedInv(sched', shown) /\ sched'.task = NoTask
    BY <1>2, NothingScheduledInv
  <1>5. sched'.task.at # "evaluated"
    BY <1>4 DEF NoTask
  <1>6. StateTyped' /\ OpenInOrder'
    BY <1>3, <1>4 DEF Inv, StateTyped, OpenInOrder, SchedInv
  <1>7. CloseInOrder' /\ NoTaskWithoutSession' /\ AnswerFits'
    BY <1>3, <1>5 DEF CloseInOrder, NoTaskWithoutSession, AnswerFits
  <1>8. RowsOfOneRevision'
    BY <1>3 DEF Inv, RowsOfOneRevision
  <1> QED
    BY <1>6, <1>7, <1>8 DEF Inv

\* A step of the other variables leaves the scheduler in order.
LEMMA StutterInv ==
    ASSUME Inv, UNCHANGED <<open, revision, sched, shown, closeRequested>>
    PROVE  Inv'
  BY DEF Inv, StateTyped, CloseInOrder, OpenInOrder, AnswerFits, NoTaskWithoutSession,
         RowsOfOneRevision

\* The scheduler stays in order in every step.
LEMMA NextInv == Inv /\ [Next]_vars => Inv'
  <1> SUFFICES ASSUME Inv, [Next]_vars PROVE Inv'
    OBVIOUS
  <1>1. CASE Commit
    BY <1>1, CommitInv
  <1>2. CASE Evaluate
    BY <1>2, EvaluateInv
  <1>3. CASE FinishTask
    BY <1>3, FinishTaskInv
  <1>4. CASE FinishTaskAndClose
    BY <1>4, FinishTaskAndCloseInv
  <1>5. CASE \E q \in Queries : ActivateQuery(q)
    BY <1>5, ActivateQueryInv
  <1>6. CASE \E q \in Queries : DeactivateQuery(q)
    BY <1>6, DeactivateQueryInv
  <1>7. CASE \E q \in Queries : LoadMoreResults(q)
    BY <1>7, LoadMoreResultsInv
  <1>8. CASE \E quit \in BOOLEAN : CloseNotebook(quit)
    BY <1>8, CloseNotebookInv
  <1>9. CASE QuitWithoutNotebook
    BY <1>9, StutterInv DEF QuitWithoutNotebook
  <1>10. CASE OpenNotebook
    BY <1>10, OpenNotebookInv
  <1>11. CASE UNCHANGED vars
    BY <1>11, StutterInv DEF vars
  <1> QED
    BY <1>1, <1>2, <1>3, <1>4, <1>5, <1>6, <1>7, <1>8, <1>9, <1>10, <1>11 DEF Next

\* The scheduler's order, for any Queries, commits and closes, failing ones included.
THEOREM SchedulerOrder == Spec => []Inv
  BY InitInv, NextInv, PTL DEF Spec

\* No evaluation outlives the session it reads from (closeNotebook waits for it).
THEOREM TaskHasSession == Spec => []NoTaskWithoutSession
  <1>1. Inv => NoTaskWithoutSession
    BY DEF Inv
  <1> QED
    BY <1>1, SchedulerOrder, PTL

\* The rows of a Query are the consecutive batches of one revision (applyQueryBatch).
THEOREM RowsAgree == Spec => []RowsOfOneRevision
  <1>1. Inv => RowsOfOneRevision
    BY DEF Inv
  <1> QED
    BY <1>1, SchedulerOrder, PTL
-----------------------------------------------------------------------------
\* What a step that starts or ends no evaluation does to the worker and its answer.
LEMMA StartedFresh ==
    ASSUME Inv, open, NEW s, SchedInv(s, shown), Scheduling(s)
    PROVE  /\ sched'.active = s.active /\ sched'.loading = s.loading
           /\ sched'.generation = s.generation
           /\ sched'.task = s.task \/ sched'.task.at = "queued"
           /\ sched'.task = NoTask => sched'.pending = {}
           /\ UNCHANGED <<open, shown>>
  BY StartedInv DEF Scheduling

\* Freshness is kept by a step in which no other answer becomes current and no
\* other Query stops loading without an error.
LEMMA KeptFresh ==
    ASSUME Inv, FreshInv, UNCHANGED <<open, shown, revision, closeRequested>>,
           sched'.task.at = "evaluated" /\ IsCurrent(sched', sched'.task.request) =>
               sched'.task = sched.task /\ IsCurrent(sched, sched.task.request),
           open => (sched'.task = NoTask => sched'.pending = {}),
           open /\ ~closeRequested =>
               /\ wanted' \subseteq sched'.active
               /\ \A q \in sched'.active \ (sched'.loading \cup rejected') :
                     q \in sched.active \ (sched.loading \cup rejected)
    PROVE  FreshInv'
  <1>1. CurrentAnswerIsNew'
    BY DEF FreshInv, CurrentAnswerIsNew
  <1>2. ActiveQueriesAreCurrent'
    BY DEF FreshInv, ActiveQueriesAreCurrent
  <1>3. WorkerNotIdle'
    BY DEF WorkerNotIdle
  <1> QED
    BY <1>1, <1>2, <1>3 DEF FreshInv

\* The generation of the request in the worker's hands, while the Notebook is open.
LEMMA TaskGeneration ==
    ASSUME Inv, sched.task.at = "evaluated"
    PROVE  LET r == sched.task.request
           IN  /\ open /\ r.query \in Queries /\ r.generation \in Nat
               /\ sched.generation[r.query] \in Nat
               /\ r.generation <= sched.generation[r.query]
  <1>1. /\ open /\ sched.task # NoTask /\ SchedInv(sched, shown)
        /\ sched.task.request \in Requests
    BY DoneTask
  <1> QED
    BY <1>1 DEF SchedInv, SchedTyped, Ordered, Requests

\* An evaluated answer is still current only if its Query's generation stands.
LEMMA KeptCurrent ==
    ASSUME Inv, sched'.task.at = "evaluated",
           sched'.task = sched.task \/ sched'.task = NoTask \/ sched'.task.at = "queued",
           NEW changed, sched'.active \ changed \subseteq sched.active,
           \A p \in changed \cap Queries : sched'.generation[p] = sched.generation[p] + 1,
           \A p \in Queries \ changed : sched'.generation[p] = sched.generation[p],
           IsCurrent(sched', sched'.task.request)
    PROVE  sched'.task = sched.task /\ IsCurrent(sched, sched.task.request)
  <1>1. sched'.task = sched.task
    BY DEF NoTask
  <1> DEFINE r == sched.task.request
  <1>2. /\ r.query \in Queries /\ r.generation \in Nat
        /\ sched.generation[r.query] \in Nat /\ r.generation <= sched.generation[r.query]
    BY <1>1, TaskGeneration
  <1>3. r.query \in sched'.active /\ sched'.generation[r.query] = r.generation
    BY <1>1 DEF IsCurrent
  <1> HIDE DEF r
  <1>4. r.query \notin changed
    BY <1>2, <1>3
  <1>5. r.query \in sched.active /\ sched.generation[r.query] = r.generation
    BY <1>2, <1>3, <1>4
  <1> QED
    BY <1>1, <1>5 DEF IsCurrent, r

\* A commit leaves no answer current and every active Query loading.
LEMMA CommitFresh == Inv /\ FreshInv /\ Commit => FreshInv'
  <1> SUFFICES ASSUME Inv, FreshInv, Commit PROVE FreshInv'
    OBVIOUS
  <1> DEFINE n == Refreshed(sched)
  <1>1. open /\ SchedInv(sched, shown) /\ SchedTyped(sched)
    BY DEF Commit, Inv, OpenInOrder, StateTyped
  <1>2. SchedInv(n, shown)
    BY <1>1, RefreshedInv
  <1>3. /\ n.active = sched.active /\ n.task = sched.task
        /\ n.loading = sched.loading \cup sched.active
        /\ n.generation = [q \in Queries |-> IF q \in sched.active
                                             THEN sched.generation[q] + 1
                                             ELSE sched.generation[q]]
    BY <1>1 DEF Refreshed, SchedTyped, SchedRecord, Fields
  <1>4. Scheduling(n) /\ UNCHANGED <<open, shown, closeRequested, wanted>>
    BY DEF Commit, Running, Scheduling
  <1> HIDE DEF n
  <1>5. /\ sched'.active = n.active /\ sched'.loading = n.loading
        /\ sched'.generation = n.generation
        /\ sched'.task = n.task \/ sched'.task.at = "queued"
        /\ sched'.task = NoTask => sched'.pending = {}
    BY <1>1, <1>2, <1>4, StartedFresh
  <1>6. ~(sched'.task.at = "evaluated" /\ IsCurrent(sched', sched'.task.request))
    <2> SUFFICES ASSUME sched'.task.at = "evaluated", IsCurrent(sched', sched'.task.request)
                 PROVE  FALSE
      OBVIOUS
    <2>1. IsCurrent(sched, sched.task.request) /\ sched'.task = sched.task
      <3>1. \A p \in sched.active \cap Queries :
                sched'.generation[p] = sched.generation[p] + 1
        BY <1>3, <1>5
      <3>2. \A p \in Queries \ sched.active : sched'.generation[p] = sched.generation[p]
        BY <1>3, <1>5
      <3>3. sched'.active \ sched.active \subseteq sched.active
        BY <1>3, <1>5
      <3> QED
        BY <1>3, <1>5, <3>1, <3>2, <3>3, KeptCurrent
    <2>2. /\ sched.task.request.query \in Queries
          /\ sched.generation[sched.task.request.query] \in Nat
      BY <2>1, TaskGeneration
    <2> QED
      BY <1>3, <1>5, <2>1, <2>2 DEF IsCurrent
  <1>7. CurrentAnswerIsNew'
    BY <1>6 DEF CurrentAnswerIsNew
  <1>8. ActiveQueriesAreCurrent'
    BY <1>3, <1>4, <1>5 DEF FreshInv, ActiveQueriesAreCurrent
  <1>9. WorkerNotIdle'
    BY <1>5 DEF WorkerNotIdle
  <1> QED
    BY <1>7, <1>8, <1>9 DEF FreshInv

\* A Query that becomes active is loading.
LEMMA ActivateQueryFresh ==
    ASSUME Inv, FreshInv, NEW q \in Queries, ActivateQuery(q)
    PROVE  FreshInv'
  <1> DEFINE s == [sched EXCEPT !.active = @ \cup {q}]
             n == Scheduled(s, q, NoCursor)
  <1>1. CASE q \in sched.active
    <2>1. /\ UNCHANGED <<open, shown, revision, closeRequested, sched, rejected>>
          /\ wanted' = wanted \cup {q}
      BY <1>1 DEF ActivateQuery, Running
    <2> QED
      BY <1>1, <2>1 DEF FreshInv, CurrentAnswerIsNew, ActiveQueriesAreCurrent,
                        WorkerNotIdle
  <1>2. CASE q \notin sched.active
    <2>1. /\ open /\ SchedTyped(sched) /\ Scheduling(n)
          /\ UNCHANGED <<open, shown, revision, closeRequested>>
          /\ wanted' = wanted \cup {q} /\ rejected' = rejected \ {q}
      BY <1>2 DEF ActivateQuery, Running, Scheduling, Inv, StateTyped
    <2>2. /\ SchedRecord(s) /\ s.active = sched.active \cup {q}
          /\ s.pending = sched.pending /\ s.generation = sched.generation
          /\ s.cursor = sched.cursor /\ s.task = sched.task /\ s.loading = sched.loading
      BY <2>1 DEF SchedTyped, SchedRecord, Fields
    <2> HIDE DEF s
    <2>3. SchedTyped(s)
      BY <2>1, <2>2 DEF SchedTyped
    <2>4. SchedInv(s, shown)
      <3>1. SchedInv(sched, shown)
        BY <2>1 DEF Inv, OpenInOrder
      <3>2. \A p \in Queries : sched.generation[p] <= s.generation[p]
        BY <2>1, <2>2 DEF SchedTyped
      <3> QED
        BY <2>2, <2>3, <3>1, <3>2, DroppedInv
    <2>5. SchedInv(n, shown)
      BY <2>2, <2>4, ScheduledInv, NoCursorContinues
    <2>6. /\ n.active = s.active /\ n.task = s.task /\ n.loading = s.loading \cup {q}
          /\ n.generation = [s.generation EXCEPT ![q] = s.generation[q] + 1]
      <3>1. q \in s.active
        BY <2>2
      <3> QED
        BY <2>3, <3>1 DEF Scheduled, SchedTyped, SchedRecord, Fields
    <2> HIDE DEF n
    <2>7. /\ sched'.active = n.active /\ sched'.loading = n.loading
          /\ sched'.generation = n.generation
          /\ sched'.task = n.task \/ sched'.task.at = "queued"
          /\ sched'.task = NoTask => sched'.pending = {}
      BY <2>1, <2>5, StartedFresh
    <2>8. ASSUME sched'.task.at = "evaluated", IsCurrent(sched', sched'.task.request)
          PROVE  sched'.task = sched.task /\ IsCurrent(sched, sched.task.request)
      <3>1. \A p \in {q} \cap Queries : sched'.generation[p] = sched.generation[p] + 1
        BY <2>1, <2>2, <2>6, <2>7 DEF SchedTyped
      <3>2. \A p \in Queries \ {q} : sched'.generation[p] = sched.generation[p]
        BY <2>1, <2>2, <2>6, <2>7 DEF SchedTyped
      <3>3. sched'.active \ {q} \subseteq sched.active
        BY <2>2, <2>6, <2>7
      <3> QED
        BY <2>2, <2>6, <2>7, <2>8, <3>1, <3>2, <3>3, KeptCurrent
    <2>9. open /\ ~closeRequested =>
              /\ wanted' \subseteq sched'.active
              /\ \A p \in sched'.active \ (sched'.loading \cup rejected') :
                    p \in sched.active \ (sched.loading \cup rejected)
      BY <2>1, <2>2, <2>6, <2>7 DEF FreshInv, ActiveQueriesAreCurrent
    <2> QED
      BY <2>1, <2>7, <2>8, <2>9, KeptFresh
  <1> QED
    BY <1>1, <1>2

\* A Query that is dropped owes nothing to the screen.
LEMMA DeactivateQueryFresh ==
    ASSUME Inv, FreshInv, NEW q \in Queries, DeactivateQuery(q)
    PROVE  FreshInv'
  <1>1. /\ UNCHANGED <<open, revision, shown, closeRequested, rejected>>
        /\ wanted' = wanted \ {q}
        /\ sched' = [sched EXCEPT !.active = @ \ {q}, !.pending = Without(@, q),
                                  !.generation[q] = @ + 1, !.loading = @ \ {q}]
    BY DEF DeactivateQuery, Running
  <1>2. SchedTyped(sched)
    BY DEF Inv, StateTyped
  <1>3. /\ sched'.active = sched.active \ {q} /\ sched'.loading = sched.loading \ {q}
        /\ sched'.pending = Without(sched.pending, q) /\ sched'.task = sched.task
        /\ sched'.generation = [sched.generation EXCEPT ![q] = sched.generation[q] + 1]
    BY <1>1, <1>2 DEF SchedTyped, SchedRecord, Fields
  <1>4. ASSUME sched'.task.at = "evaluated", IsCurrent(sched', sched'.task.request)
        PROVE  sched'.task = sched.task /\ IsCurrent(sched, sched.task.request)
    BY <1>2, <1>3, <1>4 DEF IsCurrent, SchedTyped
  <1>5. open => (sched'.task = NoTask => sched'.pending = {})
    BY <1>3 DEF FreshInv, WorkerNotIdle, Without
  <1>6. open /\ ~closeRequested =>
            /\ wanted' \subseteq sched'.active
            /\ \A p \in sched'.active \ (sched'.loading \cup rejected') :
                  p \in sched.active \ (sched.loading \cup rejected)
    BY <1>1, <1>3 DEF FreshInv, ActiveQueriesAreCurrent
  <1> QED
    BY <1>1, <1>4, <1>5, <1>6, KeptFresh

\* A Query of which more is asked is loading.
LEMMA LoadMoreResultsFresh ==
    ASSUME Inv, FreshInv, NEW q \in Queries, LoadMoreResults(q)
    PROVE  FreshInv'
  <1> DEFINE c == sched.cursor[q]
             n == Scheduled(sched, q, c)
  <1>1. open
    BY DEF LoadMoreResults, Inv, CloseInOrder
  <1>2. /\ SchedInv(sched, shown) /\ SchedTyped(sched)
        /\ c \in Places /\ Continues(c, shown[q])
    BY <1>1 DEF Inv, OpenInOrder, SchedInv, SchedTyped, Positioned
  <1>3. /\ Scheduling(n) /\ UNCHANGED <<open, shown, revision, closeRequested, wanted>>
        /\ rejected' = rejected \ (sched.active \cap {q})
    BY DEF LoadMoreResults, Running, Scheduling
  <1>4. CASE q \in sched.active
    <2>1. SchedInv(n, shown)
      BY <1>2, <1>4, ScheduledInv
    <2>2. /\ n.active = sched.active /\ n.task = sched.task
          /\ n.loading = sched.loading \cup {q}
          /\ n.generation = [sched.generation EXCEPT ![q] = sched.generation[q] + 1]
      BY <1>2, <1>4 DEF Scheduled, SchedTyped, SchedRecord, Fields
    <2> HIDE DEF n
    <2>3. /\ sched'.active = n.active /\ sched'.loading = n.loading
          /\ sched'.generation = n.generation
          /\ sched'.task = n.task \/ sched'.task.at = "queued"
          /\ sched'.task = NoTask => sched'.pending = {}
      BY <1>1, <1>3, <2>1, StartedFresh
    <2>4. ASSUME sched'.task.at = "evaluated", IsCurrent(sched', sched'.task.request)
          PROVE  sched'.task = sched.task /\ IsCurrent(sched, sched.task.request)
      <3>1. \A p \in {q} \cap Queries : sched'.generation[p] = sched.generation[p] + 1
        BY <1>2, <2>2, <2>3 DEF SchedTyped
      <3>2. \A p \in Queries \ {q} : sched'.generation[p] = sched.generation[p]
        BY <1>2, <2>2, <2>3 DEF SchedTyped
      <3>3. sched'.active \ {q} \subseteq sched.active
        BY <2>2, <2>3
      <3> QED
        BY <2>2, <2>3, <2>4, <3>1, <3>2, <3>3, KeptCurrent
    <2>5. open /\ ~closeRequested =>
              /\ wanted' \subseteq sched'.active
              /\ \A p \in sched'.active \ (sched'.loading \cup rejected') :
                    p \in sched.active \ (sched.loading \cup rejected)
      BY <1>3, <2>2, <2>3 DEF FreshInv, ActiveQueriesAreCurrent
    <2> QED
      BY <1>3, <2>3, <2>4, <2>5, KeptFresh
  <1>5. CASE q \notin sched.active
    <2>1. n = sched /\ rejected' = rejected
      BY <1>3, <1>5 DEF Scheduled
    <2>2. Scheduling(sched)
      BY <1>3, <2>1
    <2> HIDE DEF n
    <2>3. /\ sched'.active = sched.active /\ sched'.loading = sched.loading
          /\ sched'.generation = sched.generation
          /\ sched'.task = sched.task \/ sched'.task.at = "queued"
          /\ sched'.task = NoTask => sched'.pending = {}
      BY <1>1, <1>2, <2>2, StartedFresh
    <2>4. ASSUME sched'.task.at = "evaluated", IsCurrent(sched', sched'.task.request)
          PROVE  sched'.task = sched.task /\ IsCurrent(sched, sched.task.request)
      BY <2>3, <2>4 DEF IsCurrent
    <2>5. open /\ ~closeRequested => wanted' \subseteq sched'.active
      BY <1>3, <2>3 DEF FreshInv, ActiveQueriesAreCurrent
    <2> QED
      BY <1>3, <2>1, <2>3, <2>4, <2>5, KeptFresh
  <1> QED
    BY <1>4, <1>5

\* The worker answers at the newest revision.
LEMMA EvaluateFresh == Inv /\ FreshInv /\ Evaluate => FreshInv'
  <1> SUFFICES ASSUME Inv, FreshInv, Evaluate PROVE FreshInv'
    OBVIOUS
  <1> DEFINE t == sched.task.request
  <1>1. /\ UNCHANGED <<open, revision, shown, rejected, wanted, closeRequested>>
        /\ sched'.active = sched.active /\ sched'.loading = sched.loading
    BY EvaluateShape
  <1>2. PICK answer \in Answers :
           sched'.task = [at |-> "evaluated", request |-> t, answer |-> answer,
                          batch |-> [revision |-> revision, offset |-> t.cursor.offset]]
    BY EvaluateShape
  <1>3. CurrentAnswerIsNew'
    <2>1. sched'.task.batch.revision = revision
      BY <1>2
    <2> QED
      BY <1>1, <2>1 DEF CurrentAnswerIsNew
  <1>4. ActiveQueriesAreCurrent'
    BY <1>1 DEF FreshInv, ActiveQueriesAreCurrent
  <1>5. WorkerNotIdle'
    <2>1. sched'.task # NoTask
      BY <1>2 DEF NoTask
    <2> QED
      BY <2>1 DEF WorkerNotIdle
  <1> QED
    BY <1>3, <1>4, <1>5 DEF FreshInv

\* A row stops loading only for a new batch or an error.
LEMMA FinishTaskFresh == Inv /\ FreshInv /\ FinishTask => FreshInv'
  <1> SUFFICES ASSUME Inv, FreshInv, FinishTask PROVE FreshInv'
    OBVIOUS
  <1> DEFINE r == sched.task.request
             q == r.query
             idle == [sched EXCEPT !.task = NoTask]
             settled == [idle EXCEPT !.loading = @ \ {q}]
             again == Scheduled(settled, q, NoCursor)
  <1>1. /\ UNCHANGED <<open, revision, wanted, closeRequested>>
        /\ ~closeRequested /\ sched.task.at = "evaluated"
        /\ \/ BatchApplied
           \/ Scheduling(idle) /\ UNCHANGED rejected
           \/ Scheduling(settled) /\ rejected' = rejected \cup {q}
           \/ IsCurrent(sched, r) /\ Scheduling(again) /\ UNCHANGED rejected
    BY FinishTaskCases
  <1>2. open
    BY <1>1, DoneTask
  <1>3. /\ SchedInv(idle, shown) /\ idle.task = NoTask
        /\ idle.active = sched.active /\ idle.loading = sched.loading
        /\ SchedInv(settled, shown) /\ settled.task = NoTask
        /\ settled.active = sched.active /\ settled.loading = sched.loading \ {q}
        /\ IsCurrent(sched, r) => /\ SchedInv(again, shown) /\ again.task = NoTask
                                  /\ again.active = sched.active
                                  /\ again.loading = sched.loading \cup {q}
    BY <1>1, SettledInv
  <1> HIDE DEF idle, settled, again
  <1>4. ASSUME NEW s, SchedInv(s, shown), s.task = NoTask, Scheduling(s),
               s.active = sched.active,
               \A p \in sched.active \ (s.loading \cup rejected') :
                   p \in sched.active \ (sched.loading \cup rejected)
        PROVE  FreshInv'
    <2>1. /\ sched'.active = s.active /\ sched'.loading = s.loading
          /\ sched'.task = s.task \/ sched'.task.at = "queued"
          /\ sched'.task = NoTask => sched'.pending = {}
          /\ UNCHANGED <<open, shown>>
      BY <1>2, <1>4, StartedFresh
    <2>2. sched'.task.at # "evaluated"
      BY <1>4, <2>1 DEF NoTask
    <2>3. open /\ ~closeRequested => wanted' \subseteq sched'.active
      BY <1>1, <1>4, <2>1 DEF FreshInv, ActiveQueriesAreCurrent
    <2> QED
      BY <1>1, <1>4, <2>1, <2>2, <2>3, KeptFresh
  <1>5. CASE BatchApplied
    <2> DEFINE batch == sched.task.batch
    <2>1. /\ q \in Queries
          /\ sched'.active = sched.active
          /\ sched'.loading = sched.loading \ {q}
          /\ sched'.task = NoTask => sched'.pending = {}
          /\ sched'.task.at # "evaluated"
          /\ \A p \in Queries \ {q} : shown'[p] = shown[p]
          /\ shown'[q] # <<>>
          /\ \A i \in DOMAIN shown'[q] : shown'[q][i].revision = batch.revision
      BY <1>5, BatchAppliedShape
    <2>2. batch.revision = revision /\ UNCHANGED rejected
      BY <1>5 DEF BatchApplied, FreshInv, CurrentAnswerIsNew
    <2>3. sched.active \subseteq Queries
      BY DEF Inv, StateTyped, SchedTyped
    <2> HIDE DEF batch, q
    <2>4. CurrentAnswerIsNew' /\ WorkerNotIdle'
      BY <2>1 DEF CurrentAnswerIsNew, WorkerNotIdle
    <2>5. ActiveQueriesAreCurrent'
      BY <1>1, <1>2, <2>1, <2>2, <2>3 DEF FreshInv, ActiveQueriesAreCurrent
    <2> QED
      BY <2>4, <2>5 DEF FreshInv
  <1> HIDE DEF q, r
  <1>6. CASE Scheduling(idle) /\ UNCHANGED rejected
    BY <1>3, <1>4, <1>6
  <1>7. CASE Scheduling(settled) /\ rejected' = rejected \cup {q}
    <2>1. \A p \in sched.active \ (settled.loading \cup rejected') :
              p \in sched.active \ (sched.loading \cup rejected)
      BY <1>3, <1>7
    <2> QED
      BY <1>3, <1>4, <1>7, <2>1
  <1>8. CASE IsCurrent(sched, r) /\ Scheduling(again) /\ UNCHANGED rejected
    <2>1. \A p \in sched.active \ (again.loading \cup rejected') :
              p \in sched.active \ (sched.loading \cup rejected)
      BY <1>3, <1>8
    <2> QED
      BY <1>3, <1>4, <1>8, <2>1
  <1> QED
    BY <1>1, <1>5, <1>6, <1>7, <1>8

\* A close that succeeds leaves nothing on screen.
LEMMA FinishCloseFresh ==
    ASSUME CloseCanFail = FALSE, NEW s, SchedTyped(s), s.task = NoTask,
           NEW quit, NEW askedFor, FinishClose(s, quit, askedFor)
    PROVE  FreshInv'
  <1>1. Closed(s, quit)
    BY DEF FinishClose
  <1>2. open' = FALSE /\ sched'.task = NoTask
    BY <1>1 DEF Closed, SchedTyped, SchedRecord, Fields
  <1>3. sched'.task.at # "evaluated"
    BY <1>2 DEF NoTask
  <1> QED
    BY <1>2, <1>3 DEF FreshInv, CurrentAnswerIsNew, ActiveQueriesAreCurrent, WorkerNotIdle

\* So does the close that waited for the worker.
LEMMA FinishTaskAndCloseFresh ==
    ASSUME CloseCanFail = FALSE, Inv, FinishTaskAndClose
    PROVE  FreshInv'
  <1> DEFINE idle == [sched EXCEPT !.task = NoTask]
  <1>1. SchedInv(idle, shown) /\ idle.task = NoTask
    BY DoneTask, SettledInv DEF FinishTaskAndClose
  <1>2. FinishClose(idle, quitRequested, asked)
    BY DEF FinishTaskAndClose
  <1> HIDE DEF idle
  <1> QED
    BY <1>1, <1>2, FinishCloseFresh DEF SchedInv

\* A close that has to wait leaves no Query active.
LEMMA CloseNotebookFresh ==
    ASSUME CloseCanFail = FALSE, Inv, NEW quit \in BOOLEAN, CloseNotebook(quit)
    PROVE  FreshInv'
  <1> DEFINE cleared == Cleared(sched)
  <1>1. SchedInv(sched, shown)
    BY DEF CloseNotebook, Inv, OpenInOrder
  <1>2. SchedInv(cleared, shown) /\ cleared.task = sched.task /\ cleared.active = {}
    BY <1>1, ClearedInv
  <1>3. \/ /\ sched.task # NoTask /\ closeRequested' = TRUE /\ sched' = cleared
        \/ /\ sched.task = NoTask
           /\ FinishClose(cleared, quitRequested \/ quit, asked \/ quit)
    BY DEF CloseNotebook, Cleared
  <1> HIDE DEF cleared
  <1>4. CASE sched.task # NoTask /\ closeRequested' = TRUE /\ sched' = cleared
    BY <1>2, <1>4 DEF FreshInv, CurrentAnswerIsNew, ActiveQueriesAreCurrent, WorkerNotIdle,
                      IsCurrent
  <1>5. CASE sched.task = NoTask /\ FinishClose(cleared, quitRequested \/ quit, asked \/ quit)
    BY <1>2, <1>5, FinishCloseFresh DEF SchedInv
  <1> QED
    BY <1>3, <1>4, <1>5

\* A Notebook opens with no Query on screen.
LEMMA OpenNotebookFresh == Inv /\ OpenNotebook => FreshInv'
  <1> SUFFICES ASSUME Inv, OpenNotebook PROVE FreshInv'
    OBVIOUS
  <1>1. sched' = NothingScheduled /\ wanted' = {}
    BY DEF Inv, NoTaskWithoutSession, OpenNotebook, NothingScheduled
  <1>2. /\ sched'.active = {} /\ sched'.pending = {} /\ sched'.task.at # "evaluated"
    BY <1>1 DEF NothingScheduled, NoTask
  <1> QED
    BY <1>1, <1>2 DEF FreshInv, CurrentAnswerIsNew, ActiveQueriesAreCurrent, WorkerNotIdle

\* Nothing is on screen at first.
LEMMA InitFresh == Init => FreshInv
  <1> SUFFICES ASSUME Init PROVE FreshInv
    OBVIOUS
  <1>1. /\ sched.active = {} /\ sched.pending = {} /\ sched.task.at # "evaluated"
        /\ wanted = {}
    BY DEF Init, NothingScheduled, NoTask
  <1> QED
    BY <1>1 DEF FreshInv, CurrentAnswerIsNew, ActiveQueriesAreCurrent, WorkerNotIdle

\* When closes succeed, no step lets an old row or a waiting request be forgotten.
LEMMA NextFresh ==
    ASSUME CloseCanFail = FALSE, Inv, FreshInv, [Next]_vars
    PROVE  FreshInv'
  <1>1. CASE Commit
    BY <1>1, CommitFresh
  <1>2. CASE Evaluate
    BY <1>2, EvaluateFresh
  <1>3. CASE FinishTask
    BY <1>3, FinishTaskFresh
  <1>4. CASE FinishTaskAndClose
    BY <1>4, FinishTaskAndCloseFresh
  <1>5. CASE \E q \in Queries : ActivateQuery(q)
    BY <1>5, ActivateQueryFresh
  <1>6. CASE \E q \in Queries : DeactivateQuery(q)
    BY <1>6, DeactivateQueryFresh
  <1>7. CASE \E q \in Queries : LoadMoreResults(q)
    BY <1>7, LoadMoreResultsFresh
  <1>8. CASE \E quit \in BOOLEAN : CloseNotebook(quit)
    BY <1>8, CloseNotebookFresh
  <1>9. CASE OpenNotebook
    BY <1>9, OpenNotebookFresh
  <1>10. CASE QuitWithoutNotebook \/ UNCHANGED vars
    <2>1. UNCHANGED <<open, revision, sched, shown, rejected, closeRequested, wanted>>
      BY <1>10 DEF QuitWithoutNotebook, vars
    <2> QED
      BY <2>1 DEF FreshInv, CurrentAnswerIsNew, ActiveQueriesAreCurrent, WorkerNotIdle
  <1> QED
    BY <1>1, <1>2, <1>3, <1>4, <1>5, <1>6, <1>7, <1>8, <1>9, <1>10 DEF Next

\* Freshness of the scheduler, for Notebooks whose closes succeed.
THEOREM SchedulerFreshness == ASSUME CloseCanFail = FALSE PROVE Spec => []FreshInv
  <1>1. Inv /\ FreshInv /\ [Next]_vars => FreshInv'
    BY NextFresh
  <1> QED
    BY <1>1, InitFresh, SchedulerOrder, PTL DEF Spec

\* The worker is never idle while a request waits (startNextQuery is never missed).
THEOREM WorkerTakesRequests == ASSUME CloseCanFail = FALSE PROVE Spec => []WorkerNotIdle
  <1>1. FreshInv => WorkerNotIdle
    BY DEF FreshInv
  <1> QED
    BY <1>1, SchedulerFreshness, PTL

\* A Query on screen shows the newest revision, is loading or has reported an error
\* (refreshQueries and the generations that applyQueryBatch compares).
THEOREM ScreenIsCurrent == ASSUME CloseCanFail = FALSE PROVE Spec => []WantedQueriesAreCurrent
  <1>1. FreshInv => WantedQueriesAreCurrent
    BY DEF FreshInv, ActiveQueriesAreCurrent, WantedQueriesAreCurrent
  <1> QED
    BY <1>1, SchedulerFreshness, PTL
-----------------------------------------------------------------------------
\* A quit that waits for a close is one that the user asked for.
QuitWasAsked == quitRequested => open /\ asked

\* When closes succeed, only a quit that was asked for is carried over a close.
LEMMA NextQuitWasAsked ==
    ASSUME CloseCanFail = FALSE, QuitWasAsked, [Next]_vars
    PROVE  QuitWasAsked' /\ (~exited /\ exited' /\ open => asked')
  <1> DEFINE Goal == QuitWasAsked' /\ (~exited /\ exited' /\ open => asked')
  <1>1. ASSUME NEW s, NEW quit, NEW askedFor, quit => askedFor, FinishClose(s, quit, askedFor)
        PROVE  Goal
    BY <1>1 DEF FinishClose, Closed, QuitWasAsked
  <1>2. CASE FinishTaskAndClose
    <2>1. FinishClose([sched EXCEPT !.task = NoTask], quitRequested, asked)
      BY <1>2 DEF FinishTaskAndClose
    <2>2. quitRequested => asked
      BY DEF QuitWasAsked
    <2> QED
      BY <1>1, <2>1, <2>2
  <1>3. ASSUME NEW quit \in BOOLEAN, CloseNotebook(quit)
        PROVE  Goal
    <2>1. \/ /\ open
             /\ quitRequested' = (quitRequested \/ quit) /\ asked' = (asked \/ quit)
             /\ UNCHANGED <<open, exited>>
          \/ FinishClose(Cleared(sched), quitRequested \/ quit, asked \/ quit)
      BY <1>3 DEF CloseNotebook, Cleared
    <2>2. quitRequested \/ quit => asked \/ quit
      BY DEF QuitWasAsked
    <2> QED
      BY <1>1, <2>1, <2>2 DEF QuitWasAsked
  <1>4. CASE OpenNotebook
    BY <1>4 DEF OpenNotebook, QuitWasAsked
  <1>5. CASE QuitWithoutNotebook
    BY <1>5 DEF QuitWithoutNotebook, QuitWasAsked
  <1>6. CASE \/ Commit \/ Evaluate \/ FinishTask
             \/ \E q \in Queries : ActivateQuery(q) \/ DeactivateQuery(q) \/ LoadMoreResults(q)
    <2>1. UNCHANGED <<open, quitRequested, exited, asked>>
      BY <1>6 DEF Commit, Evaluate, FinishTask, ActivateQuery, DeactivateQuery,
                  LoadMoreResults, Scheduling, Running
    <2> QED
      BY <2>1 DEF QuitWasAsked
  <1>7. CASE UNCHANGED vars
    BY <1>7 DEF vars, QuitWasAsked
  <1> QED
    BY <1>2, <1>3, <1>4, <1>5, <1>6, <1>7 DEF Next

\* Where closes succeed, the application exits with an open Notebook only when the
\* user asked for it and no close has answered yet (requestApplicationQuit,
\* finishCloseNotebook); the run SchedulerStaleQuit shows what a failed close does.
THEOREM ExitWasAskedFor == ASSUME CloseCanFail = FALSE PROVE Spec => ExitsOnlyWhenAsked
  <1>1. Init => QuitWasAsked
    BY DEF Init, QuitWasAsked
  <1>2. QuitWasAsked /\ [Next]_vars =>
            QuitWasAsked' /\ [ ~exited /\ exited' /\ open => asked' ]_vars
    BY NextQuitWasAsked
  <1> QED
    BY <1>1, <1>2, PTL DEF Spec, ExitsOnlyWhenAsked
-----------------------------------------------------------------------------
\* The bounds: revisions and offsets there are, and generations no larger than what
\* the requests of a user and one repetition of the last of them make.
Spots == {p \in Places : p.revision <= MaxRevision /\ p.offset <= MaxBatches}
Small(r) == r.cursor \in Spots /\ (r.cursor # NoCursor => r.generation <= MaxGeneration)

\* One request of a Query waits at most, whether the Notebook is open or not.  A
\* generation beyond MaxGeneration belongs to a request made of a stale answer, which
\* has no cursor and cannot be stale itself.
SchedSmall(s) ==
    /\ \A r, o \in s.pending : r.query = o.query => r = o
    /\ \A r \in s.pending : Small(r)
    /\ s.task # NoTask => Small(s.task.request)
    /\ \A q \in Queries : s.generation[q] <= MaxGeneration + 1 /\ s.cursor[q] \in Spots
AnswerSmall(t) ==
    t.at = "evaluated" =>
        /\ t.batch \in Spots /\ 1 <= t.batch.revision
        /\ t.answer = "batch" => t.batch.offset < MaxBatches
        /\ t.answer = "stale" => t.request.cursor # NoCursor
RowsSmall(rows) ==
    \A q \in Queries : \A i \in DOMAIN rows[q] : rows[q][i] \in Spots /\ 1 <= rows[q][i].revision
SmallInv ==
    /\ SchedSmall(sched) /\ AnswerSmall(sched.task) /\ RowsSmall(shown)
    /\ revision \in 1 .. MaxRevision /\ wanted \subseteq Queries /\ rejected \subseteq Queries

\* The cursor that starts a Query is within the bounds.
LEMMA NoCursorSmall ==
    NoCursor \in Spots /\ MaxGeneration \in Nat /\ MaxRevision \in Nat /\ MaxBatches \in Nat
  BY BoundsAssumption DEF Spots, Places, NoCursor

\* What drops requests and stays within the bounds is within the bounds.
LEMMA DroppedSmall ==
    ASSUME NEW s, SchedSmall(s), NEW n, n.pending \subseteq s.pending,
           n.task # NoTask => s.task # NoTask /\ n.task.request = s.task.request,
           \A q \in Queries : n.generation[q] <= MaxGeneration + 1 /\ n.cursor[q] \in Spots
    PROVE  SchedSmall(n)
  BY DEF SchedSmall

\* A new request stays within the bounds if the Query had room for it, or starts again.
LEMMA ScheduledSmall ==
    ASSUME NEW s, SchedTyped(s), SchedSmall(s), NEW q \in s.active, NEW c \in Spots,
           s.generation[q] <= MaxGeneration, c # NoCursor => s.generation[q] < MaxGeneration
    PROVE  SchedSmall(Scheduled(s, q, c)) /\ Scheduled(s, q, c).task = s.task
  <1> DEFINE n == Scheduled(s, q, c)
             new == Request(q, s.generation[q] + 1, c)
  <1>1. /\ n.task = s.task /\ n.cursor = s.cursor
        /\ n.generation = [s.generation EXCEPT ![q] = s.generation[q] + 1]
        /\ n.pending = Without(s.pending, q) \cup {new}
    BY ScheduledShape
  <1>2. q \in Queries /\ s.generation \in [Queries -> Nat]
    BY DEF SchedTyped
  <1>3. new.query = q /\ new.cursor = c /\ new.generation = s.generation[q] + 1
    BY DEF Request
  <1> HIDE DEF n, new
  <1>4. Small(new)
    BY <1>2, <1>3, NoCursorSmall DEF Small
  <1>5. \A r \in Without(s.pending, q) : r \in s.pending /\ r.query # q
    BY DEF Without
  <1>6. \A p \in Queries : n.generation[p] <= MaxGeneration + 1 /\ n.cursor[p] \in Spots
    BY <1>1, <1>2, NoCursorSmall DEF SchedSmall
  <1>7. \A r, o \in n.pending : r.query = o.query => r = o
    BY <1>1, <1>3, <1>5 DEF SchedSmall
  <1>8. SchedSmall(n)
    BY <1>1, <1>4, <1>5, <1>6, <1>7 DEF SchedSmall
  <1> QED
    BY <1>1, <1>8 DEF n

\* The worker takes a request that was within the bounds.
LEMMA StartedSmall ==
    ASSUME NEW s, SchedTyped(s), SchedSmall(s), AnswerSmall(s.task), NEW n \in Started(s)
    PROVE  SchedSmall(n) /\ AnswerSmall(n.task)
  <1>1. n.generation = s.generation /\ n.cursor = s.cursor
    BY StartedShape
  <1>2. CASE n = s
    BY <1>2
  <1>3. ASSUME NEW r \in s.pending, n.pending = s.pending \ {r},
               n.task = [at |-> "queued", request |-> r]
        PROVE  SchedSmall(n) /\ AnswerSmall(n.task)
    <2>1. n.task.at = "queued" /\ n.task.request = r
      BY <1>3
    <2>2. Small(r) /\ n.pending \subseteq s.pending
      BY <1>3 DEF SchedSmall
    <2> QED
      BY <1>1, <2>1, <2>2 DEF SchedSmall, AnswerSmall
  <1> QED
    BY <1>2, <1>3, StartedShape

\* The state after startNextQuery.
LEMMA SchedulingSmall ==
    ASSUME SmallInv, NEW s, SchedTyped(s), SchedSmall(s), AnswerSmall(s.task), Scheduling(s),
           revision' \in 1 .. MaxRevision, wanted' \subseteq Queries, rejected' \subseteq Queries
    PROVE  SmallInv'
  <1>1. sched' \in Started(s) /\ shown' = shown
    BY DEF Scheduling
  <1>2. SchedSmall(sched') /\ AnswerSmall(sched'.task)
    BY <1>1, StartedSmall
  <1>3. RowsSmall(shown')
    BY <1>1 DEF SmallInv
  <1> QED
    BY <1>2, <1>3 DEF SmallInv

\* A commit starts every active Query again, and each has room for it.
LEMMA CommitSmall == Inv /\ SmallInv /\ Commit => SmallInv'
  <1> SUFFICES ASSUME Inv, SmallInv, Commit PROVE SmallInv'
    OBVIOUS
  <1> DEFINE n == Refreshed(sched)
             new == {Request(q, sched.generation[q] + 1, NoCursor) : q \in sched.active}
  <1>1. SchedTyped(sched) /\ SchedSmall(sched) /\ AnswerSmall(sched.task)
    BY DEF Inv, StateTyped, SmallInv
  <1>2. SchedInv(n, shown)
    BY RefreshedInv DEF Inv, OpenInOrder, Commit
  <1>3. /\ n.task = sched.task
        /\ n.cursor = [q \in Queries |-> IF q \in sched.active THEN NoCursor ELSE sched.cursor[q]]
        /\ n.generation = [q \in Queries |-> IF q \in sched.active THEN sched.generation[q] + 1
                                             ELSE sched.generation[q]]
        /\ n.pending = {r \in sched.pending : r.query \notin sched.active} \cup new
    BY <1>1, RefreshedShape
  <1>4. \A r \in new : r.cursor = NoCursor
    BY DEF Request
  <1>5. \A q \in sched.active : sched.generation[q] < MaxGeneration
    BY DEF Commit, HasRoom
  <1>6. sched.active \subseteq Queries /\ sched.generation \in [Queries -> Nat]
    BY <1>1 DEF SchedTyped
  <1>7. Scheduling(n) /\ revision' = revision + 1 /\ revision < MaxRevision
        /\ wanted' = wanted /\ rejected' = rejected \ sched.active
    BY DEF Commit
  <1> HIDE DEF n, new
  <1>8. \A r \in n.pending : Small(r)
    BY <1>1, <1>3, <1>4, NoCursorSmall DEF Small, SchedSmall
  <1>9. \A q \in Queries : n.generation[q] <= MaxGeneration + 1 /\ n.cursor[q] \in Spots
    BY <1>1, <1>3, <1>5, <1>6, NoCursorSmall DEF SchedSmall
  <1>10. SchedTyped(n) /\ \A r, o \in n.pending : r.query = o.query => r = o
    BY <1>2 DEF SchedInv, Ordered
  <1>11. SchedSmall(n) /\ AnswerSmall(n.task)
    BY <1>1, <1>3, <1>8, <1>9, <1>10 DEF SchedSmall
  <1>12. revision' \in 1 .. MaxRevision /\ wanted' \subseteq Queries /\ rejected' \subseteq Queries
    BY <1>7, NoCursorSmall DEF SmallInv
  <1> QED
    BY <1>7, <1>10, <1>11, <1>12, SchedulingSmall

\* A Query becomes active with room for its first request.
LEMMA ActivateQuerySmall ==
    ASSUME Inv, SmallInv, NEW q \in Queries, ActivateQuery(q)
    PROVE  SmallInv'
  <1> DEFINE s == [sched EXCEPT !.active = @ \cup {q}]
             n == Scheduled(s, q, NoCursor)
  <1>1. /\ revision' = revision /\ wanted' = wanted \cup {q}
        /\ sched.generation[q] < MaxGeneration
    BY DEF ActivateQuery, HasRoom, Running
  <1>2. CASE q \in sched.active
    <2>1. UNCHANGED <<sched, shown, rejected>>
      BY <1>2 DEF ActivateQuery
    <2> QED
      BY <1>1, <2>1 DEF SmallInv
  <1>3. CASE q \notin sched.active
    <2>1. Scheduling(n) /\ rejected' = rejected \ {q}
      BY <1>3 DEF ActivateQuery
    <2>2. SchedTyped(sched) /\ SchedSmall(sched) /\ AnswerSmall(sched.task)
      BY DEF Inv, StateTyped, SmallInv
    <2>3. /\ SchedRecord(s) /\ s.active = sched.active \cup {q}
          /\ s.pending = sched.pending /\ s.generation = sched.generation
          /\ s.cursor = sched.cursor /\ s.task = sched.task /\ s.loading = sched.loading
      BY <2>2 DEF SchedTyped, SchedRecord, Fields
    <2> HIDE DEF s
    <2>4. SchedTyped(s) /\ SchedSmall(s)
      BY <2>2, <2>3 DEF SchedTyped, SchedSmall
    <2>5. sched.generation[q] \in Nat
      BY <2>2 DEF SchedTyped
    <2>6. SchedSmall(n) /\ n.task = s.task
      BY <1>1, <2>3, <2>4, <2>5, NoCursorSmall, ScheduledSmall
    <2>7. SchedTyped(n)
      <3>1. SchedInv(sched, shown)
        BY DEF ActivateQuery, Inv, OpenInOrder
      <3>2. SchedInv(s, shown)
        BY <2>2, <2>3, <2>4, <3>1, DroppedInv DEF SchedTyped
      <3>3. SchedInv(n, shown)
        BY <2>3, <3>2, ScheduledInv, NoCursorContinues
      <3> QED
        BY <3>3 DEF SchedInv
    <2>8. revision' \in 1 .. MaxRevision /\ wanted' \subseteq Queries /\ rejected' \subseteq Queries
      BY <1>1, <2>1 DEF SmallInv
    <2>9. AnswerSmall(n.task)
      BY <2>2, <2>3, <2>6
    <2> HIDE DEF n
    <2> QED
      BY <2>1, <2>6, <2>7, <2>8, <2>9, SchedulingSmall
  <1> QED
    BY <1>2, <1>3

\* A Query that is no longer wanted had room for one more generation.
LEMMA DeactivateQuerySmall ==
    ASSUME Inv, SmallInv, NEW q \in Queries, DeactivateQuery(q)
    PROVE  SmallInv'
  <1>1. /\ UNCHANGED <<revision, shown, rejected>> /\ wanted' = wanted \ {q}
        /\ sched.generation[q] < MaxGeneration
        /\ sched' = [sched EXCEPT !.active = @ \ {q}, !.pending = Without(@, q),
                                  !.generation[q] = @ + 1, !.loading = @ \ {q}]
    BY DEF DeactivateQuery, Running, HasRoom
  <1>2. SchedTyped(sched) /\ SchedSmall(sched)
    BY DEF Inv, StateTyped, SmallInv
  <1>3. /\ sched'.pending = Without(sched.pending, q)
        /\ sched'.generation = [sched.generation EXCEPT ![q] = sched.generation[q] + 1]
        /\ sched'.cursor = sched.cursor /\ sched'.task = sched.task
    BY <1>1, <1>2 DEF SchedTyped, SchedRecord, Fields
  <1>4. sched'.pending \subseteq sched.pending
    BY <1>3 DEF Without
  <1>5. \A p \in Queries : sched'.generation[p] <= MaxGeneration + 1 /\ sched'.cursor[p] \in Spots
    BY <1>1, <1>2, <1>3, NoCursorSmall DEF SchedTyped, SchedSmall
  <1>6. SchedSmall(sched')
    BY <1>2, <1>3, <1>4, <1>5, DroppedSmall
  <1> QED
    BY <1>1, <1>3, <1>6 DEF SmallInv

\* More results are asked for at a cursor within the bounds, and with room for a request.
LEMMA LoadMoreResultsSmall ==
    ASSUME Inv, SmallInv, NEW q \in Queries, LoadMoreResults(q)
    PROVE  SmallInv'
  <1> DEFINE c == sched.cursor[q]
             n == Scheduled(sched, q, c)
  <1>1. /\ Scheduling(n) /\ revision' = revision /\ wanted' = wanted
        /\ rejected' \subseteq rejected /\ sched.generation[q] < MaxGeneration
    BY DEF LoadMoreResults, Running, HasRoom
  <1>2. SchedTyped(sched) /\ SchedSmall(sched) /\ AnswerSmall(sched.task)
    BY DEF Inv, StateTyped, SmallInv
  <1>3. c \in Spots /\ sched.generation[q] <= MaxGeneration
    BY <1>1, <1>2, NoCursorSmall DEF SchedSmall, SchedTyped
  <1>4. SchedTyped(n) /\ SchedSmall(n) /\ n.task = sched.task
    <2>1. CASE q \in sched.active
      <3>1. SchedInv(sched, shown) /\ Continues(c, shown[q])
        BY DEF LoadMoreResults, Inv, CloseInOrder, OpenInOrder, SchedInv, Positioned
      <3>2. SchedInv(n, shown)
        BY <1>3, <2>1, <3>1, ScheduledInv DEF Spots
      <3>3. SchedSmall(n) /\ n.task = sched.task
        BY <1>1, <1>2, <1>3, <2>1, ScheduledSmall
      <3> QED
        BY <3>2, <3>3 DEF SchedInv
    <2>2. CASE q \notin sched.active
      BY <1>2, <2>2 DEF Scheduled
    <2> QED
      BY <2>1, <2>2
  <1>5. revision' \in 1 .. MaxRevision /\ wanted' \subseteq Queries /\ rejected' \subseteq Queries
    BY <1>1 DEF SmallInv
  <1> HIDE DEF n
  <1> QED
    BY <1>1, <1>2, <1>4, <1>5, SchedulingSmall

\* An answer is of a revision there is; only a request with a cursor can be stale.
LEMMA EvaluateSmall == Inv /\ SmallInv /\ Evaluate => SmallInv'
  <1> SUFFICES ASSUME Inv, SmallInv, Evaluate PROVE SmallInv'
    OBVIOUS
  <1> DEFINE t == sched.task.request
             batch == [revision |-> revision, offset |-> t.cursor.offset]
             Done(a) == [at |-> "evaluated", request |-> t, answer |-> a, batch |-> batch]
  <1>1. /\ sched.task # NoTask /\ t \in Requests
        /\ UNCHANGED <<revision, shown, rejected, wanted>>
        /\ sched'.pending = sched.pending
        /\ sched'.generation = sched.generation /\ sched'.cursor = sched.cursor
    BY EvaluateShape
  <1>2. SchedTyped(sched) /\ SchedSmall(sched) /\ revision \in 1 .. MaxRevision
    BY DEF Inv, StateTyped, SmallInv
  <1>3. PICK answer :
           /\ answer = "stale" => t.cursor # NoCursor
           /\ answer = "batch" => t.cursor.offset + 1 < MaxBatches
           /\ sched' = [sched EXCEPT !.task = Done(answer)]
    BY DEF Evaluate
  <1>4. sched'.task = Done(answer)
    BY <1>2, <1>3 DEF SchedTyped, SchedRecord, Fields
  <1>5. /\ sched'.task.request = t /\ sched'.task.batch = batch
        /\ sched'.task.answer = answer
        /\ batch.revision = revision /\ batch.offset = t.cursor.offset
    BY <1>4
  <1>6. t.cursor \in Spots
    BY <1>1, <1>2 DEF SchedSmall, Small
  <1>7. batch \in Spots
    BY <1>2, <1>6, NoCursorSmall DEF Spots, Places
  <1>8. AnswerSmall(sched'.task)
    <2>1. batch.offset \in Nat
      BY <1>7 DEF Spots, Places
    <2> QED
      BY <1>2, <1>3, <1>5, <1>7, <2>1, NoCursorSmall DEF AnswerSmall
  <1>9. SchedSmall(sched')
    BY <1>1, <1>2, <1>5, DroppedSmall DEF SchedSmall
  <1> QED
    BY <1>1, <1>8, <1>9 DEF SmallInv

\* What is left of the scheduler when its task has ended.
LEMMA SettledSmall ==
    ASSUME Inv, SmallInv, sched.task.at = "evaluated"
    PROVE  LET r == sched.task.request
               idle == [sched EXCEPT !.task = NoTask]
               settled == [idle EXCEPT !.loading = @ \ {r.query}]
           IN  /\ SchedTyped(idle) /\ SchedSmall(idle) /\ AnswerSmall(idle.task)
               /\ SchedTyped(settled) /\ SchedSmall(settled) /\ AnswerSmall(settled.task)
               /\ idle.cursor = sched.cursor
               /\ settled.generation = sched.generation /\ settled.active = sched.active
               /\ settled.task = NoTask
  <1> DEFINE r == sched.task.request
             idle == [sched EXCEPT !.task = NoTask]
             settled == [idle EXCEPT !.loading = @ \ {r.query}]
  <1>1. SchedTyped(sched) /\ SchedSmall(sched)
    BY DEF Inv, StateTyped, SmallInv
  <1>2. SchedInv(idle, shown) /\ SchedInv(settled, shown)
    BY SettledInv
  <1>3. /\ SchedRecord(idle) /\ idle.active = sched.active /\ idle.task = NoTask
        /\ idle.pending = sched.pending
        /\ idle.generation = sched.generation /\ idle.cursor = sched.cursor
    BY <1>1 DEF SchedTyped, SchedRecord, Fields
  <1> HIDE DEF idle
  <1>4. /\ settled.task = NoTask /\ settled.active = sched.active
        /\ settled.pending = sched.pending
        /\ settled.generation = sched.generation /\ settled.cursor = sched.cursor
    BY <1>3 DEF SchedRecord, Fields
  <1> HIDE DEF settled
  <1>5. SchedSmall(idle) /\ SchedSmall(settled)
    BY <1>1, <1>3, <1>4, DroppedSmall DEF SchedSmall
  <1>6. NoTask.at # "evaluated"
    BY DEF NoTask
  <1>7. AnswerSmall(idle.task) /\ AnswerSmall(settled.task)
    BY <1>3, <1>4, <1>6 DEF AnswerSmall
  <1> QED
    BY <1>2, <1>3, <1>4, <1>5, <1>7 DEF SchedInv, idle, settled

\* The rows and the cursor that a batch leaves.
LEMMA BatchAppliedSmall == Inv /\ SmallInv /\ BatchApplied => SmallInv'
  <1> SUFFICES ASSUME Inv, SmallInv, BatchApplied PROVE SmallInv'
    OBVIOUS
  <1> DEFINE r == sched.task.request
             q == r.query
             t == sched.task
             batch == sched.task.batch
             idle == [sched EXCEPT !.task = NoTask]
             n == Applied(idle, t.answer, r, batch)
             c == IF t.answer = "batch"
                  THEN [revision |-> batch.revision, offset |-> batch.offset + 1]
                  ELSE NoCursor
  <1>1. /\ t.at = "evaluated" /\ sched' \in Started(n)
        /\ shown' = [shown EXCEPT ![q] = Rows(@, r, batch)]
        /\ UNCHANGED <<revision, rejected, wanted>>
    BY DEF BatchApplied
  <1>2. /\ SchedTyped(idle) /\ SchedSmall(idle) /\ AnswerSmall(idle.task)
        /\ idle.cursor = sched.cursor
    BY <1>1, SettledSmall
  <1>3. r \in Requests /\ q \in Queries /\ batch \in Places /\ SchedInv(idle, shown)
    BY <1>1, DoneTask, SettledInv
  <1>4. /\ batch \in Spots /\ 1 <= batch.revision
        /\ t.answer = "batch" => batch.offset < MaxBatches
    BY <1>1 DEF SmallInv, AnswerSmall
  <1> HIDE DEF idle
  <1>5. c \in Spots
    BY <1>4, NoCursorSmall DEF Spots, Places
  <1>6. /\ SchedRecord(n) /\ n.active = idle.active /\ n.loading = idle.loading \ {q}
        /\ n.pending = idle.pending /\ n.task = idle.task
        /\ n.generation = idle.generation /\ n.cursor = [idle.cursor EXCEPT ![q] = c]
    BY <1>2 DEF Applied, SchedTyped, SchedRecord, Fields
  <1> HIDE DEF n, c
  <1>7. SchedTyped(n) /\ SchedSmall(n)
    <2>1. n.cursor \in [Queries -> Places]
      BY <1>2, <1>5, <1>6 DEF SchedTyped, Spots
    <2>2. \A p \in Queries : n.cursor[p] \in Spots
      BY <1>2, <1>5, <1>6 DEF SchedTyped, SchedSmall
    <2>3. SchedTyped(n)
      BY <1>2, <1>6, <2>1 DEF SchedTyped
    <2> QED
      BY <1>2, <1>6, <2>2, <2>3 DEF SchedSmall
  <1>8. SchedSmall(sched') /\ AnswerSmall(sched'.task)
    BY <1>1, <1>2, <1>6, <1>7, StartedSmall
  <1>9. shown \in [Queries -> Seq(Places)] /\ RowsSmall(shown)
    BY DEF Inv, StateTyped, SmallInv
  <1> HIDE DEF batch, r
  <1>10. RowsSmall(shown')
    <2>1. ASSUME NEW p \in Queries, NEW i \in DOMAIN shown'[p]
          PROVE  shown'[p][i] \in Spots /\ 1 <= shown'[p][i].revision
      <3>1. CASE p # q
        BY <1>1, <1>9, <2>1, <3>1 DEF RowsSmall
      <3>2. CASE p = q
        <4>1. shown'[q] = Rows(shown[q], r, batch) /\ shown[q] \in Seq(Places)
          BY <1>1, <1>3, <1>9
        <4>2. shown'[q] = <<batch>> \/ shown'[q] = Append(shown[q], batch)
          BY <4>1 DEF Rows
        <4>3. CASE shown'[q] = <<batch>>
          BY <1>4, <2>1, <3>2, <4>3
        <4>4. CASE shown'[q] = Append(shown[q], batch)
          <5>1. shown'[q][i] = batch \/ (i \in DOMAIN shown[q] /\ shown'[q][i] = shown[q][i])
            BY <1>3, <2>1, <3>2, <4>1, <4>4
          <5> QED
            BY <1>3, <1>4, <1>9, <3>2, <5>1 DEF RowsSmall
        <4> QED
          BY <4>2, <4>3, <4>4
      <3> QED
        BY <3>1, <3>2
    <2> QED
      BY <2>1 DEF RowsSmall
  <1> QED
    BY <1>1, <1>8, <1>10 DEF SmallInv

\* A stale answer is answered by a request without a cursor, the last one that may pass
\* the bound.
LEMMA FinishTaskSmall == Inv /\ SmallInv /\ FinishTask => SmallInv'
  <1> SUFFICES ASSUME Inv, SmallInv, FinishTask PROVE SmallInv'
    OBVIOUS
  <1> DEFINE t == sched.task
             r == t.request
             idle == [sched EXCEPT !.task = NoTask]
             settled == [idle EXCEPT !.loading = @ \ {r.query}]
             again == Scheduled(settled, r.query, NoCursor)
  <1>1. /\ sched.task.at = "evaluated" /\ UNCHANGED <<revision, wanted>>
        /\ \/ ~IsCurrent(sched, r) /\ Scheduling(idle) /\ UNCHANGED rejected
           \/ BatchApplied
           \/ /\ IsCurrent(sched, r) /\ t.answer = "stale" /\ UNCHANGED rejected
              /\ Scheduling(again)
           \/ /\ IsCurrent(sched, r) /\ Scheduling(settled)
              /\ rejected' = rejected \cup {r.query}
    <2>1. UNCHANGED <<open, revision, wanted, closeRequested>>
      BY DEF FinishTask, Running, Scheduling
    <2> QED
      BY <2>1, Zenon DEF FinishTask, BatchApplied
  <1>2. /\ SchedTyped(idle) /\ SchedSmall(idle) /\ AnswerSmall(idle.task)
        /\ SchedTyped(settled) /\ SchedSmall(settled) /\ AnswerSmall(settled.task)
        /\ settled.generation = sched.generation /\ settled.active = sched.active
    BY <1>1, SettledSmall
  <1>3. /\ r \in Requests /\ r.query \in Queries /\ sched.task # NoTask
    BY <1>1, DoneTask
  <1>4. /\ IsCurrent(sched, r) => SchedInv(again, shown)
    BY <1>1, SettledInv
  <1>5. revision' \in 1 .. MaxRevision /\ wanted' \subseteq Queries
    BY <1>1 DEF SmallInv
  <1> HIDE DEF idle, settled
  <1>6. CASE Scheduling(idle) /\ UNCHANGED rejected
    <2>1. rejected' \subseteq Queries
      BY <1>6 DEF SmallInv
    <2> QED
      BY <1>2, <1>5, <1>6, <2>1, SchedulingSmall
  <1>7. CASE Scheduling(settled) /\ rejected' = rejected \cup {r.query}
    <2>1. rejected' \subseteq Queries
      BY <1>3, <1>7 DEF SmallInv
    <2> QED
      BY <1>2, <1>5, <1>7, <2>1, SchedulingSmall
  <1>8. CASE /\ IsCurrent(sched, r) /\ t.answer = "stale" /\ UNCHANGED rejected
             /\ Scheduling(again)
    <2>1. r.query \in settled.active /\ settled.generation[r.query] = r.generation
      BY <1>2, <1>8 DEF IsCurrent
    <2>2. r.cursor # NoCursor
      BY <1>1, <1>8 DEF SmallInv, AnswerSmall
    <2>3. Small(r)
      BY <1>3 DEF SmallInv, SchedSmall
    <2>4. r.generation <= MaxGeneration
      BY <2>2, <2>3 DEF Small
    <2>5. SchedSmall(again) /\ again.task = settled.task
      BY <1>2, <2>1, <2>4, NoCursorSmall, ScheduledSmall
    <2>6. SchedTyped(again)
      BY <1>4, <1>8 DEF SchedInv
    <2>7. rejected' \subseteq Queries
      BY <1>8 DEF SmallInv
    <2> HIDE DEF again
    <2>8. AnswerSmall(again.task)
      BY <1>2, <2>5
    <2> QED
      BY <1>5, <1>8, <2>5, <2>6, <2>7, <2>8, SchedulingSmall
  <1> QED
    BY <1>1, <1>6, <1>7, <1>8, BatchAppliedSmall

\* A close leaves the generations at zero, or everything as it was.
LEMMA FinishCloseSmall ==
    ASSUME SmallInv, NEW s, SchedTyped(s), SchedSmall(s), AnswerSmall(s.task), NEW quit,
           NEW askedFor, FinishClose(s, quit, askedFor)
    PROVE  SmallInv'
  <1>1. UNCHANGED <<revision, wanted>>
    BY DEF FinishClose
  <1>2. CASE sched' = s /\ UNCHANGED <<shown, rejected>>
    BY <1>1, <1>2 DEF SmallInv
  <1>3. CASE Closed(s, quit)
    <2>1. /\ shown' = NothingShown /\ rejected' = {}
          /\ sched' = [s EXCEPT !.cursor = NothingScheduled.cursor,
                                !.generation = NothingScheduled.generation, !.loading = {}]
      BY <1>3 DEF Closed
    <2>2. /\ NothingScheduled.cursor = [q \in Queries |-> NoCursor]
          /\ NothingScheduled.generation = [q \in Queries |-> 0]
      BY DEF NothingScheduled
    <2> HIDE DEF NothingScheduled
    <2>3. /\ sched'.pending = s.pending /\ sched'.task = s.task
          /\ sched'.cursor = NothingScheduled.cursor
          /\ sched'.generation = NothingScheduled.generation
      BY <2>1 DEF SchedTyped, SchedRecord, Fields
    <2>4. \A q \in Queries : sched'.generation[q] <= MaxGeneration + 1 /\ sched'.cursor[q] \in Spots
      BY <2>2, <2>3, NoCursorSmall
    <2>5. SchedSmall(sched')
      BY <2>3, <2>4, DroppedSmall
    <2>6. RowsSmall(shown')
      BY <2>1 DEF RowsSmall, NothingShown
    <2> QED
      BY <1>1, <2>1, <2>3, <2>5, <2>6 DEF SmallInv
  <1> QED
    BY <1>2, <1>3 DEF FinishClose

\* The close that waited for the task.
LEMMA FinishTaskAndCloseSmall == Inv /\ SmallInv /\ FinishTaskAndClose => SmallInv'
  <1> SUFFICES ASSUME Inv, SmallInv, FinishTaskAndClose PROVE SmallInv'
    OBVIOUS
  <1> DEFINE idle == [sched EXCEPT !.task = NoTask]
  <1>1. SchedTyped(idle) /\ SchedSmall(idle) /\ AnswerSmall(idle.task)
    BY SettledSmall DEF FinishTaskAndClose
  <1>2. FinishClose(idle, quitRequested, asked)
    BY DEF FinishTaskAndClose
  <1> HIDE DEF idle
  <1> QED
    BY <1>1, <1>2, FinishCloseSmall

\* A close had room to raise every generation.
LEMMA CloseNotebookSmall ==
    ASSUME Inv, SmallInv, NEW quit \in BOOLEAN, CloseNotebook(quit)
    PROVE  SmallInv'
  <1> DEFINE n == Cleared(sched)
  <1>1. SchedTyped(sched) /\ SchedSmall(sched) /\ AnswerSmall(sched.task)
    BY DEF Inv, StateTyped, SmallInv
  <1>2. SchedInv(sched, shown)
    BY DEF CloseNotebook, Inv, OpenInOrder
  <1>3. SchedInv(n, shown) /\ n.task = sched.task /\ n.cursor = sched.cursor
    BY <1>2, ClearedInv
  <1>4. /\ n.pending = {}
        /\ n.generation = [q \in Queries |-> IF sched.generation[q] = 0 THEN 0
                                             ELSE sched.generation[q] + 1]
    BY <1>1 DEF Cleared, SchedTyped, SchedRecord, Fields
  <1>5. \A q \in Queries : sched.generation[q] \in Nat /\ sched.generation[q] < MaxGeneration
    BY <1>1 DEF CloseNotebook, HasRoom, SchedTyped
  <1>6. \/ sched' = n /\ UNCHANGED <<revision, shown, rejected, wanted>>
        \/ FinishClose(n, quitRequested \/ quit, asked \/ quit)
    BY DEF CloseNotebook, Cleared
  <1> HIDE DEF n
  <1>7. \A q \in Queries : n.generation[q] <= MaxGeneration + 1 /\ n.cursor[q] \in Spots
    BY <1>1, <1>3, <1>4, <1>5, NoCursorSmall DEF SchedSmall
  <1>8. SchedTyped(n) /\ SchedSmall(n) /\ AnswerSmall(n.task)
    BY <1>1, <1>3, <1>4, <1>7, DroppedSmall DEF SchedInv
  <1>9. CASE sched' = n /\ UNCHANGED <<revision, shown, rejected, wanted>>
    BY <1>8, <1>9 DEF SmallInv
  <1> QED
    BY <1>6, <1>8, <1>9, FinishCloseSmall

\* Nothing is scheduled: within all bounds.
LEMMA NothingSmall == SchedSmall(NothingScheduled) /\ AnswerSmall(NothingScheduled.task)
  <1> DEFINE s == NothingScheduled
  <1>1. /\ s.pending = {} /\ s.task = NoTask
        /\ s.generation = [q \in Queries |-> 0] /\ s.cursor = [q \in Queries |-> NoCursor]
    BY DEF NothingScheduled
  <1>2. s.task.at # "evaluated"
    BY <1>1 DEF NoTask
  <1> HIDE DEF s
  <1>3. \A q \in Queries : s.generation[q] <= MaxGeneration + 1 /\ s.cursor[q] \in Spots
    BY <1>1, NoCursorSmall
  <1>4. SchedSmall(s)
    BY <1>1, <1>3 DEF SchedSmall
  <1>5. AnswerSmall(s.task)
    BY <1>2 DEF AnswerSmall
  <1> QED
    BY <1>4, <1>5 DEF s

\* Every step stays within the bounds.
LEMMA NextSmall == Inv /\ SmallInv /\ [Next]_vars => SmallInv'
  <1> SUFFICES ASSUME Inv, SmallInv, [Next]_vars PROVE SmallInv'
    OBVIOUS
  <1>1. CASE OpenNotebook
    <2>1. sched' = NothingScheduled
      BY <1>1 DEF Inv, NoTaskWithoutSession, OpenNotebook, NothingScheduled
    <2>2. UNCHANGED <<revision, shown, rejected>> /\ wanted' = {}
      BY <1>1 DEF OpenNotebook
    <2> QED
      BY <2>1, <2>2, NothingSmall DEF SmallInv
  <1>2. CASE QuitWithoutNotebook \/ UNCHANGED vars
    <2>1. UNCHANGED <<revision, sched, shown, rejected, wanted>>
      BY <1>2 DEF QuitWithoutNotebook, vars
    <2> QED
      BY <2>1 DEF SmallInv
  <1>3. ASSUME NEW q \in Queries, ActivateQuery(q) \/ DeactivateQuery(q) \/ LoadMoreResults(q)
        PROVE  SmallInv'
    BY <1>3, ActivateQuerySmall, DeactivateQuerySmall, LoadMoreResultsSmall
  <1>4. ASSUME NEW quit \in BOOLEAN, CloseNotebook(quit)
        PROVE  SmallInv'
    BY <1>4, CloseNotebookSmall
  <1> QED
    BY <1>1, <1>2, <1>3, <1>4, CommitSmall, EvaluateSmall, FinishTaskSmall,
       FinishTaskAndCloseSmall DEF Next

\* At most one request of a Query waits, cursors and rows name revisions and batches there
\* are, and a generation passes its bound only for a request made of a stale answer: the
\* maps of the scheduler, whether closes succeed or fail.
THEOREM TypeOKHolds == Spec => []TypeOK
  <1>1. Init => SmallInv
    <2> SUFFICES ASSUME Init PROVE SmallInv
      OBVIOUS
    <2>1. RowsSmall(shown)
      BY DEF Init, NothingShown, RowsSmall
    <2> QED
      BY <2>1, NothingSmall, BoundsAssumption DEF Init, SmallInv
  <1>2. Inv /\ SmallInv => TypeOK
    <2> SUFFICES ASSUME Inv, SmallInv PROVE TypeOK
      OBVIOUS
    <2>1. SchedTyped(sched) /\ shown \in [Queries -> Seq(Places)]
      BY DEF Inv, StateTyped
    <2>2. sched.generation \in [Queries -> 0 .. MaxGeneration + 1]
      BY <2>1, NoCursorSmall DEF SchedTyped, SmallInv, SchedSmall
    <2>3. \A r, o \in sched.pending : r.query \in Queries /\ (r.query = o.query => r = o)
      BY <2>1 DEF SchedTyped, Requests, SmallInv, SchedSmall
    <2> DEFINE Batches == [revision : 1 .. MaxRevision, offset : 0 .. MaxBatches]
    <2>4. ASSUME NEW q \in Queries
          PROVE  shown[q] \in Seq(Batches)
      <3>1. shown[q] \in Seq(Places)
        BY <2>1
      <3>2. ASSUME NEW i \in 1 .. Len(shown[q])
            PROVE  shown[q][i] \in Batches
        <4>1. shown[q][i] \in Spots /\ 1 <= shown[q][i].revision
          BY <3>1, <3>2 DEF SmallInv, RowsSmall
        <4> QED
          BY <4>1, NoCursorSmall DEF Spots, Places
      <3> HIDE DEF Batches
      <3> QED
        BY <3>1, <3>2
    <2>5. shown \in [Queries -> Seq(Batches)]
      BY <2>1, <2>4
    <2> QED
      BY <2>1, <2>2, <2>3, <2>5 DEF TypeOK, SchedTyped, SmallInv
  <1>3. Inv /\ SmallInv /\ [Next]_vars => SmallInv'
    BY NextSmall
  <1> QED
    BY <1>1, <1>2, <1>3, SchedulerOrder, PTL DEF Spec
=============================================================================
