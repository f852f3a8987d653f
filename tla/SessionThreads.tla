--------------------------- MODULE SessionThreads ---------------------------
(***************************************************************************)
(* Several threads calling one NotebookSession.  Most calls hold the       *)
(* session mutex from start to end and are steps of module Notebook.  Two  *)
(* kinds are made of several critical sections: the Entry commands look up *)
(* the kind of the Entry's Page first and run the variant for that kind    *)
(* afterwards, and insertBlockReference reads the Entry's text, composes   *)
(* the new one and then calls updateEntry.  The callbacks of a committed   *)
(* command run when the mutex has been released.                           *)
(***************************************************************************)
EXTENDS Notebook

CONSTANTS Threads,          \* the callers
          Reference         \* the token insertBlockReference inserts

VARIABLES calls,            \* where each thread is in its call
          observed          \* the revision the subscriber has last read

allVars == <<store, history, clock, issued, session, calls, observed>>

\* A call that has found the kind of its Page keeps it; a reference that has been
\* composed keeps the text to be written, any other command brings its own.
Idle == [at |-> "idle"]
Notifying == [at |-> "notifying"]
Found(entries, kind) == [at |-> "found", entries |-> entries, kind |-> kind]
Composed(entry, text) == [at |-> "composed", entries |-> {entry}, text |-> text]
Updating(entry, kind, text) ==
    [at |-> "updating", entries |-> {entry}, kind |-> kind, text |-> text]

Goes(t, call) == calls' = [calls EXCEPT ![t] = call]
Stays == UNCHANGED vars

SessionInit == Init /\ calls = [t \in Threads |-> Idle] /\ observed = store.revision

\* entryPageKind, for one Entry or for the first of a selection.
LookUp(t, ids) ==
    /\ calls[t] = Idle /\ session.open
    /\ \E e \in ids : e \in EntryIds(store) /\ Goes(t, Found(ids, PageKind(e)))
    /\ Stays /\ UNCHANGED observed

\* The first critical section of insertBlockReference.
Compose(t, e) ==
    /\ calls[t] = Idle /\ session.open /\ e \in EntryIds(store)
    /\ Len(store.blocks[e].text) < MaxText
    /\ \E offset \in 0 .. Len(store.blocks[e].text) :
          Goes(t, Composed(e, InsertAt(store.blocks[e].text, offset + 1, Reference)))
    /\ Stays /\ UNCHANGED observed

LookUpComposed(t) ==
    /\ calls[t].at = "composed" /\ session.open
    /\ \E e \in calls[t].entries :
          e \in EntryIds(store) /\ Goes(t, Updating(e, PageKind(e), calls[t].text))
    /\ Stays /\ UNCHANGED observed

\* Faulty: a committed command returns without its callbacks.
RunCommandSilently(t, now) ==
    /\ calls[t].at = "found" /\ session.open
    /\ \E e \in calls[t].entries :
          e \in EntryIds(store) /\ EntryCommand(calls[t].kind, e, now)
    /\ Goes(t, Idle) /\ UNCHANGED observed

\* The variant runs on whatever the Notebook has become; the one for Named Pages
\* refuses an Entry that has left them.
Fits(kind, e) == e \in EntryIds(store) /\ (kind = "named" => PageKind(e) = "named")

RunCommand(t, now) ==
    /\ calls[t].at = "found" /\ session.open
    /\ \/ \E e \in calls[t].entries :
             /\ calls[t].entries = {e} /\ Fits(calls[t].kind, e)
             /\ EntryCommand(calls[t].kind, e, now)
       \/ /\ \A e \in calls[t].entries : Fits(calls[t].kind, e)
          /\ DeleteSubtrees(calls[t].kind, calls[t].entries, now)
    /\ Goes(t, Notifying) /\ UNCHANGED observed

RunUpdate(t, now) ==
    /\ calls[t].at = "updating" /\ session.open
    /\ \E e \in calls[t].entries :
          Fits(calls[t].kind, e) /\ UpdateEntry(calls[t].kind, e, calls[t].text, now)
    /\ Goes(t, Notifying) /\ UNCHANGED observed

\* The calls that are one critical section.
RunWhole(t, now) ==
    /\ calls[t] = Idle /\ session.open
    /\ PageCommand(now) \/ MoveCommand(now)
    /\ Goes(t, Notifying) /\ UNCHANGED observed

UndoOrRedo(t) ==
    /\ calls[t] = Idle
    /\ \E track \in HistoryTracks : UndoEdit(track) \/ RedoEdit(track)
    /\ Goes(t, Notifying) /\ UNCHANGED observed

\* A refused or failed command returns an error and changes nothing.
Fail(t) ==
    /\ calls[t].at \in {"found", "composed", "updating"}
    /\ Goes(t, Idle) /\ Stays /\ UNCHANGED observed

\* notifyCallbacks: the subscriber reads the Notebook again.
Notify(t) ==
    /\ calls[t] = Notifying
    /\ observed' = store.revision
    /\ Goes(t, Idle) /\ Stays

OpenOrClose(t) ==
    /\ calls[t] = Idle
    /\ Close \/ Open
    /\ UNCHANGED <<calls, observed>>

SessionNext ==
    \E t \in Threads :
        \/ \E p \in PageIds(store) :
              \E ids \in (SUBSET Ids(LoadOutline(store, p).entries)) \ {{}} : LookUp(t, ids)
        \/ \E e \in EntryIds(store) : Compose(t, e)
        \/ LookUpComposed(t)
        \/ \E tick \in Ticks :
              /\ clock + tick <= MaxClock
              /\ \/ RunCommand(t, clock + tick)
                 \/ RunUpdate(t, clock + tick)
                 \/ RunWhole(t, clock + tick)
        \/ UndoOrRedo(t) \/ Fail(t) \/ Notify(t) \/ OpenOrClose(t)

\* A committed command returns only when it has run its callbacks.
SessionSpec ==
    SessionInit /\ [][SessionNext]_allVars /\ \A t \in Threads : WF_allVars(Notify(t))
-----------------------------------------------------------------------------
\* ADR-0023 and the indexes hold whichever variant runs on whatever page: the
\* containment is rewritten from the outline read in the same transaction.
StaleVariantsKeepContainment == PageRooted(store) /\ PagesIndexed(store)

\* Callbacks run outside the mutex, in any order among threads, and still no
\* commit escapes the subscriber: it reads that revision or a later one.
EveryCommitObserved == \A r \in 1 .. MaxRevision : store.revision = r ~> observed >= r

\* ADR-0022: a command that commits clears the redo branch and is the next one to
\* be undone.  The variant chosen from a stale Page kind commits without doing so.
CommandsAreRecorded ==
    [][ \A t \in Threads :
          calls[t].at \in {"found", "updating"} /\ store' # store =>
              ~CanRedo(history') /\ history'.next = history.next + 1 ]_allVars

\* ADR-0001: the session is thread-safe.  Inserting a reference should add the
\* reference to the text the Entry has and change nothing else of it.
ReferencesOnlyAdd ==
    [][ \A t \in Threads :
          calls[t].at = "updating" /\ calls'[t] = Notifying =>
              \A e \in calls[t].entries :
                  \E offset \in 0 .. Len(store.blocks[e].text) :
                      store'.blocks[e].text =
                          InsertAt(store.blocks[e].text, offset + 1, Reference) ]_allVars
=============================================================================
