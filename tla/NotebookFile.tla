---------------------------- MODULE NotebookFile ----------------------------
(***************************************************************************)
(* Creating, opening and closing one Notebook file by several sessions, in *)
(* processes of their own, each call a sequence of file operations that    *)
(* interleave with those of the others and that may fail, crash with their *)
(* process or be cut off by a power failure.                               *)
(*                                                                         *)
(* create initializes a draft under a temporary name, links it to the path *)
(* (never over an existing file), flushes the directory and opens it; all  *)
(* of that under the lock on a file beside the Notebook that open takes    *)
(* too.  Files are numbered, so that a name can be given to another file.  *)
(***************************************************************************)
EXTENDS Naturals, FiniteSets

CONSTANTS Sessions,
          NoOne,            \* holds the lock when no session does
          MaxFiles          \* bound: files ever made

ASSUME SessionsAssumption == NoOne \notin Sessions
ASSUME MaxFilesAssumption == MaxFiles \in Nat \ {0}

Files == 1 .. MaxFiles
NoFile == 0

VARIABLES content,          \* what each file holds
          path,             \* the file at the Notebook's path
          temps,            \* files with a temporary name
          flushed,          \* whether the path's directory entry is on disk
          made,             \* files made so far
          lock,             \* the session holding <path>.open-lock
          at,               \* how far each session's call has come
          env,              \* the file each session has open as an environment
          draft,            \* the file the call in progress creates
          promised          \* files whose creation has been acknowledged

disk == <<content, path, temps, flushed, made>>
vars == <<content, path, temps, flushed, made, lock, at, env, draft, promised>>

\* A draft is a Miare database without the Notebook's schema; blank is the same,
\* made in place of an empty file; a bare Notebook lacks current derived indexes.
Contents == {"none", "foreign", "empty", "blank", "draft", "bare", "whole"}
FoundContents == {"foreign", "empty", "bare", "whole"}

Points == {"idle", "createLock", "openLock", "recheck", "initialize", "schema", "publish",
           "unlink", "sync", "openEnvironment", "inspect", "backfill", "open", "discard",
           "release"}
LockedPoints == Points \ {"idle", "createLock", "openLock"}

Init ==
    /\ \E found \in FoundContents \cup {"none"} :
          /\ content = [f \in Files |-> IF f = 1 THEN found ELSE "none"]
          /\ path = IF found = "none" THEN NoFile ELSE 1
    /\ temps = {} /\ flushed = TRUE /\ made = 1
    /\ lock = NoOne
    /\ at = [s \in Sessions |-> "idle"]
    /\ env = [s \in Sessions |-> NoFile]
    /\ draft = [s \in Sessions |-> NoFile]
    /\ promised = {}

GoTo(s, from, to) == at[s] = from /\ at' = [at EXCEPT ![s] = to]

-----------------------------------------------------------------------------
\* A session without a Notebook looks at the path and decides to go on.
Create(s) ==
    /\ path = NoFile
    /\ GoTo(s, "idle", "createLock")
    /\ UNCHANGED <<disk, lock, env, draft, promised>>

Open(s) ==
    /\ path # NoFile
    /\ GoTo(s, "idle", "openLock")
    /\ UNCHANGED <<disk, lock, env, draft, promised>>

\* Faulty: the lock is taken whoever holds it.
LockTaken == TRUE

LockFree == lock = NoOne

AcquireLock(s) ==
    /\ LockFree
    /\ lock' = s
    /\ \/ GoTo(s, "createLock", "recheck")
       \/ GoTo(s, "openLock", "openEnvironment")
    /\ UNCHANGED <<disk, env, draft, promised>>

\* Faulty: the lock is waited for.
WaitForLock(s) == FALSE /\ UNCHANGED vars

\* The lock is held, or its file cannot be opened: the call fails.
RefuseLock(s) ==
    /\ at[s] \in {"createLock", "openLock"}
    /\ at' = [at EXCEPT ![s] = "idle"]
    /\ UNCHANGED <<disk, lock, env, draft, promised>>

Recheck(s) ==
    /\ GoTo(s, "recheck", IF path = NoFile THEN "initialize" ELSE "release")
    /\ UNCHANGED <<disk, lock, env, draft, promised>>

\* The draft under its temporary name; the environment may fail to open after or
\* before it has made the file.
Initialize(s) ==
    /\ made < MaxFiles
    /\ made' = made + 1
    /\ content' = [content EXCEPT ![made + 1] = "draft"]
    /\ temps' = temps \cup {made + 1}
    /\ draft' = [draft EXCEPT ![s] = made + 1]
    /\ \/ GoTo(s, "initialize", "schema") /\ env' = [env EXCEPT ![s] = made + 1]
       \/ GoTo(s, "initialize", "discard") /\ UNCHANGED env
    /\ UNCHANGED <<path, flushed, lock, promised>>

FailToInitialize(s) ==
    /\ GoTo(s, "initialize", "release")
    /\ UNCHANGED <<disk, lock, env, draft, promised>>

\* Faulty: the error of createEnvironment is not looked at.
AfterSchemaRegardless(ok) == "publish"

AfterSchema(ok) == IF ok THEN "publish" ELSE "discard"

\* The schema and the manifest are one transaction; a commit that reports an
\* error may have happened nevertheless.
CommitSchema(s) ==
    /\ \E ok \in BOOLEAN :
          /\ GoTo(s, "schema", AfterSchema(ok))
          /\ \/ content' = [content EXCEPT ![draft[s]] = "whole"]
             \/ ~ok /\ UNCHANGED content
    /\ env' = [env EXCEPT ![s] = NoFile]
    /\ UNCHANGED <<path, temps, flushed, made, lock, draft, promised>>

\* Faulty: the temporary file is renamed over whatever is there.
NameTaken == TRUE

NameFree == path = NoFile

Publish(s) ==
    /\ NameFree
    /\ GoTo(s, "publish", "unlink")
    /\ path' = draft[s] /\ flushed' = FALSE
    /\ UNCHANGED <<content, temps, made, lock, env, draft, promised>>

FailToPublish(s) ==
    /\ GoTo(s, "publish", "discard")
    /\ UNCHANGED <<disk, lock, env, draft, promised>>

\* The temporary name is removed, if it can be.
Unlink(s) ==
    /\ GoTo(s, "unlink", "sync") \/ GoTo(s, "discard", "release")
    /\ temps' \in {temps, temps \ {draft[s]}}
    /\ UNCHANGED <<content, path, flushed, made, lock, env, draft, promised>>

\* Faulty: a directory that was not flushed is taken for one that was.
AfterSyncRegardless(ok) == "openEnvironment"

AfterSync(ok) == IF ok THEN "openEnvironment" ELSE "release"

Sync(s) ==
    /\ \E ok \in BOOLEAN :
          /\ GoTo(s, "sync", AfterSync(ok))
          /\ flushed' = (flushed \/ ok)
    /\ UNCHANGED <<content, path, temps, made, lock, env, draft, promised>>

-----------------------------------------------------------------------------
\* store_env_open removes an empty file and makes a database in its place.
RemoveEmpty(s) ==
    /\ at[s] = "openEnvironment" /\ path # NoFile
    /\ content[path] = "empty"
    /\ path' = NoFile
    /\ UNCHANGED <<content, temps, flushed, made, lock, at, env, draft, promised>>

MakeBlank(s) ==
    /\ path = NoFile /\ made < MaxFiles
    /\ GoTo(s, "openEnvironment", "inspect")
    /\ made' = made + 1 /\ path' = made + 1 /\ flushed' = FALSE
    /\ content' = [content EXCEPT ![made + 1] = "blank"]
    /\ env' = [env EXCEPT ![s] = made + 1]
    /\ UNCHANGED <<temps, lock, draft, promised>>

\* A database is open in one environment at most.
OpenEnvironment(s) ==
    /\ path # NoFile
    /\ content[path] \notin {"empty", "foreign"}
    /\ \A t \in Sessions : env[t] # path
    /\ GoTo(s, "openEnvironment", "inspect")
    /\ env' = [env EXCEPT ![s] = path]
    /\ UNCHANGED <<disk, lock, draft, promised>>

\* Faulty: the environment is closed, and the lock kept.
GiveUpLocked(s, from) ==
    /\ GoTo(s, from, "idle")
    /\ env' = [env EXCEPT ![s] = NoFile]
    /\ UNCHANGED <<lock, draft, promised>>

\* A failing open closes the environment and goes on to closeUnlocked.
GiveUp(s, from) ==
    /\ GoTo(s, from, "release")
    /\ env' = [env EXCEPT ![s] = NoFile]
    /\ UNCHANGED <<lock, draft, promised>>

FailToOpen(s) ==
    /\ \E from \in {"openEnvironment", "inspect"} : GiveUp(s, from)
    /\ UNCHANGED disk

\* The call returns with an open session; create thereby acknowledges the file.
Opened(s, from) ==
    /\ GoTo(s, from, "open")
    /\ promised' = promised \cup ({draft[s]} \ {NoFile})
    /\ draft' = [draft EXCEPT ![s] = NoFile]
    /\ UNCHANGED <<lock, env>>

\* The manifest is read and the derived indexes are looked for.
Inspect(s) ==
    /\ at[s] = "inspect"
    /\ \/ content[env[s]] = "whole" /\ Opened(s, "inspect")
       \/ /\ content[env[s]] = "bare"
          /\ GoTo(s, "inspect", "backfill")
          /\ UNCHANGED <<lock, env, draft, promised>>
    /\ UNCHANGED disk

Backfill(s) ==
    /\ Opened(s, "backfill")
    /\ content' = [content EXCEPT ![env[s]] = "whole"]
    /\ UNCHANGED <<path, temps, flushed, made>>

\* The transaction is aborted, or commits and reports an error.
FailToBackfill(s) ==
    /\ GiveUp(s, "backfill")
    /\ content' \in {content, [content EXCEPT ![env[s]] = "whole"]}
    /\ UNCHANGED <<path, temps, flushed, made>>

\* closeUnlocked: a failed close changes nothing, a successful one frees the
\* environment first and the lock after it.
Close(s) ==
    /\ GiveUp(s, "open")
    /\ UNCHANGED disk

Release(s) ==
    /\ GoTo(s, "release", "idle")
    /\ lock' = NoOne
    /\ draft' = [draft EXCEPT ![s] = NoFile]
    /\ UNCHANGED <<disk, env, promised>>

-----------------------------------------------------------------------------
\* Another program puts a file at the path.
PlaceFile(kind) ==
    /\ path = NoFile /\ made < MaxFiles
    /\ made' = made + 1 /\ path' = made + 1 /\ flushed' = TRUE
    /\ content' = [content EXCEPT ![made + 1] = kind]
    /\ UNCHANGED <<temps, lock, at, env, draft, promised>>

\* A process ends in the middle of a call or with its Notebook open; the locks it
\* held on either file go with it.
Crash(s) ==
    /\ at[s] # "idle"
    /\ at' = [at EXCEPT ![s] = "idle"]
    /\ env' = [env EXCEPT ![s] = NoFile]
    /\ draft' = [draft EXCEPT ![s] = NoFile]
    /\ lock' = IF lock = s THEN NoOne ELSE lock
    /\ UNCHANGED <<disk, promised>>

\* All processes end, and a directory entry that was not flushed may be gone.
PowerLoss ==
    /\ at' = [s \in Sessions |-> "idle"]
    /\ env' = [s \in Sessions |-> NoFile]
    /\ draft' = [s \in Sessions |-> NoFile]
    /\ lock' = NoOne
    /\ path' \in {path} \cup (IF flushed THEN {} ELSE {NoFile})
    /\ flushed' = TRUE
    /\ UNCHANGED <<content, temps, made, promised>>

\* The steps of a call, from its first look at the path to its return.
Proceed(s) ==
    \/ AcquireLock(s) \/ RefuseLock(s) \/ Recheck(s)
    \/ Initialize(s) \/ FailToInitialize(s) \/ CommitSchema(s)
    \/ Publish(s) \/ FailToPublish(s) \/ Unlink(s) \/ Sync(s)
    \/ RemoveEmpty(s) \/ MakeBlank(s) \/ OpenEnvironment(s) \/ FailToOpen(s)
    \/ Inspect(s) \/ Backfill(s) \/ FailToBackfill(s) \/ Release(s)

Next ==
    \/ \E s \in Sessions : Create(s) \/ Open(s) \/ Proceed(s) \/ Close(s) \/ Crash(s)
    \/ \E kind \in FoundContents : PlaceFile(kind)
    \/ PowerLoss

\* A call in progress goes on by itself; nobody has to call, to close or to fail.
Fairness == \A s \in Sessions : WF_vars(Proceed(s))
Spec == Init /\ [][Next]_vars /\ Fairness
-----------------------------------------------------------------------------
TypeOK ==
    /\ content \in [Files -> Contents]
    /\ path \in Files \cup {NoFile}
    /\ temps \subseteq Files
    /\ flushed \in BOOLEAN
    /\ made \in Files
    /\ lock \in Sessions \cup {NoOne}
    /\ at \in [Sessions -> Points]
    /\ env \in [Sessions -> Files \cup {NoFile}]
    /\ draft \in [Sessions -> Files \cup {NoFile}]
    /\ promised \subseteq Files

\* Every failing path of create and open gives back what it took: a session holds
\* the lock exactly from acquireLock to closeUnlocked, and has an environment open
\* only under the lock.
LocksGivenBack ==
    \A s \in Sessions :
        /\ lock = s <=> at[s] \in LockedPoints
        /\ env[s] # NoFile => at[s] \in LockedPoints

\* ADR-0026, "publication coordination": nobody opens a new Notebook before its
\* creator is done with it, though its name is visible earlier.
CreatorOpensFirst ==
    \A s, t \in Sessions : s # t /\ draft[s] # NoFile => env[t] # draft[s]

\* What create publishes is a complete Notebook: no file is at the path before
\* the transaction that makes it one.
NoDraftPublished == path # NoFile => content[path] # "draft"

\* create never takes the path from a file that is there, and neither create nor a
\* failing open changes a file that is not a Notebook; only an empty file is not
\* safe from open, and a name that was never flushed not from a power failure.
NothingOverwritten ==
    [][ /\ path # NoFile /\ path' # path =>
              \/ content[path] = "empty"
              \/ ~flushed /\ path' = NoFile
        /\ \A f \in Files : content[f] = "foreign" => content'[f] = "foreign" ]_vars

\* A call of create or open returns: it neither waits for another session nor
\* gets stuck behind one that ended badly.
CallsReturn ==
    \A s \in Sessions : at[s] \notin {"idle", "open"} ~> at[s] \in {"idle", "open"}

-----------------------------------------------------------------------------
Owner == IF \E s \in Sessions : at[s] = "open"
         THEN CHOOSE s \in Sessions : at[s] = "open"
         ELSE NoOne
VisibleNotebook ==
    IF path # NoFile /\ content[path] \in {"bare", "whole"} THEN path ELSE NoFile

Ownership == INSTANCE NotebookOwnership
    WITH notebook <- VisibleNotebook, owner <- Owner, Notebooks <- Files, Nothing <- NoFile

\* The steps on locks, temporary names and environments together implement
\* exclusive ownership of one Notebook that is never lost once acknowledged.
RefinesOwnership == Ownership!Spec
=============================================================================
