------------------------ MODULE NotebookFile_proofs ------------------------
(***************************************************************************)
(* For any number of sessions and files: the lock beside the Notebook      *)
(* makes the steps of creating, opening and closing it implement exclusive *)
(* ownership, through failures of every step, crashes and power failures.  *)
(***************************************************************************)
EXTENDS NotebookFile, TLAPS

\* Where the call of s stands, and what that says of its files and of the path.
DraftOf(s) ==
    /\ at[s] \in {"idle", "createLock", "openLock", "recheck", "initialize", "backfill", "open"}
          => draft[s] = NoFile
    /\ at[s] \in {"schema", "publish", "unlink", "sync"} => draft[s] # NoFile
    /\ at[s] = "schema" => content[draft[s]] = "draft" /\ path # draft[s]
    /\ at[s] = "publish" => content[draft[s]] = "whole" /\ path # draft[s]
    /\ at[s] \in {"unlink", "sync", "openEnvironment", "inspect"} /\ draft[s] # NoFile
          => path = draft[s] /\ content[draft[s]] = "whole"
    /\ at[s] \in {"openEnvironment", "inspect"} /\ draft[s] # NoFile => flushed

EnvironmentOf(s) ==
    /\ env[s] # NoFile <=> at[s] \in {"schema", "inspect", "backfill", "open"}
    /\ at[s] = "schema" => env[s] = draft[s]
    /\ at[s] \in {"inspect", "backfill", "open"} => env[s] = path
    /\ at[s] = "backfill" => content[path] = "bare"
    /\ at[s] = "open" => content[path] = "whole"

LockOf(s) == lock = s <=> at[s] \in LockedPoints

\* Files are numbered as they are made, and one at the path is more than a draft.
DiskInv ==
    /\ \A f \in Files : f > made => content[f] = "none"
    /\ path # NoFile => path <= made /\ content[path] \notin {"none", "draft"}
    /\ \A f \in promised : f = path /\ content[f] = "whole" /\ flushed

Made(s) == draft[s] <= made /\ env[s] <= made

Inv ==
    /\ TypeOK
    /\ DiskInv
    /\ \A s \in Sessions : LockOf(s) /\ DraftOf(s) /\ EnvironmentOf(s) /\ Made(s)

-----------------------------------------------------------------------------
\* At the start nobody has the lock and at most one file is there.
LEMMA InitInv == Init => Inv
<1>1. SUFFICES ASSUME Init PROVE Inv
  OBVIOUS
<1>2. TypeOK
  BY <1>1, MaxFilesAssumption
     DEF Init, TypeOK, Files, NoFile, Contents, FoundContents, Points
<1>3. DiskInv
  BY <1>1, MaxFilesAssumption DEF Init, DiskInv, Files, NoFile, FoundContents
<1>4. ASSUME NEW s \in Sessions
      PROVE LockOf(s) /\ DraftOf(s) /\ EnvironmentOf(s) /\ Made(s)
  BY <1>1, SessionsAssumption
     DEF Init, LockOf, DraftOf, EnvironmentOf, Made, NoFile, LockedPoints, Points
<1> QED
  BY <1>2, <1>3, <1>4 DEF Inv

\* Two sessions are never both past the lock.
LEMMA OneLocked ==
    ASSUME Inv, NEW s \in Sessions, NEW t \in Sessions,
           at[s] \in LockedPoints, at[t] \in LockedPoints
    PROVE  s = t
BY DEF Inv, LockOf

\* Steps that change nothing but where one call stands.
LEMMA MoveInv ==
    ASSUME Inv, NEW s \in Sessions,
           \/ Create(s)
           \/ Open(s)
           \/ RefuseLock(s)
           \/ Recheck(s)
           \/ FailToInitialize(s)
           \/ FailToPublish(s)
    PROVE  Inv'
<1>1. TypeOK'
  BY SessionsAssumption, MaxFilesAssumption
     DEF Inv, TypeOK, Files, Contents, Points, NoFile, GoTo, disk,
         Create, Open, RefuseLock, Recheck, FailToInitialize, FailToPublish
<1>2. DiskInv'
  BY OneLocked, MaxFilesAssumption
     DEF Inv, TypeOK, Files, NoFile, DiskInv, DraftOf, EnvironmentOf, Made, GoTo, disk,
         Create, Open, RefuseLock, Recheck, FailToInitialize, FailToPublish
<1>3. ASSUME NEW t \in Sessions
      PROVE (LockOf(t) /\ DraftOf(t) /\ EnvironmentOf(t) /\ Made(t))'
  <2>1. CASE t = s
    BY <2>1, SessionsAssumption, MaxFilesAssumption
       DEF Inv, TypeOK, Files, NoFile, DiskInv, LockOf, DraftOf, EnvironmentOf, Made,
           LockedPoints, Points, GoTo, disk,
           Create, Open, RefuseLock, Recheck, FailToInitialize, FailToPublish
  <2>2. CASE t # s
    BY <2>2, OneLocked, SessionsAssumption, MaxFilesAssumption
       DEF Inv, TypeOK, Files, NoFile, DiskInv, LockOf, DraftOf, EnvironmentOf, Made,
           LockedPoints, Points, GoTo, disk,
           Create, Open, RefuseLock, Recheck, FailToInitialize, FailToPublish
  <2> QED
    BY <2>1, <2>2
<1> QED
  BY <1>1, <1>2, <1>3 DEF Inv

\* The lock is taken only when nobody has it.
LEMMA AcquireLockInv ==
    ASSUME Inv, NEW s \in Sessions,
           AcquireLock(s)
    PROVE  Inv'
<1>1. TypeOK'
  BY SessionsAssumption, MaxFilesAssumption
     DEF Inv, TypeOK, Files, Contents, Points, NoFile, GoTo, disk,
         AcquireLock, LockFree
<1>2. DiskInv'
  BY OneLocked, MaxFilesAssumption
     DEF Inv, TypeOK, Files, NoFile, DiskInv, DraftOf, EnvironmentOf, Made, GoTo, disk,
         AcquireLock, LockFree
<1>3. ASSUME NEW t \in Sessions
      PROVE (LockOf(t) /\ DraftOf(t) /\ EnvironmentOf(t) /\ Made(t))'
  <2>1. CASE t = s
    BY <2>1, SessionsAssumption, MaxFilesAssumption
       DEF Inv, TypeOK, Files, NoFile, DiskInv, LockOf, DraftOf, EnvironmentOf, Made,
           LockedPoints, Points, GoTo, disk,
           AcquireLock, LockFree
  <2>2. CASE t # s
    BY <2>2, OneLocked, SessionsAssumption, MaxFilesAssumption
       DEF Inv, TypeOK, Files, NoFile, DiskInv, LockOf, DraftOf, EnvironmentOf, Made,
           LockedPoints, Points, GoTo, disk,
           AcquireLock, LockFree
  <2> QED
    BY <2>1, <2>2
<1> QED
  BY <1>1, <1>2, <1>3 DEF Inv

\* A new draft has a number no other file bears.
LEMMA InitializeInv ==
    ASSUME Inv, NEW s \in Sessions,
           Initialize(s)
    PROVE  Inv'
<1>0. /\ made + 1 \in Files /\ made + 1 # NoFile
      /\ content' = [content EXCEPT ![made + 1] = "draft"] /\ content' \in [Files -> Contents]
  BY MaxFilesAssumption DEF Inv, TypeOK, Files, NoFile, Contents, Initialize
<1>1. TypeOK'
  BY <1>0, SessionsAssumption, MaxFilesAssumption
     DEF Inv, TypeOK, Files, Contents, Points, NoFile, GoTo, disk,
         Initialize
<1>2. DiskInv'
  <2>1. /\ made' = made + 1 /\ path' = path /\ promised' = promised /\ flushed' = flushed
        /\ \A f \in Files : f # made + 1 => content'[f] = content[f]
    BY <1>0 DEF Initialize, Inv, TypeOK
  <2>2. /\ made \in Nat /\ Files \subseteq Nat /\ path \in Files \cup {NoFile}
        /\ promised \subseteq Files
    BY MaxFilesAssumption DEF Inv, TypeOK, Files, NoFile
  <2>3. content[made + 1] = "none"
    BY <1>0, <2>2 DEF Inv, DiskInv
  <2>4. (\A f \in Files : f > made => content[f] = "none")'
    BY <2>1, <2>2 DEF Inv, DiskInv, Files
  <2>5. (path # NoFile => path <= made /\ content[path] \notin {"none", "draft"})'
    BY <2>1, <2>2, <2>3, MaxFilesAssumption DEF Inv, DiskInv, NoFile
  <2>6. (\A f \in promised : f = path /\ content[f] = "whole" /\ flushed)'
    BY <2>1, <2>2, <2>3 DEF Inv, DiskInv
  <2> QED
    BY <2>4, <2>5, <2>6 DEF DiskInv
<1>3. ASSUME NEW t \in Sessions
      PROVE (LockOf(t) /\ DraftOf(t) /\ EnvironmentOf(t) /\ Made(t))'
  <2>1. CASE t = s
    BY <2>1, SessionsAssumption, MaxFilesAssumption
       DEF Inv, TypeOK, Files, NoFile, DiskInv, LockOf, DraftOf, EnvironmentOf, Made,
           LockedPoints, Points, GoTo, disk,
           Initialize
  <2>2. CASE t # s
    BY <2>2, OneLocked, SessionsAssumption, MaxFilesAssumption
       DEF Inv, TypeOK, Files, NoFile, DiskInv, LockOf, DraftOf, EnvironmentOf, Made,
           LockedPoints, Points, GoTo, disk,
           Initialize
  <2> QED
    BY <2>1, <2>2
<1> QED
  BY <1>1, <1>2, <1>3 DEF Inv

\* The draft becomes a Notebook before it can be published.
LEMMA CommitSchemaInv ==
    ASSUME Inv, NEW s \in Sessions,
           CommitSchema(s)
    PROVE  Inv'
<1>1. TypeOK'
  BY SessionsAssumption, MaxFilesAssumption
     DEF Inv, TypeOK, Files, Contents, Points, NoFile, GoTo, disk,
         CommitSchema, AfterSchema
<1>2. DiskInv'
  BY OneLocked, MaxFilesAssumption
     DEF Inv, TypeOK, Files, NoFile, DiskInv, DraftOf, EnvironmentOf, Made, GoTo, disk,
         CommitSchema, AfterSchema
<1>3. ASSUME NEW t \in Sessions
      PROVE (LockOf(t) /\ DraftOf(t) /\ EnvironmentOf(t) /\ Made(t))'
  <2>1. CASE t = s
    BY <2>1, SessionsAssumption, MaxFilesAssumption
       DEF Inv, TypeOK, Files, NoFile, DiskInv, LockOf, DraftOf, EnvironmentOf, Made,
           LockedPoints, Points, GoTo, disk,
           CommitSchema, AfterSchema
  <2>2. CASE t # s
    BY <2>2, OneLocked, SessionsAssumption, MaxFilesAssumption
       DEF Inv, TypeOK, Files, NoFile, DiskInv, LockOf, DraftOf, EnvironmentOf, Made,
           LockedPoints, Points, GoTo, disk,
           CommitSchema, AfterSchema
  <2> QED
    BY <2>1, <2>2
<1> QED
  BY <1>1, <1>2, <1>3 DEF Inv

\* The path leads to the finished draft.
LEMMA PublishInv ==
    ASSUME Inv, NEW s \in Sessions,
           Publish(s)
    PROVE  Inv'
<1>1. TypeOK'
  BY SessionsAssumption, MaxFilesAssumption
     DEF Inv, TypeOK, Files, Contents, Points, NoFile, GoTo, disk,
         Publish, NameFree
<1>2. DiskInv'
  BY OneLocked, MaxFilesAssumption
     DEF Inv, TypeOK, Files, NoFile, DiskInv, DraftOf, EnvironmentOf, Made, GoTo, disk,
         Publish, NameFree
<1>3. ASSUME NEW t \in Sessions
      PROVE (LockOf(t) /\ DraftOf(t) /\ EnvironmentOf(t) /\ Made(t))'
  <2>1. CASE t = s
    BY <2>1, SessionsAssumption, MaxFilesAssumption
       DEF Inv, TypeOK, Files, NoFile, DiskInv, LockOf, DraftOf, EnvironmentOf, Made,
           LockedPoints, Points, GoTo, disk,
           Publish, NameFree
  <2>2. CASE t # s
    BY <2>2, OneLocked, SessionsAssumption, MaxFilesAssumption
       DEF Inv, TypeOK, Files, NoFile, DiskInv, LockOf, DraftOf, EnvironmentOf, Made,
           LockedPoints, Points, GoTo, disk,
           Publish, NameFree
  <2> QED
    BY <2>1, <2>2
<1> QED
  BY <1>1, <1>2, <1>3 DEF Inv

\* The temporary name matters to nobody.
LEMMA UnlinkInv ==
    ASSUME Inv, NEW s \in Sessions,
           Unlink(s)
    PROVE  Inv'
<1>1. TypeOK'
  BY SessionsAssumption, MaxFilesAssumption
     DEF Inv, TypeOK, Files, Contents, Points, NoFile, GoTo, disk,
         Unlink
<1>2. DiskInv'
  BY OneLocked, MaxFilesAssumption
     DEF Inv, TypeOK, Files, NoFile, DiskInv, DraftOf, EnvironmentOf, Made, GoTo, disk,
         Unlink
<1>3. ASSUME NEW t \in Sessions
      PROVE (LockOf(t) /\ DraftOf(t) /\ EnvironmentOf(t) /\ Made(t))'
  <2>1. CASE t = s
    BY <2>1, SessionsAssumption, MaxFilesAssumption
       DEF Inv, TypeOK, Files, NoFile, DiskInv, LockOf, DraftOf, EnvironmentOf, Made,
           LockedPoints, Points, GoTo, disk,
           Unlink
  <2>2. CASE t # s
    BY <2>2, OneLocked, SessionsAssumption, MaxFilesAssumption
       DEF Inv, TypeOK, Files, NoFile, DiskInv, LockOf, DraftOf, EnvironmentOf, Made,
           LockedPoints, Points, GoTo, disk,
           Unlink
  <2> QED
    BY <2>1, <2>2
<1> QED
  BY <1>1, <1>2, <1>3 DEF Inv

\* A creation goes on only with the name on disk.
LEMMA SyncInv ==
    ASSUME Inv, NEW s \in Sessions,
           Sync(s)
    PROVE  Inv'
<1>1. TypeOK'
  BY SessionsAssumption, MaxFilesAssumption
     DEF Inv, TypeOK, Files, Contents, Points, NoFile, GoTo, disk,
         Sync, AfterSync
<1>2. DiskInv'
  BY OneLocked, MaxFilesAssumption
     DEF Inv, TypeOK, Files, NoFile, DiskInv, DraftOf, EnvironmentOf, Made, GoTo, disk,
         Sync, AfterSync
<1>3. ASSUME NEW t \in Sessions
      PROVE (LockOf(t) /\ DraftOf(t) /\ EnvironmentOf(t) /\ Made(t))'
  <2>1. CASE t = s
    BY <2>1, SessionsAssumption, MaxFilesAssumption
       DEF Inv, TypeOK, Files, NoFile, DiskInv, LockOf, DraftOf, EnvironmentOf, Made,
           LockedPoints, Points, GoTo, disk,
           Sync, AfterSync
  <2>2. CASE t # s
    BY <2>2, OneLocked, SessionsAssumption, MaxFilesAssumption
       DEF Inv, TypeOK, Files, NoFile, DiskInv, LockOf, DraftOf, EnvironmentOf, Made,
           LockedPoints, Points, GoTo, disk,
           Sync, AfterSync
  <2> QED
    BY <2>1, <2>2
<1> QED
  BY <1>1, <1>2, <1>3 DEF Inv

\* An empty file is nobody's Notebook.
LEMMA RemoveEmptyInv ==
    ASSUME Inv, NEW s \in Sessions,
           RemoveEmpty(s)
    PROVE  Inv'
<1>1. TypeOK'
  BY SessionsAssumption, MaxFilesAssumption
     DEF Inv, TypeOK, Files, Contents, Points, NoFile, GoTo, disk,
         RemoveEmpty
<1>2. DiskInv'
  BY OneLocked, MaxFilesAssumption
     DEF Inv, TypeOK, Files, NoFile, DiskInv, DraftOf, EnvironmentOf, Made, GoTo, disk,
         RemoveEmpty
<1>3. ASSUME NEW t \in Sessions
      PROVE (LockOf(t) /\ DraftOf(t) /\ EnvironmentOf(t) /\ Made(t))'
  <2>1. CASE t = s
    BY <2>1, SessionsAssumption, MaxFilesAssumption
       DEF Inv, TypeOK, Files, NoFile, DiskInv, LockOf, DraftOf, EnvironmentOf, Made,
           LockedPoints, Points, GoTo, disk,
           RemoveEmpty
  <2>2. CASE t # s
    BY <2>2, OneLocked, SessionsAssumption, MaxFilesAssumption
       DEF Inv, TypeOK, Files, NoFile, DiskInv, LockOf, DraftOf, EnvironmentOf, Made,
           LockedPoints, Points, GoTo, disk,
           RemoveEmpty
  <2> QED
    BY <2>1, <2>2
<1> QED
  BY <1>1, <1>2, <1>3 DEF Inv

\* What takes its place is nobody's draft.
LEMMA MakeBlankInv ==
    ASSUME Inv, NEW s \in Sessions,
           MakeBlank(s)
    PROVE  Inv'
<1>0. /\ made + 1 \in Files /\ made + 1 # NoFile
      /\ content' = [content EXCEPT ![made + 1] = "blank"] /\ content' \in [Files -> Contents]
  BY MaxFilesAssumption DEF Inv, TypeOK, Files, NoFile, Contents, MakeBlank
<1>1. TypeOK'
  <2>1. made' = made + 1 /\ path' = made + 1 /\ flushed' = FALSE
    BY DEF MakeBlank
  <2>2. at' \in [Sessions -> Points] /\ env' \in [Sessions -> Files \cup {NoFile}]
    BY <1>0 DEF Inv, TypeOK, Points, GoTo, MakeBlank
  <2> QED
    BY <1>0, <2>1, <2>2 DEF Inv, TypeOK, MakeBlank
<1>2. DiskInv'
  <2>1. promised' = {}
    BY DEF Inv, TypeOK, DiskInv, Files, NoFile, MakeBlank
  <2> QED
    BY <1>0, <2>1 DEF Inv, TypeOK, Files, DiskInv, MakeBlank
<1>3. ASSUME NEW t \in Sessions
      PROVE (LockOf(t) /\ DraftOf(t) /\ EnvironmentOf(t) /\ Made(t))'
  <2>1. CASE t = s
    BY <2>1, SessionsAssumption, MaxFilesAssumption
       DEF Inv, TypeOK, Files, NoFile, DiskInv, LockOf, DraftOf, EnvironmentOf, Made,
           LockedPoints, Points, GoTo, disk,
           MakeBlank
  <2>2. CASE t # s
    BY <2>2, OneLocked, SessionsAssumption, MaxFilesAssumption
       DEF Inv, TypeOK, Files, NoFile, DiskInv, LockOf, DraftOf, EnvironmentOf, Made,
           LockedPoints, Points, GoTo, disk,
           MakeBlank
  <2> QED
    BY <2>1, <2>2
<1> QED
  BY <1>1, <1>2, <1>3 DEF Inv

\* An environment is opened on the file at the path.
LEMMA OpenEnvironmentInv ==
    ASSUME Inv, NEW s \in Sessions,
           OpenEnvironment(s)
    PROVE  Inv'
<1>1. TypeOK'
  BY SessionsAssumption, MaxFilesAssumption
     DEF Inv, TypeOK, Files, Contents, Points, NoFile, GoTo, disk,
         OpenEnvironment
<1>2. DiskInv'
  BY OneLocked, MaxFilesAssumption
     DEF Inv, TypeOK, Files, NoFile, DiskInv, DraftOf, EnvironmentOf, Made, GoTo, disk,
         OpenEnvironment
<1>3. ASSUME NEW t \in Sessions
      PROVE (LockOf(t) /\ DraftOf(t) /\ EnvironmentOf(t) /\ Made(t))'
  <2>1. CASE t = s
    BY <2>1, SessionsAssumption, MaxFilesAssumption
       DEF Inv, TypeOK, Files, NoFile, DiskInv, LockOf, DraftOf, EnvironmentOf, Made,
           LockedPoints, Points, GoTo, disk,
           OpenEnvironment
  <2>2. CASE t # s
    BY <2>2, OneLocked, SessionsAssumption, MaxFilesAssumption
       DEF Inv, TypeOK, Files, NoFile, DiskInv, LockOf, DraftOf, EnvironmentOf, Made,
           LockedPoints, Points, GoTo, disk,
           OpenEnvironment
  <2> QED
    BY <2>1, <2>2
<1> QED
  BY <1>1, <1>2, <1>3 DEF Inv

\* Failing calls, and closes, give back their environment.
LEMMA FailInv ==
    ASSUME Inv, NEW s \in Sessions,
           \/ FailToOpen(s)
           \/ Close(s)
    PROVE  Inv'
<1>1. TypeOK'
  BY SessionsAssumption, MaxFilesAssumption
     DEF Inv, TypeOK, Files, Contents, Points, NoFile, GoTo, disk,
         FailToOpen, Close, GiveUp
<1>2. DiskInv'
  <2>1. UNCHANGED <<content, path, flushed, made, promised>>
    BY DEF FailToOpen, Close, GiveUp, disk
  <2> QED
    BY <2>1 DEF Inv, DiskInv
<1>3. ASSUME NEW t \in Sessions
      PROVE (LockOf(t) /\ DraftOf(t) /\ EnvironmentOf(t) /\ Made(t))'
  <2>1. CASE t = s
    BY <2>1, SessionsAssumption, MaxFilesAssumption
       DEF Inv, TypeOK, Files, NoFile, DiskInv, LockOf, DraftOf, EnvironmentOf, Made,
           LockedPoints, Points, GoTo, disk,
           FailToOpen, Close, GiveUp
  <2>2. CASE t # s
    BY <2>2, OneLocked, SessionsAssumption, MaxFilesAssumption
       DEF Inv, TypeOK, Files, NoFile, DiskInv, LockOf, DraftOf, EnvironmentOf, Made,
           LockedPoints, Points, GoTo, disk,
           FailToOpen, Close, GiveUp
  <2> QED
    BY <2>1, <2>2
<1> QED
  BY <1>1, <1>2, <1>3 DEF Inv

\* A call that finds its derived indexes returns with an open session.
LEMMA InspectInv ==
    ASSUME Inv, NEW s \in Sessions,
           Inspect(s)
    PROVE  Inv'
<1>1. TypeOK'
  <2>1. /\ UNCHANGED <<content, path, temps, flushed, made, lock, env>>
        /\ \E point \in {"open", "backfill"} : at' = [at EXCEPT ![s] = point]
    BY DEF Inspect, Opened, GoTo, disk
  <2>2. /\ draft' \in {draft, [draft EXCEPT ![s] = NoFile]}
        /\ promised' \in {promised, promised \cup ({draft[s]} \ {NoFile})}
    BY DEF Inspect, Opened
  <2>3. promised' \subseteq Files /\ draft' \in [Sessions -> Files \cup {NoFile}]
    BY <2>2 DEF Inv, TypeOK
  <2> QED
    BY <2>1, <2>3 DEF Inv, TypeOK, Points
<1>2. DiskInv'
  BY OneLocked, MaxFilesAssumption
     DEF Inv, TypeOK, Files, NoFile, DiskInv, DraftOf, EnvironmentOf, Made, GoTo, disk,
         Inspect, Opened
<1>3. ASSUME NEW t \in Sessions
      PROVE (LockOf(t) /\ DraftOf(t) /\ EnvironmentOf(t) /\ Made(t))'
  <2>1. CASE t = s
    BY <2>1, SessionsAssumption, MaxFilesAssumption
       DEF Inv, TypeOK, Files, NoFile, DiskInv, LockOf, DraftOf, EnvironmentOf, Made,
           LockedPoints, Points, GoTo, disk,
           Inspect, Opened
  <2>2. CASE t # s
    BY <2>2, OneLocked, SessionsAssumption, MaxFilesAssumption
       DEF Inv, TypeOK, Files, NoFile, DiskInv, LockOf, DraftOf, EnvironmentOf, Made,
           LockedPoints, Points, GoTo, disk,
           Inspect, Opened
  <2> QED
    BY <2>1, <2>2
<1> QED
  BY <1>1, <1>2, <1>3 DEF Inv

\* Missing derived indexes are built before the session is open.
LEMMA BackfillInv ==
    ASSUME Inv, NEW s \in Sessions,
           \/ Backfill(s)
           \/ FailToBackfill(s)
    PROVE  Inv'
<1>a. /\ at[s] = "backfill" /\ env[s] = path /\ path # NoFile /\ content[path] = "bare"
      /\ draft[s] = NoFile /\ path \in Files
  BY DEF Inv, TypeOK, DraftOf, EnvironmentOf, Backfill, FailToBackfill, Opened, GiveUp, GoTo
<1>b. content' \in {content, [content EXCEPT ![path] = "whole"]}
  BY <1>a DEF Backfill, FailToBackfill
<1>c. content' \in [Files -> Contents]
  BY <1>a, <1>b DEF Inv, TypeOK, Contents
<1>d. promised' = promised /\ path' = path /\ flushed' = flushed /\ made' = made
  BY <1>a DEF Backfill, FailToBackfill, Opened, GiveUp, NoFile
<1>1. TypeOK'
  BY <1>c, <1>d DEF Inv, TypeOK, Points, NoFile, GoTo, Backfill, FailToBackfill, Opened, GiveUp
<1>2. DiskInv'
  BY <1>a, <1>b, <1>d DEF Inv, TypeOK, DiskInv, Files
<1>3. ASSUME NEW t \in Sessions
      PROVE (LockOf(t) /\ DraftOf(t) /\ EnvironmentOf(t) /\ Made(t))'
  <2>1. CASE t = s
    BY <2>1, SessionsAssumption, MaxFilesAssumption
       DEF Inv, TypeOK, Files, NoFile, DiskInv, LockOf, DraftOf, EnvironmentOf, Made,
           LockedPoints, Points, GoTo, disk,
           Backfill, FailToBackfill, Opened, GiveUp
  <2>2. CASE t # s
    BY <2>2, OneLocked, SessionsAssumption, MaxFilesAssumption
       DEF Inv, TypeOK, Files, NoFile, DiskInv, LockOf, DraftOf, EnvironmentOf, Made,
           LockedPoints, Points, GoTo, disk,
           Backfill, FailToBackfill, Opened, GiveUp
  <2> QED
    BY <2>1, <2>2
<1> QED
  BY <1>1, <1>2, <1>3 DEF Inv

\* The lock is given back last.
LEMMA ReleaseInv ==
    ASSUME Inv, NEW s \in Sessions,
           Release(s)
    PROVE  Inv'
<1>1. TypeOK'
  BY SessionsAssumption, MaxFilesAssumption
     DEF Inv, TypeOK, Files, Contents, Points, NoFile, GoTo, disk,
         Release
<1>2. DiskInv'
  BY OneLocked, MaxFilesAssumption
     DEF Inv, TypeOK, Files, NoFile, DiskInv, DraftOf, EnvironmentOf, Made, GoTo, disk,
         Release
<1>3. ASSUME NEW t \in Sessions
      PROVE (LockOf(t) /\ DraftOf(t) /\ EnvironmentOf(t) /\ Made(t))'
  <2>1. CASE t = s
    BY <2>1, SessionsAssumption, MaxFilesAssumption
       DEF Inv, TypeOK, Files, NoFile, DiskInv, LockOf, DraftOf, EnvironmentOf, Made,
           LockedPoints, Points, GoTo, disk,
           Release
  <2>2. CASE t # s
    BY <2>2, OneLocked, SessionsAssumption, MaxFilesAssumption
       DEF Inv, TypeOK, Files, NoFile, DiskInv, LockOf, DraftOf, EnvironmentOf, Made,
           LockedPoints, Points, GoTo, disk,
           Release
  <2> QED
    BY <2>1, <2>2
<1> QED
  BY <1>1, <1>2, <1>3 DEF Inv

\* A crash gives back what the process held.
LEMMA CrashInv ==
    ASSUME Inv, NEW s \in Sessions,
           Crash(s)
    PROVE  Inv'
<1>1. TypeOK'
  BY SessionsAssumption, MaxFilesAssumption
     DEF Inv, TypeOK, Files, Contents, Points, NoFile, GoTo, disk,
         Crash
<1>2. DiskInv'
  BY OneLocked, MaxFilesAssumption
     DEF Inv, TypeOK, Files, NoFile, DiskInv, DraftOf, EnvironmentOf, Made, GoTo, disk,
         Crash
<1>3. ASSUME NEW t \in Sessions
      PROVE (LockOf(t) /\ DraftOf(t) /\ EnvironmentOf(t) /\ Made(t))'
  <2>1. CASE t = s
    BY <2>1, SessionsAssumption, MaxFilesAssumption
       DEF Inv, TypeOK, Files, NoFile, DiskInv, LockOf, DraftOf, EnvironmentOf, Made,
           LockedPoints, Points, GoTo, disk,
           Crash
  <2>2. CASE t # s
    BY <2>2, OneLocked, SessionsAssumption, MaxFilesAssumption
       DEF Inv, TypeOK, Files, NoFile, DiskInv, LockOf, DraftOf, EnvironmentOf, Made,
           LockedPoints, Points, GoTo, disk,
           Crash
  <2> QED
    BY <2>1, <2>2
<1> QED
  BY <1>1, <1>2, <1>3 DEF Inv

\* A file put there by another program has a number of its own.
LEMMA PlaceFileInv ==
    ASSUME Inv, NEW kind \in FoundContents, PlaceFile(kind)
    PROVE  Inv'
<1>0. /\ made + 1 \in Files /\ made + 1 # NoFile
      /\ content' = [content EXCEPT ![made + 1] = kind] /\ content' \in [Files -> Contents]
  BY MaxFilesAssumption
     DEF Inv, TypeOK, Files, NoFile, Contents, FoundContents, PlaceFile
<1>1. TypeOK'
  <2>1. made' = made + 1 /\ path' = made + 1 /\ flushed' = TRUE
    BY DEF PlaceFile
  <2> QED
    BY <1>0, <2>1 DEF Inv, TypeOK, PlaceFile
<1>2. DiskInv'
  BY <1>0 DEF Inv, TypeOK, Files, NoFile, FoundContents, DiskInv, PlaceFile
<1>3. ASSUME NEW t \in Sessions
      PROVE (LockOf(t) /\ DraftOf(t) /\ EnvironmentOf(t) /\ Made(t))'
  BY <1>0 DEF Inv, TypeOK, Files, NoFile, LockOf, DraftOf, EnvironmentOf, Made,
         LockedPoints, Points, PlaceFile
<1> QED
  BY <1>1, <1>2, <1>3 DEF Inv

\* After a power failure nobody holds anything, and promised names are on disk.
LEMMA PowerLossInv == Inv /\ PowerLoss => Inv'
<1> SUFFICES ASSUME Inv, PowerLoss PROVE Inv'
  OBVIOUS
<1>1. TypeOK'
  BY DEF Inv, TypeOK, Points, PowerLoss
<1>2. DiskInv'
  BY DEF Inv, TypeOK, DiskInv, PowerLoss
<1>3. ASSUME NEW t \in Sessions
      PROVE (LockOf(t) /\ DraftOf(t) /\ EnvironmentOf(t) /\ Made(t))'
  BY SessionsAssumption
     DEF Inv, TypeOK, Files, NoFile, LockOf, DraftOf, EnvironmentOf, Made, LockedPoints,
         Points, PowerLoss
<1> QED
  BY <1>1, <1>2, <1>3 DEF Inv

\* Every step keeps the invariant.
LEMMA NextInv == Inv /\ [Next]_vars => Inv'
<1> SUFFICES ASSUME Inv, [Next]_vars PROVE Inv'
  OBVIOUS
<1>1. ASSUME NEW s \in Sessions, Proceed(s) PROVE Inv'
  BY <1>1, MoveInv, AcquireLockInv, InitializeInv, CommitSchemaInv, PublishInv, UnlinkInv,
     SyncInv, RemoveEmptyInv, MakeBlankInv, OpenEnvironmentInv, FailInv, InspectInv,
     BackfillInv, ReleaseInv DEF Proceed
<1>2. ASSUME NEW s \in Sessions, Create(s) \/ Open(s) \/ Close(s) \/ Crash(s) PROVE Inv'
  BY <1>2, MoveInv, FailInv, CrashInv
<1>3. CASE UNCHANGED vars
  BY <1>3 DEF vars, Inv, TypeOK, DiskInv, LockOf, DraftOf, EnvironmentOf, Made
<1> QED
  BY <1>1, <1>2, <1>3, PlaceFileInv, PowerLossInv DEF Next

\* In every state of every behaviour the calls, the locks, the environments and the
\* file at the path fit together.
THEOREM FileInvariant == Spec => []Inv
BY InitInv, NextInv, PTL DEF Spec

-----------------------------------------------------------------------------
\* Each failing path of create and open gives its lock and environment back.
THEOREM LocksAreGivenBack == Spec => []LocksGivenBack
<1>1. Inv => LocksGivenBack
  BY DEF Inv, LocksGivenBack, LockOf, EnvironmentOf, LockedPoints, Points
<1> QED
  BY <1>1, FileInvariant, PTL

\* No session opens a new Notebook before its creator is done.
THEOREM CreatorIsFirst == Spec => []CreatorOpensFirst
<1>1. Inv => CreatorOpensFirst
  <2> SUFFICES ASSUME Inv, NEW s \in Sessions, NEW t \in Sessions, s # t, draft[s] # NoFile
               PROVE  env[t] # draft[s]
    BY DEF CreatorOpensFirst
  <2>1. at[s] \in LockedPoints
    BY DEF Inv, TypeOK, DraftOf, LockedPoints, Points
  <2>2. at[t] \notin LockedPoints
    BY <2>1, OneLocked
  <2>3. env[t] = NoFile
    BY <2>2 DEF Inv, TypeOK, EnvironmentOf, LockedPoints, Points
  <2> QED
    BY <2>3
<1> QED
  BY <1>1, FileInvariant, PTL

\* A file at the path is a finished one.
THEOREM DraftsStayHidden == Spec => []NoDraftPublished
<1>1. Inv => NoDraftPublished
  BY DEF Inv, DiskInv, NoDraftPublished
<1> QED
  BY <1>1, FileInvariant, PTL

-----------------------------------------------------------------------------
\* A file that holds something has a number already given out.
LEMMA HeldFilesMade ==
    ASSUME Inv, NEW f \in Files, content[f] # "none"
    PROVE  f <= made /\ f # made + 1
BY DEF Inv, TypeOK, DiskInv, Files

\* Nothing at the path gives way, and nothing foreign is written to.
THEOREM FoundFilesAreSafe == Spec => NothingOverwritten
<1> DEFINE Safe ==
        /\ path # NoFile /\ path' # path =>
              content[path] = "empty" \/ (~flushed /\ path' = NoFile)
        /\ \A f \in Files : content[f] = "foreign" => content'[f] = "foreign"
<1>1. ASSUME Inv, Next PROVE Safe
  <2>1. path # NoFile /\ path' # path =>
            content[path] = "empty" \/ (~flushed /\ path' = NoFile)
    BY <1>1 DEF Next, Proceed, Create, Open, AcquireLock, RefuseLock, Recheck, Initialize,
           FailToInitialize, CommitSchema, Publish, NameFree, FailToPublish, Unlink, Sync,
           RemoveEmpty, MakeBlank, OpenEnvironment, FailToOpen, Inspect, Backfill,
           FailToBackfill, Close, Release, Crash, PlaceFile, PowerLoss, disk
  <2>2. ASSUME NEW f \in Files, content[f] = "foreign" PROVE content'[f] = "foreign"
    <3>1. f # made + 1
      BY <1>1, <2>2, HeldFilesMade
    <3>2. ASSUME NEW s \in Sessions, Initialize(s) \/ MakeBlank(s)
          PROVE  content'[f] = "foreign"
      BY <1>1, <2>2, <3>1, <3>2 DEF Inv, TypeOK, Initialize, MakeBlank
    <3>3. ASSUME NEW s \in Sessions, CommitSchema(s) PROVE content'[f] = "foreign"
      <4>1. content[draft[s]] = "draft"
        BY <1>1, <3>3 DEF Inv, DraftOf, CommitSchema, GoTo
      <4> QED
        BY <1>1, <2>2, <3>3, <4>1 DEF Inv, TypeOK, CommitSchema
    <3>4. ASSUME NEW s \in Sessions, Backfill(s) \/ FailToBackfill(s)
          PROVE  content'[f] = "foreign"
      <4>1. content[env[s]] = "bare"
        BY <1>1, <3>4 DEF Inv, EnvironmentOf, Backfill, FailToBackfill, Opened, GiveUp, GoTo
      <4> QED
        BY <1>1, <2>2, <3>4, <4>1 DEF Inv, TypeOK, Backfill, FailToBackfill
    <3>5. ASSUME NEW kind \in FoundContents, PlaceFile(kind) PROVE content'[f] = "foreign"
      BY <1>1, <2>2, <3>1, <3>5 DEF Inv, TypeOK, PlaceFile
    <3>6. UNCHANGED content => content'[f] = "foreign"
      BY <2>2
    <3> QED
      BY <1>1, <3>2, <3>3, <3>4, <3>5, <3>6
         DEF Next, Proceed, Create, Open, AcquireLock, RefuseLock, Recheck, FailToInitialize,
             Publish, FailToPublish, Unlink, Sync, RemoveEmpty, OpenEnvironment, FailToOpen,
             Inspect, Close, Release, Crash, PowerLoss, disk
  <2> QED
    BY <2>1, <2>2
<1>2. ASSUME Inv, [Next]_vars PROVE [Safe]_vars
  BY <1>1, <1>2
<1> QED
  BY <1>2, FileInvariant, PTL DEF Spec, NothingOverwritten

-----------------------------------------------------------------------------
\* The owner is the session whose call has opened the Notebook.
LEMMA OwnerIs == Inv => \A s \in Sessions : at[s] = "open" => Owner = s
<1> SUFFICES ASSUME Inv, NEW s \in Sessions, at[s] = "open" PROVE Owner = s
  OBVIOUS
<1>1. \A t \in Sessions : at[t] = "open" => t = s
  BY OneLocked DEF LockedPoints, Points
<1> QED
  BY <1>1 DEF Owner

\* And nobody is while no session has it open.
LEMMA NoOwner == (\A s \in Sessions : at[s] # "open") => Owner = NoOne
BY DEF Owner

\* A step after which the same sessions have the Notebook open keeps the owner.
LEMMA SameOwner ==
    ASSUME Inv, \A t \in Sessions : at'[t] = "open" <=> at[t] = "open"
    PROVE  Owner' = Owner
<1>1. CASE \A s \in Sessions : at[s] # "open"
  BY <1>1 DEF Owner
<1>2. ASSUME NEW s \in Sessions, at[s] = "open" PROVE Owner' = Owner
  <2>1. \A t \in Sessions : at'[t] = "open" => t = s
    BY <1>2, OneLocked DEF LockedPoints, Points
  <2>2. Owner' = s
    BY <1>2, <2>1 DEF Owner
  <2> QED
    BY <1>2, <2>2, OwnerIs
<1> QED
  BY <1>1, <1>2

\* While one session is past the lock without having the Notebook open, nobody owns it.
LEMMA NotYetOwned ==
    ASSUME Inv, NEW s \in Sessions, at[s] \in LockedPoints \ {"open"}
    PROVE  Owner = NoOne
BY OneLocked, NoOwner DEF LockedPoints, Points

\* Steps of the file system and of calls in progress leave ownership as it is.
LEMMA QuietStep ==
    ASSUME Inv, \A t \in Sessions : at'[t] = "open" <=> at[t] = "open",
           VisibleNotebook' = VisibleNotebook, promised' = promised
    PROVE  UNCHANGED Ownership!vars
BY SameOwner DEF Ownership!vars

\* The Notebook has the same identity as long as the path leads to the same file
\* and a Notebook does not become or cease to be one.
LEMMA SameNotebook ==
    ASSUME path' = path,
           path # NoFile => (content'[path] \in {"bare", "whole"}
                             <=> content[path] \in {"bare", "whole"})
    PROVE  VisibleNotebook' = VisibleNotebook
BY DEF VisibleNotebook

\* A Notebook comes to the path only while nobody owns one.
LEMMA AppearStep ==
    ASSUME Inv, NEW f \in Files, path = NoFile, path' = f, promised' = promised,
           \A t \in Sessions : at'[t] = "open" <=> at[t] = "open"
    PROVE  Ownership!Next \/ UNCHANGED Ownership!vars
<1>1. VisibleNotebook = NoFile /\ VisibleNotebook' \in {f, NoFile}
  BY DEF VisibleNotebook, Files, NoFile
<1>2. Owner' = Owner
  BY SameOwner
<1>3. CASE VisibleNotebook' = f
  BY <1>1, <1>2, <1>3 DEF Ownership!Next, Ownership!Appear
<1>4. CASE VisibleNotebook' = NoFile
  BY <1>1, <1>2, <1>4 DEF Ownership!vars
<1> QED
  BY <1>1, <1>3, <1>4

\* A call that succeeds takes a Notebook nobody owns, and promises it if it is new.
LEMMA TakeStep ==
    ASSUME Inv, NEW s \in Sessions, (Inspect(s) /\ at'[s] = "open") \/ Backfill(s)
    PROVE  Ownership!Next
<1>1. /\ at[s] \in {"inspect", "backfill"} /\ env[s] = path /\ path # NoFile
      /\ content[path] \in {"bare", "whole"} /\ draft[s] \in {NoFile, path}
      /\ path \in Files
  BY DEF Inv, TypeOK, DraftOf, EnvironmentOf, Inspect, Backfill, Opened, GoTo
<1>2. path' = path /\ content'[path] = "whole"
  BY <1>1 DEF Inv, TypeOK, Inspect, Backfill, Opened, disk, GoTo
<1>3. VisibleNotebook = path /\ VisibleNotebook' = path
  BY <1>1, <1>2 DEF VisibleNotebook
<1>4. Owner = NoOne
  BY <1>1, NotYetOwned DEF LockedPoints, Points
<1>5. Owner' = s
  <2>1. at' = [at EXCEPT ![s] = "open"]
    BY DEF Inv, TypeOK, Inspect, Backfill, Opened, GoTo
  <2>2. \A t \in Sessions : at'[t] = "open" => t = s
    BY <1>1, <2>1, OneLocked DEF Inv, TypeOK, LockedPoints, Points
  <2> QED
    BY <2>1, <2>2 DEF Owner, Inv, TypeOK
<1>6. promised' \in {promised, promised \cup {path}}
  BY <1>1 DEF Inspect, Backfill, Opened, GoTo, NoFile, Inv, TypeOK
<1> QED
  BY <1>1, <1>3, <1>4, <1>5, <1>6 DEF Ownership!Next, Ownership!Take

\* A session that closes or crashes with the Notebook open leaves it to nobody.
LEMMA LeaveStep ==
    ASSUME Inv, NEW s \in Sessions, at[s] = "open", Close(s) \/ Crash(s)
    PROVE  Ownership!Next
<1>1. Owner = s /\ s # NoOne
  BY OwnerIs, SessionsAssumption
<1>2. \A t \in Sessions : at'[t] # "open"
  BY OneLocked DEF Inv, TypeOK, LockedPoints, Points, Close, Crash, GiveUp, GoTo
<1>3. Owner' = NoOne
  BY <1>2 DEF Owner
<1>4. VisibleNotebook' = VisibleNotebook /\ promised' = promised
  BY DEF VisibleNotebook, Close, Crash, GiveUp, disk
<1> QED
  BY <1>1, <1>3, <1>4 DEF Ownership!Next, Ownership!Leave

\* A power failure ends ownership, and takes a Notebook away only if it was not promised.
LEMMA PowerLossStep ==
    ASSUME Inv, PowerLoss
    PROVE  Ownership!Next \/ UNCHANGED Ownership!vars
<1>1. Owner' = NoOne
  BY DEF PowerLoss, Owner
<1>2. promised' = promised
  BY DEF PowerLoss
<1>3. CASE path' = path
  <2>1. VisibleNotebook' = VisibleNotebook
    BY <1>3 DEF PowerLoss, VisibleNotebook
  <2> QED
    BY <1>1, <1>2, <2>1 DEF Ownership!Next, Ownership!Leave, Ownership!vars
<1>4. CASE path' = NoFile /\ ~flushed
  <2>1. VisibleNotebook' = NoFile
    BY <1>4 DEF VisibleNotebook
  <2>2. VisibleNotebook \notin promised
    BY <1>4 DEF Inv, TypeOK, DiskInv
  <2> QED
    BY <1>1, <1>2, <2>1, <2>2 DEF Ownership!Next, Ownership!Vanish
<1> QED
  BY <1>3, <1>4 DEF PowerLoss

\* The remaining steps of a session are quiet.
LEMMA QuietSteps ==
    ASSUME Inv, NEW s \in Sessions,
           \/ Create(s) \/ Open(s) \/ AcquireLock(s) \/ RefuseLock(s) \/ Recheck(s)
           \/ Initialize(s) \/ FailToInitialize(s) \/ CommitSchema(s) \/ FailToPublish(s)
           \/ Unlink(s) \/ Sync(s) \/ RemoveEmpty(s) \/ OpenEnvironment(s) \/ FailToOpen(s)
           \/ (Inspect(s) /\ at'[s] # "open") \/ FailToBackfill(s) \/ Release(s)
           \/ Crash(s) /\ at[s] # "open"
    PROVE  UNCHANGED Ownership!vars
<1>1. \A t \in Sessions : at'[t] = "open" <=> at[t] = "open"
  BY DEF Inv, TypeOK, Points, Create, Open, AcquireLock, RefuseLock, Recheck, Initialize,
         FailToInitialize, CommitSchema, AfterSchema, FailToPublish, Unlink, Sync, AfterSync,
         RemoveEmpty, OpenEnvironment, FailToOpen, Inspect, Opened, FailToBackfill, Release,
         Crash, GiveUp, GoTo
<1>2. promised' = promised
  BY <1>1 DEF Create, Open, AcquireLock, RefuseLock, Recheck, Initialize, FailToInitialize,
         CommitSchema, FailToPublish, Unlink, Sync, RemoveEmpty, OpenEnvironment, FailToOpen,
         Inspect, Opened, FailToBackfill, Release, Crash, GiveUp, GoTo, Inv, TypeOK
<1>3. VisibleNotebook' = VisibleNotebook
  <2>1. CASE RemoveEmpty(s)
    BY <2>1 DEF VisibleNotebook, RemoveEmpty, NoFile
  <2>2. CASE Initialize(s)
    <3>1. path # made + 1
      BY DEF Inv, TypeOK, DiskInv, Files, NoFile
    <3> QED
      BY <2>2, <3>1, SameNotebook DEF Initialize, Inv, TypeOK
  <2>3. CASE CommitSchema(s)
    <3>1. path # draft[s]
      BY <2>3 DEF Inv, DraftOf, CommitSchema, GoTo
    <3> QED
      BY <2>3, <3>1, SameNotebook DEF CommitSchema, Inv, TypeOK
  <2>4. CASE FailToBackfill(s)
    <3>1. env[s] = path /\ content[path] = "bare"
      BY <2>4 DEF Inv, EnvironmentOf, FailToBackfill, GiveUp, GoTo
    <3> QED
      BY <2>4, <3>1, SameNotebook DEF FailToBackfill, Inv, TypeOK
  <2>5. path' = path /\ content' = content => VisibleNotebook' = VisibleNotebook
    BY DEF VisibleNotebook
  <2> QED
    BY <2>1, <2>2, <2>3, <2>4, <2>5
       DEF Create, Open, AcquireLock, RefuseLock, Recheck, FailToInitialize, FailToPublish,
           Unlink, Sync, OpenEnvironment, FailToOpen, Inspect, Release, Crash, disk
<1> QED
  BY <1>1, <1>2, <1>3, QuietStep

\* Publishing, a blank made in place of an empty file, and another program's file.
LEMMA ArrivalSteps ==
    ASSUME Inv, \/ \E s \in Sessions : Publish(s) \/ MakeBlank(s)
                \/ \E kind \in FoundContents : PlaceFile(kind)
    PROVE  Ownership!Next \/ UNCHANGED Ownership!vars
<1>1. ASSUME NEW s \in Sessions, Publish(s)
      PROVE  Ownership!Next \/ UNCHANGED Ownership!vars
  <2>1. draft[s] \in Files
    BY <1>1 DEF Inv, TypeOK, DraftOf, Publish, GoTo
  <2>2. \A t \in Sessions : at'[t] = "open" <=> at[t] = "open"
    BY <1>1 DEF Inv, TypeOK, Points, Publish, GoTo
  <2> QED
    BY <1>1, <2>1, <2>2, AppearStep DEF Publish, NameFree
<1>2. ASSUME NEW s \in Sessions, MakeBlank(s)
      PROVE  Ownership!Next \/ UNCHANGED Ownership!vars
  <2>1. made + 1 \in Files
    BY <1>2, MaxFilesAssumption DEF Inv, TypeOK, Files, MakeBlank
  <2>2. \A t \in Sessions : at'[t] = "open" <=> at[t] = "open"
    BY <1>2 DEF Inv, TypeOK, Points, MakeBlank, GoTo
  <2> QED
    BY <1>2, <2>1, <2>2, AppearStep DEF MakeBlank
<1>3. ASSUME NEW kind \in FoundContents, PlaceFile(kind)
      PROVE  Ownership!Next \/ UNCHANGED Ownership!vars
  <2>1. made + 1 \in Files
    BY <1>3, MaxFilesAssumption DEF Inv, TypeOK, Files, PlaceFile
  <2> QED
    BY <1>3, <2>1, AppearStep DEF PlaceFile
<1> QED
  BY <1>1, <1>2, <1>3

\* The calls of all sessions, whatever fails, implement NotebookOwnership.
THEOREM OwnershipIsExclusive == Spec => RefinesOwnership
<1>1. Init => Ownership!Init
  <2> SUFFICES ASSUME Init PROVE Ownership!Init
    OBVIOUS
  <2>1. Owner = NoOne
    BY NoOwner DEF Init
  <2>2. VisibleNotebook \in Files \cup {NoFile}
    BY InitInv DEF Inv, TypeOK, VisibleNotebook
  <2> QED
    BY <2>1, <2>2 DEF Ownership!Init, Init
<1>2. Inv /\ [Next]_vars => [Ownership!Next]_(Ownership!vars)
  <2> SUFFICES ASSUME Inv, [Next]_vars
               PROVE  Ownership!Next \/ UNCHANGED Ownership!vars
    OBVIOUS
  <2>1. ASSUME NEW s \in Sessions, Create(s) \/ Open(s) \/ Proceed(s) \/ Close(s) \/ Crash(s)
        PROVE  Ownership!Next \/ UNCHANGED Ownership!vars
    <3>1. CASE Close(s)
      BY <3>1, LeaveStep DEF Close, GiveUp, GoTo
    <3>2. CASE Crash(s)
      BY <3>2, LeaveStep, QuietSteps
    <3>3. CASE Inspect(s)
      BY <3>3, TakeStep, QuietSteps
    <3> QED
      BY <2>1, <3>1, <3>2, <3>3, TakeStep, QuietSteps, ArrivalSteps DEF Proceed
  <2>2. CASE UNCHANGED vars
    BY <2>2 DEF vars, Ownership!vars, VisibleNotebook, Owner
  <2> QED
    BY <2>1, <2>2, ArrivalSteps, PowerLossStep DEF Next
<1> QED
  BY <1>1, <1>2, FileInvariant, PTL DEF Spec, RefinesOwnership, Ownership!Spec
=============================================================================
