----------------------------- MODULE LiveIndex -----------------------------
(***************************************************************************)
(* The live index of one project: the source files on disk, the `files`    *)
(* table of the SQLite database, the file watcher of a running server, and *)
(* the three callers that run a sync over them:                            *)
(*                                                                         *)
(*   watch    the server's watcher, after a debounced change event         *)
(*   catchup  the server's one reconcile right after it opened the project *)
(*   cli      another process (`omniweave sync`, `omniweave index`)        *)
(*                                                                         *)
(* watch and catchup share one process, hence one Mutex; all three share   *)
(* the cross-process FileLock, which is taken to exclude them here.        *)
(*                                                                         *)
(* Data abstraction.  A file's state is a content and a modification time. *)
(* Every write gets a fresh time (`stamp`), so two different writes are    *)
(* never indistinguishable to the (size, mtime) pre-filter.  A row of the  *)
(* `files` table keeps the content its hash stands for and the time that   *)
(* was recorded with it.  Wall-clock milliseconds are compared by the code *)
(* only with the start of the sync in flight; `ticked` and `late` keep     *)
(* exactly the outcome of that comparison.                                 *)
(***************************************************************************)
EXTENDS Integers, FiniteSets

CONSTANTS
    Files,        \* project-relative paths of source files
    Contents,     \* what a file may contain
    Absent,       \* content of a file that is not there
    NoFile,       \* "no file is being indexed"
    MaxEdits,     \* bound: writes and deletions of files
    MaxFaults,    \* bound: processes that die and syncs that throw
    MaxCliRuns,   \* bound: runs of the CLI
    CliModes,     \* what the CLI may run: subset of {"sync", "index"}
    Hazards       \* conditions of the environment that a run switches on:
                  \*   "unreadable"  a present file cannot be read or parsed
                  \*   "sameTick"    the scan of a sync falls into the very
                  \*                 millisecond in which the sync started

AllModes   == {"sync", "index"}
AllHazards == {"unreadable", "sameTick"}

ASSUME LiveIndexAssumption ==
    /\ Absent \notin Contents
    /\ NoFile \notin Files
    /\ MaxEdits \in Nat
    /\ MaxFaults \in Nat
    /\ MaxCliRuns \in Nat
    /\ CliModes \subseteq AllModes
    /\ Hazards \subseteq AllHazards

VARIABLES
    disk,         \* Files -> [content, mtime]: the working tree
    stamp,        \* the latest modification time handed out
    row,          \* Files -> [hash, mtime]: the `files` table
    up,           \* the server process runs
    undelivered,  \* files with a change event the OS has not delivered yet
    pending,      \* FileWatcher.pendingFiles
    late,         \* the pending files with lastSeenMs > syncStartedMs
    ticked,       \* Date.now() > syncStartedMs
    timer,        \* FileWatcher.debounceTimer is set
    pc,           \* progress of each caller through sync()
    mode,         \* what the CLI is running
    work,         \* the run that holds the lock: files to index, current file
    baseline,     \* a sync of this server process has completed
    gate,         \* the catch-up promise has settled
    faults, cliRuns

watchVars == <<undelivered, pending, late, ticked, timer>>
runVars   == <<pc, work, mode, cliRuns>>
vars == <<disk, stamp, row, up, undelivered, pending, late, ticked, timer,
          pc, mode, work, baseline, gate, faults, cliRuns>>

Server  == {"watch", "catchup"}
Callers == Server \cup {"cli"}

\* idle      not syncing
\* queued    called sync(): waits for the Mutex, then tries the FileLock
\* locked    holds Mutex and FileLock, has not scanned the tree yet
\* indexing  has scanned, indexes the files it found changed
PcStates == {"idle", "queued", "locked", "indexing"}

DiskContents == Contents \cup {Absent}
NoTime  == -1
Times   == Nat \cup {NoTime}
NoRow   == [hash |-> Absent, mtime |-> NoTime]

\* One file at a time: pick it and take the first of its two reads (stat,
\* content), take the second, store the result.
Steps  == {"pick", "second", "store"}
NoWork == [todo |-> {}, file |-> NoFile, step |-> "pick",
           content |-> Absent, mtime |-> NoTime]

TreeTypes ==
    /\ disk \in [Files -> [content : DiskContents, mtime : Nat]]
    /\ stamp \in Nat

RowTypes == row \in [Files -> [hash : DiskContents, mtime : Times]]

WatchTypes ==
    /\ undelivered \in SUBSET Files
    /\ pending \in SUBSET Files
    /\ late \in SUBSET pending
    /\ ticked \in BOOLEAN
    /\ timer \in BOOLEAN

PcTypes == pc \in [Callers -> PcStates] /\ mode \in AllModes

WorkTypes ==
    /\ work \in [todo : SUBSET Files, file : Files \cup {NoFile}, step : Steps,
                 content : DiskContents, mtime : Times]
    /\ work.step = "pick" <=> work.file = NoFile

ServerTypes ==
    /\ up \in BOOLEAN
    /\ baseline \in BOOLEAN
    /\ gate \in BOOLEAN
    /\ faults \in Nat
    /\ cliRuns \in Nat

\* Types; an entry that is late is pending, and a run between two files has none.
TypeOK ==
    /\ TreeTypes
    /\ RowTypes
    /\ WatchTypes
    /\ PcTypes
    /\ WorkTypes
    /\ ServerTypes

----------------------------------------------------------------------------
(* Derived state. *)

Present(f)  == disk[f].content # Absent
Reflects(f) == row[f].hash = disk[f].content
HoldsLock(c) == pc[c] \in {"locked", "indexing"}

\* sync's cheap pre-filter: a tracked file whose mtime matches is skipped.
PrefilterSkips(f) == row[f] # NoRow /\ row[f].mtime = disk[f].mtime

\* What the scan of a sync puts on the list of files to index.
NeedsIndex(f) == /\ Present(f)
                 /\ ~PrefilterSkips(f)
                 /\ row[f] = NoRow \/ row[f].hash # disk[f].content

\* Mutant: a sync that reads the content before it stats the file.
ReadsFirstAlways(c) == c \in Callers

\* `omniweave index` reads before it stats; a sync stats before it reads.
ReadsFirst(c) == c = "cli" /\ mode = "index"

\* Files that may turn out unreadable (locked by an editor, a parser failure).
Unreadable == IF "unreadable" \in Hazards THEN Files ELSE {}

Init ==
    /\ disk \in [Files -> [content : DiskContents, mtime : {0}]]
    /\ stamp = 0
    /\ row = [f \in Files |-> NoRow]
    /\ up = FALSE
    /\ undelivered = {} /\ pending = {} /\ late = {}
    /\ ticked = FALSE /\ timer = FALSE
    /\ pc = [c \in Callers |-> "idle"]
    /\ mode = "sync"
    /\ work = NoWork
    /\ baseline = FALSE /\ gate = FALSE
    /\ faults = 0 /\ cliRuns = 0

----------------------------------------------------------------------------
(* The working tree and the operating system. *)

\* Somebody creates, changes, touches or deletes a file.  A running watcher
\* will get an event for it.
Edit(f) ==
    /\ stamp < MaxEdits
    /\ stamp' = stamp + 1
    /\ \E c \in DiskContents :
          /\ Present(f) \/ c # Absent
          /\ disk' = [disk EXCEPT ![f] = [content |-> c, mtime |-> stamp + 1]]
    /\ undelivered' = IF up THEN undelivered \cup {f} ELSE undelivered
    /\ UNCHANGED <<row, up, pending, late, ticked, timer, runVars, baseline,
                   gate, faults>>

\* The wall clock leaves the millisecond in which the sync in flight started.
ClockTick ==
    /\ pc["watch"] # "idle" /\ ~ticked
    /\ ticked' = TRUE
    /\ UNCHANGED <<disk, stamp, row, up, undelivered, pending, late, timer,
                   runVars, baseline, gate, faults>>

----------------------------------------------------------------------------
(* The server process: FileWatcher and MCPEngine. *)

\* doInitialize: open the project, install the watcher, start the catch-up.
Start ==
    /\ ~up
    /\ up' = TRUE
    /\ pc' = [pc EXCEPT !["catchup"] = "queued"]
    /\ baseline' = FALSE /\ gate' = FALSE
    /\ UNCHANGED <<disk, stamp, row, watchVars, work, mode, cliRuns, faults>>

\* Mutant: an event that arrives while a sync runs is taken to be covered.
RecordedIfIdle(f) == IF pc["watch"] = "idle" THEN pending \cup {f} ELSE pending

\* pendingFiles after an event for f.
Recorded(f) == pending \cup {f}

\* Mutant: firstSeenMs instead of lastSeenMs is compared with syncStartedMs.
ArrivesLateIfNew(f) == pc["watch"] # "idle" /\ ticked /\ f \notin pending

\* The event is younger than the start of the sync in flight.
ArrivesLate(f) == pc["watch"] # "idle" /\ ticked

\* handleChange: record the file as pending and restart the debounce timer.
HandleChange(f) ==
    /\ up /\ f \in undelivered
    /\ undelivered' = undelivered \ {f}
    /\ pending' = Recorded(f)
    /\ late' = IF ArrivesLate(f) THEN late \cup {f} ELSE late
    /\ timer' = TRUE
    /\ UNCHANGED <<disk, stamp, row, up, ticked, runVars, baseline, gate, faults>>

\* The debounce timer fires and flush() starts a sync, unless one is running.
Flush ==
    /\ timer
    /\ timer' = FALSE
    /\ IF pc["watch"] = "idle"
       THEN /\ pc' = [pc EXCEPT !["watch"] = "queued"]
            /\ late' = {} /\ ticked' = FALSE
       ELSE UNCHANGED <<pc, late, ticked>>
    /\ UNCHANGED <<disk, stamp, row, up, undelivered, pending, work, mode,
                   cliRuns, baseline, gate, faults>>

\* Mutant: flush() relies on the debounce timer alone.
NeverReschedules(p) == FALSE

\* flush()'s finally block schedules another pass if files are still pending.
Reschedules(p) == p # {}

\* flush()'s finally block: p is what pendingFiles is left with.
FlushEnds(p) ==
    /\ pending' = p
    /\ timer' = (timer \/ Reschedules(p))
    /\ late' = {}

\* Mutant: pendingFiles is cleared by every sync that succeeded.
NothingSurvives == {}

\* What a sync that succeeded leaves in pendingFiles: lastSeenMs > syncStartedMs.
SurvivesSync == pending \cap late

\* Mutant: pendingFiles is cleared even when the lock was not available.
NothingKept == {}

\* What a failed sync leaves in pendingFiles.
KeptOnFailure == pending

----------------------------------------------------------------------------
(* sync() and indexAll(). *)

\* The Mutex is free (for a server caller) and no process holds the FileLock.
AcquireLock(c) ==
    /\ pc[c] = "queued"
    /\ \A d \in Callers : ~HoldsLock(d)
    /\ pc' = [pc EXCEPT ![c] = "locked"]
    /\ UNCHANGED <<disk, stamp, row, up, watchVars, work, mode, cliRuns,
                   baseline, gate, faults>>

\* The sync of caller c ends without having succeeded.  The watcher keeps its
\* pending files and tries again; the catch-up only logs, and its gate opens.
GiveUp(c) ==
    /\ pc' = [pc EXCEPT ![c] = "idle"]
    /\ IF c = "watch" THEN FlushEnds(KeptOnFailure)
                      ELSE UNCHANGED <<pending, timer, late>>
    /\ gate' = (gate \/ c = "catchup")
    /\ UNCHANGED <<undelivered, ticked>>

\* Another process holds the FileLock: lockUnavailable.  (A caller of the same
\* process would still be waiting for the Mutex.)
LockUnavailable(c) ==
    /\ pc[c] = "queued"
    /\ \E d \in Callers : HoldsLock(d) /\ (c \in Server <=> d = "cli")
    /\ GiveUp(c)
    /\ UNCHANGED <<disk, stamp, row, up, work, mode, cliRuns, baseline, faults>>

\* The synchronous reconcile of sync(), or the scan and prune of indexAll():
\* drop the rows of files that are gone, list the files to index.
Scan(c) ==
    /\ pc[c] = "locked"
    /\ c # "watch" \/ ticked \/ "sameTick" \in Hazards
    /\ \E skipped \in SUBSET Unreadable :
          work' = [NoWork EXCEPT !.todo =
                     {f \in Files \ skipped :
                        IF ReadsFirst(c) THEN Present(f) ELSE NeedsIndex(f)}]
    /\ row' = [f \in Files |-> IF Present(f) THEN row[f] ELSE NoRow]
    /\ pc' = [pc EXCEPT ![c] = "indexing"]
    /\ UNCHANGED <<disk, stamp, up, watchVars, mode, cliRuns, baseline, gate, faults>>

\* First read of the next file: fsp.stat in a sync, the content in indexAll.
\* A file that has gone meanwhile is a read_error: it is left out.
BeginFile(c) ==
    /\ pc[c] = "indexing" /\ work.step = "pick"
    /\ \E f \in work.todo :
          work' = IF Present(f)
                  THEN [todo |-> work.todo \ {f}, file |-> f, step |-> "second",
                        content |-> IF ReadsFirst(c) THEN disk[f].content ELSE Absent,
                        mtime |-> IF ReadsFirst(c) THEN NoTime ELSE disk[f].mtime]
                  ELSE [work EXCEPT !.todo = work.todo \ {f}]
    /\ UNCHANGED <<disk, stamp, row, up, watchVars, pc, mode, cliRuns, baseline,
                   gate, faults>>

\* Done with work.file, whether or not it was stored.
NextFile == [NoWork EXCEPT !.todo = work.todo]

\* Second read of the file: the content in a sync, fsp.stat in indexAll.
ReadFile(c) ==
    /\ pc[c] = "indexing" /\ work.step = "second"
    /\ LET f == work.file IN
          \/ /\ Present(f)
             /\ work' = [work EXCEPT
                           !.step = "store",
                           !.content = IF ReadsFirst(c) THEN @ ELSE disk[f].content,
                           !.mtime = IF ReadsFirst(c) THEN disk[f].mtime ELSE @]
          \/ /\ ~Present(f) \/ f \in Unreadable
             /\ work' = NextFile
    /\ UNCHANGED <<disk, stamp, row, up, watchVars, pc, mode, cliRuns, baseline,
                   gate, faults>>

\* storeExtractionResult: nothing to do if the stored hash is the same.
StoreFile(c) ==
    /\ pc[c] = "indexing" /\ work.step = "store"
    /\ row' = IF row[work.file] # NoRow /\ row[work.file].hash = work.content
              THEN row
              ELSE [row EXCEPT ![work.file] =
                       [hash |-> work.content, mtime |-> work.mtime]]
    /\ work' = NextFile
    /\ UNCHANGED <<disk, stamp, up, watchVars, pc, mode, cliRuns, baseline,
                   gate, faults>>

\* sync() returns.  The watcher forgets the pending files whose latest event
\* is not younger than the start of this sync.
Finish(c) ==
    /\ pc[c] = "indexing" /\ work.step = "pick" /\ work.todo = {}
    /\ pc' = [pc EXCEPT ![c] = "idle"]
    /\ work' = NoWork
    /\ IF c = "watch" THEN FlushEnds(SurvivesSync)
                      ELSE UNCHANGED <<pending, timer, late>>
    /\ baseline' = (baseline \/ c \in Server)
    /\ gate' = (gate \/ c = "catchup")
    /\ UNCHANGED <<disk, stamp, row, up, undelivered, ticked, mode, cliRuns, faults>>

\* The stores of a row are several transactions: a process that dies or throws
\* in storeExtractionResult may leave the old row deleted and no new one.
TornRows ==
    {row} \cup
    (IF work.step = "store" /\ row[work.file].hash # work.content
     THEN {[row EXCEPT ![work.file] = NoRow]}
     ELSE {})

\* sync() throws after it took the lock (a failing statement, a full disk).
SyncThrows(c) ==
    /\ HoldsLock(c) /\ faults < MaxFaults
    /\ faults' = faults + 1
    /\ row' \in TornRows
    /\ work' = NoWork
    /\ GiveUp(c)
    /\ UNCHANGED <<disk, stamp, up, mode, cliRuns, baseline>>

----------------------------------------------------------------------------
(* The command line, and processes that die. *)

CliStart ==
    /\ pc["cli"] = "idle" /\ cliRuns < MaxCliRuns
    /\ cliRuns' = cliRuns + 1
    /\ mode' \in CliModes
    /\ pc' = [pc EXCEPT !["cli"] = "queued"]
    /\ UNCHANGED <<disk, stamp, row, up, watchVars, work, baseline, gate, faults>>

\* The server dies.  Its FileLock is stale: the next acquire() takes it over.
Crash ==
    /\ up /\ faults < MaxFaults
    /\ faults' = faults + 1
    /\ up' = FALSE
    /\ IF \E c \in Server : HoldsLock(c)
       THEN row' \in TornRows /\ work' = NoWork
       ELSE UNCHANGED <<row, work>>
    /\ pc' = [c \in Callers |-> IF c \in Server THEN "idle" ELSE pc[c]]
    /\ undelivered' = {} /\ pending' = {} /\ late' = {}
    /\ ticked' = FALSE /\ timer' = FALSE
    /\ baseline' = FALSE /\ gate' = FALSE
    /\ UNCHANGED <<disk, stamp, mode, cliRuns>>

CliDies ==
    /\ HoldsLock("cli") /\ faults < MaxFaults
    /\ faults' = faults + 1
    /\ row' \in TornRows
    /\ pc' = [pc EXCEPT !["cli"] = "idle"]
    /\ work' = NoWork
    /\ UNCHANGED <<disk, stamp, up, watchVars, mode, cliRuns, baseline, gate>>

----------------------------------------------------------------------------
SyncStep(c) ==
    \/ AcquireLock(c)
    \/ LockUnavailable(c)
    \/ Scan(c)
    \/ BeginFile(c)
    \/ ReadFile(c)
    \/ StoreFile(c)
    \/ Finish(c)

Next ==
    \/ \E f \in Files : Edit(f) \/ HandleChange(f)
    \/ ClockTick
    \/ Start
    \/ Flush
    \/ \E c \in Callers : SyncStep(c) \/ SyncThrows(c)
    \/ CliStart
    \/ Crash
    \/ CliDies

\* The OS delivers every event, timers fire, time passes, the event loop runs
\* every continuation, and the client starts its server again.  Nothing makes
\* anybody edit a file, run the CLI or crash.
Fairness ==
    /\ \A f \in Files : WF_vars(HandleChange(f))
    /\ WF_vars(ClockTick)
    /\ WF_vars(Flush)
    /\ WF_vars(Start)
    /\ \A c \in Callers : WF_vars(SyncStep(c))

Spec     == Init /\ [][Next]_vars
FairSpec == Spec /\ Fairness

----------------------------------------------------------------------------
(* Properties. *)

\* The (size, mtime) pre-filter never hides a change: a row whose recorded
\* time is the file's time also has the file's content, whatever was written
\* while a sync or a CLI run was reading, however processes died.
PrefilterSound ==
    \A f \in Files : PrefilterSkips(f) => Reflects(f)

\* The contract of the staleness banner: once a sync of this server process
\* has completed, a file whose row does not reflect the disk is in
\* pendingFiles, or the OS still has an event for it.  No order of edits,
\* events, debounce timers, syncs and foreign writers makes a file look fresh
\* that is not.
FreshOrFlagged ==
    up /\ baseline =>
        \A f \in Files : Reflects(f) \/ f \in pending \/ f \in undelivered

\* PendingFile.indexing: a pending file whose last event is older than the
\* sync in flight is one that this very sync brings up to date; it does not
\* need another.
IndexingFlagHonest ==
    pc["watch"] = "indexing" =>
        \A f \in pending \ late :
            \/ Reflects(f)
            \/ f \in undelivered
            \/ f \in work.todo \cup {work.file}

\* A flag is taken off a file only by a sync that brought the file up to date
\* (or saw it change again, so that its next event is on the way).
FlagClearedByCoveringSync ==
    [][\A f \in Files : f \in pending /\ f \notin pending' /\ up'
                        => Reflects(f)' \/ f \in undelivered']_vars

\* engine.ts: the first tool call waits for the catch-up, which reconciles
\* the index with everything that changed while no server ran.
FirstCallCaughtUp ==
    up /\ gate =>
        \A f \in Files : Reflects(f) \/ f \in pending \/ f \in undelivered

\* Once a sync of the server has completed for good (no later restart of the
\* server), the index ends up equal to the tree when edits stop, and no flag
\* is left: no event, retry or debounce is lost on the way, however often the
\* lock was taken.
Convergence == <>[]baseline => <>[](\A f \in Files : Reflects(f) /\ f \notin pending)
============================================================================
