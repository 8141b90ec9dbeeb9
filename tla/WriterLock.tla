----------------------------- MODULE WriterLock -----------------------------
(***************************************************************************)
(* Who may write the index: the Mutex that queues the callers of one       *)
(* process, and the lock file (FileLock) between processes, one system     *)
(* call at a time.  A caller is one call of indexAll, sync or indexFiles.  *)
(*                                                                         *)
(* acquire() and release() of FileLock are synchronous: within a process   *)
(* nothing interleaves with them but the entry of callers, which only      *)
(* queues them.  The pids of live processes differ, and a pid is not used  *)
(* again.                                                                  *)
(***************************************************************************)
EXTENDS Integers, Sequences, FiniteSets

CONSTANTS
    Procs,          \* processes with the project open
    Callers,        \* calls of a writing operation
    Home,           \* Callers -> the process of the call
    IndexFiles,     \* the calls of indexFiles
    Past,           \* processes that died before, perhaps with the lock
    None,           \* no lock file, or one that could not be read
    Empty,          \* a lock file without a pid
    MaxCrashes      \* bound: processes killed

ASSUME WriterLockAssumption ==
    /\ Home \in [Callers -> Procs]
    /\ IndexFiles \subseteq Callers
    /\ Past \subseteq Procs
    /\ None \notin Procs /\ Empty \notin Procs /\ None # Empty
    /\ MaxCrashes \in Nat

VARIABLES
    pc,             \* Callers -> what the call does next
    locked,         \* Procs -> Mutex.locked
    waitQueue,      \* Procs -> the callers whose resolve is in Mutex.waitQueue
    held,           \* Procs -> FileLock.held
    seen,           \* Procs -> what acquire() read in the lock file, until it checked it
    closing,        \* Procs -> progress of OmniWeave.close()
    lockfile,       \* None or the process that created omniweave.lock
    written,        \* the lock file carries the pid of its creator
    crashes,
    raced           \* history: see Contended

vars == <<pc, locked, waitQueue, held, seen, closing, lockfile, written, crashes, raced>>

fileVars == <<lockfile, written>>
mutexVars == <<locked, waitQueue>>

Acquiring == {"exists", "read", "check", "unlinkStale", "unlinkAgain", "create", "write"}
Inside == Acquiring \cup {"working", "reread", "unlinkOwn", "leave"}
States == Inside \cup {"idle", "asking", "waiting", "done", "dead"}

\* Types.
TypeOK ==
    /\ pc \in [Callers -> States]
    /\ locked \in [Procs -> BOOLEAN]
    /\ waitQueue \in [Procs -> Seq(Callers)]
    /\ held \in [Procs -> BOOLEAN]
    /\ seen \in [Procs -> Procs \cup {None, Empty}]
    /\ closing \in [Procs -> {"open", "unlinkOwn", "closed", "dead"}]
    /\ lockfile \in Procs \cup {None}
    /\ written \in BOOLEAN /\ (written => lockfile # None)
    /\ crashes \in 0..MaxCrashes
    /\ raced \in BOOLEAN

Init ==
    /\ pc = [c \in Callers |-> "idle"]
    /\ locked = [p \in Procs |-> FALSE]
    /\ waitQueue = [p \in Procs |-> <<>>]
    /\ held = [p \in Procs |-> FALSE]
    /\ seen = [p \in Procs |-> None]
    /\ closing = [p \in Procs |-> IF p \in Past THEN "dead" ELSE "open"]
    /\ lockfile \in Past \cup {None}
    /\ written \in {FALSE, lockfile # None}
    /\ crashes = 0
    /\ raced = FALSE

isProcessAlive(p) == closing[p] # "dead"

\* What a read of the lock file returns.
Content == IF lockfile # None /\ ~written THEN Empty ELSE lockfile

\* The call runs: its process is not in close(), which is synchronous.
Running(c) == closing[Home[c]] \in {"open", "closed"}

Unlink == lockfile' = None /\ written' = FALSE

Goto(c, from, to) == pc[c] = from /\ Running(c) /\ pc' = [pc EXCEPT ![c] = to]

----------------------------------------------------------------------------
(* Mutex.withLock *)

Call(c) ==
    /\ Goto(c, "idle", "asking")
    /\ UNCHANGED <<mutexVars, held, seen, closing, fileVars, crashes, raced>>

\* Mutant: a waiter that was woken does not look at the lock again.
TakenForNewcomer(c) == locked[Home[c]] /\ waitQueue[Home[c]] = <<>>

MustWait(c) == locked[Home[c]]

\* while (this.locked): wait; then this.locked = true.
Ask(c) ==
    LET p == Home[c] IN
    /\ Goto(c, "asking", IF MustWait(c) THEN "waiting" ELSE "exists")
    /\ waitQueue' = IF MustWait(c) THEN [waitQueue EXCEPT ![p] = Append(@, c)] ELSE waitQueue
    /\ locked' = [locked EXCEPT ![p] = TRUE]
    /\ UNCHANGED <<held, seen, closing, fileVars, crashes, raced>>

\* Mutant: nobody is woken while other callers wait behind.
WokenIfAlone(p) == IF Len(waitQueue[p]) = 1 THEN {Head(waitQueue[p])} ELSE {}

\* The waiter whose resolve is called.
Woken(p) == IF waitQueue[p] = <<>> THEN {} ELSE {Head(waitQueue[p])}

\* The release function of the mutex.
Leave(c) ==
    LET p == Home[c] IN
    /\ pc[c] = "leave" /\ Running(c)
    /\ pc' = [d \in Callers |-> IF d = c THEN "done" ELSE IF d \in Woken(p) THEN "asking" ELSE pc[d]]
    /\ locked' = [locked EXCEPT ![p] = FALSE]
    /\ waitQueue' = [waitQueue EXCEPT ![p] = IF @ = <<>> THEN @ ELSE Tail(@)]
    /\ UNCHANGED <<held, seen, closing, fileVars, crashes, raced>>

----------------------------------------------------------------------------
(* FileLock.acquire *)

Exists(c) ==
    /\ Goto(c, "exists", IF lockfile = None THEN "create" ELSE "read")
    /\ UNCHANGED <<mutexVars, held, seen, closing, fileVars, crashes, raced>>

\* readFileSync: if the file is gone, the catch block unlinks all the same.
Read(c) ==
    /\ Goto(c, "read", IF lockfile = None THEN "unlinkAgain" ELSE "check")
    /\ seen' = [seen EXCEPT ![Home[c]] = Content]
    /\ raced' = (raced \/ lockfile = None)
    /\ UNCHANGED <<mutexVars, held, closing, fileVars, crashes>>

\* The lock file is about to be removed though its creator is writing it, though it
\* changed since it was read, or while another process is removing it too.
Contended(c) ==
    \/ seen[Home[c]] = Empty
    \/ seen[Home[c]] # Content
    \/ \E d \in Callers : Home[d] # Home[c] /\ pc[d] \in {"unlinkStale", "unlinkAgain"}

\* kill(pid, 0); a live holder makes acquire() throw.
Check(c) ==
    LET holder == seen[Home[c]]
        refused == holder \in Procs /\ isProcessAlive(holder)
    IN  /\ Goto(c, "check", IF refused THEN "leave" ELSE "unlinkStale")
        /\ raced' = (raced \/ (~refused /\ Contended(c)))
        /\ seen' = [seen EXCEPT ![Home[c]] = None]
        /\ UNCHANGED <<mutexVars, held, closing, fileVars, crashes>>

\* If this unlink fails, the catch block unlinks again.
UnlinkStale(c) ==
    /\ Goto(c, "unlinkStale", IF lockfile = None THEN "unlinkAgain" ELSE "create")
    /\ Unlink
    /\ UNCHANGED <<mutexVars, held, seen, closing, crashes, raced>>

UnlinkAgain(c) ==
    /\ Goto(c, "unlinkAgain", "create")
    /\ Unlink
    /\ UNCHANGED <<mutexVars, held, seen, closing, crashes, raced>>

\* Mutant: no wx flag, the lock file of another process is written over.
CreatedOver == TRUE

\* O_EXCL
CanCreate == lockfile = None

\* writeFileSync opens the file, and writes afterwards.
Create(c) ==
    /\ Goto(c, "create", IF CanCreate THEN "write" ELSE "leave")
    /\ lockfile' = IF CanCreate THEN Home[c] ELSE lockfile
    /\ written' = (written /\ ~CanCreate)
    /\ UNCHANGED <<mutexVars, held, seen, closing, crashes, raced>>

\* indexFiles returns the promise of its work: finally runs before the work is done.
Unawaited(c) == c \in IndexFiles

\* The pid goes to the file that was opened, which may have been unlinked meanwhile.
StillThere(p) == lockfile = p

\* acquire() succeeds.
Write(c) ==
    /\ Goto(c, "write", IF Unawaited(c) THEN "reread" ELSE "working")
    /\ written' = (written \/ StillThere(Home[c]))
    /\ held' = [held EXCEPT ![Home[c]] = TRUE]
    /\ UNCHANGED <<mutexVars, seen, closing, lockfile, crashes, raced>>

\* The write fails (no space): acquire() throws, and the empty file stays.
WriteFails(c) ==
    /\ Goto(c, "write", "leave")
    /\ UNCHANGED <<mutexVars, held, seen, closing, fileVars, crashes, raced>>

----------------------------------------------------------------------------
(* The operation, and FileLock.release in its finally block. *)

AfterRelease(c) == IF Unawaited(c) THEN "working" ELSE "leave"

Finish(c) ==
    /\ Goto(c, "working", IF Unawaited(c) THEN "leave" ELSE "reread")
    /\ UNCHANGED <<mutexVars, held, seen, closing, fileVars, crashes, raced>>

\* Mutant: the lock file is left to whoever finds it.
NotMine(p) == FALSE

Mine(p) == lockfile = p /\ written

\* release(): nothing if the lock is not held, else read, and unlink one's own.
Reread(c) ==
    LET p == Home[c]
        own == held[p] /\ Mine(p)
    IN  /\ Goto(c, "reread", IF own THEN "unlinkOwn" ELSE AfterRelease(c))
        /\ held' = [held EXCEPT ![p] = own]
        /\ UNCHANGED <<mutexVars, seen, closing, fileVars, crashes, raced>>

UnlinkOwn(c) ==
    /\ Goto(c, "unlinkOwn", AfterRelease(c))
    /\ Unlink
    /\ held' = [held EXCEPT ![Home[c]] = FALSE]
    /\ UNCHANGED <<mutexVars, seen, closing, crashes, raced>>

----------------------------------------------------------------------------
(* OmniWeave.close, while no call of the process is in a synchronous part *)

Close(p) ==
    LET own == held[p] /\ Mine(p) IN
    /\ closing[p] = "open"
    /\ \A c \in Callers : Home[c] = p => pc[c] \notin Inside \/ pc[c] = "working"
    /\ closing' = [closing EXCEPT ![p] = IF own THEN "unlinkOwn" ELSE "closed"]
    /\ held' = [held EXCEPT ![p] = own]
    /\ UNCHANGED <<pc, mutexVars, seen, fileVars, crashes, raced>>

CloseUnlink(p) ==
    /\ closing[p] = "unlinkOwn"
    /\ closing' = [closing EXCEPT ![p] = "closed"]
    /\ Unlink
    /\ held' = [held EXCEPT ![p] = FALSE]
    /\ UNCHANGED <<pc, mutexVars, seen, crashes, raced>>

Crash(p) ==
    /\ isProcessAlive(p)
    /\ crashes < MaxCrashes
    /\ crashes' = crashes + 1
    /\ closing' = [closing EXCEPT ![p] = "dead"]
    /\ pc' = [c \in Callers |-> IF Home[c] = p THEN "dead" ELSE pc[c]]
    /\ locked' = [locked EXCEPT ![p] = FALSE]
    /\ waitQueue' = [waitQueue EXCEPT ![p] = <<>>]
    /\ held' = [held EXCEPT ![p] = FALSE]
    /\ UNCHANGED <<seen, fileVars, raced>>

----------------------------------------------------------------------------
Acquire(c) ==
    Exists(c) \/ Read(c) \/ Check(c) \/ UnlinkStale(c) \/ UnlinkAgain(c) \/ Create(c) \/ Write(c)

Step(c) == Ask(c) \/ Acquire(c) \/ Finish(c) \/ Reread(c) \/ UnlinkOwn(c) \/ Leave(c)

Next ==
    \/ \E c \in Callers : Call(c) \/ Step(c) \/ WriteFails(c)
    \/ \E p \in Procs : Close(p) \/ CloseUnlink(p) \/ Crash(p)

Spec == Init /\ [][Next]_vars

\* Every operation ends, and the event loop of a live process runs what is ready.
Fairness ==
    /\ \A c \in Callers : WF_vars(Step(c))
    /\ \A p \in Procs : WF_vars(CloseUnlink(p))

FairSpec == Spec /\ Fairness

----------------------------------------------------------------------------
(* Properties *)

\* The call writes the database: once close() has begun, it can no more.
Writes(c) == pc[c] = "working" /\ closing[Home[c]] = "open"

\* Within a process, one call at a time is past the mutex, which is locked exactly then
\* (index.ts:363, :457, :477); and callers wait only while it is locked or one that was
\* woken is about to take it, though a newcomer may take it first (utils.ts:364-380).
OneInside(p) ==
    /\ locked[p] <=> \E c \in Callers : Home[c] = p /\ pc[c] \in Inside
    /\ \A c, d \in Callers :
           Home[c] = p /\ Home[d] = p /\ pc[c] \in Inside /\ pc[d] \in Inside => c = d

NoLostWakeup(p) ==
    waitQueue[p] # <<>> => locked[p] \/ \E c \in Callers : Home[c] = p /\ pc[c] = "asking"

MutexSound == \A p \in Procs : OneInside(p) /\ NoLostWakeup(p)

\* Two processes write the index at once only if an acquire() removed a lock file in a
\* race, or for the work of indexFiles, which goes on after the lock is released
\* (utils.ts:226-234, index.ts:464).
OneWriter ==
    ~raced => \A c, d \in Callers \ IndexFiles : Writes(c) /\ Writes(d) => c = d

\* A live process that is doing nothing leaves no lock file with its pid: every other
\* process would be refused as long as it lives.
NothingLeftLocked ==
    \A p \in Procs : Content = p /\ isProcessAlive(p) => locked[p]

\* Every call ends, with the lock or without, whatever the other processes do, unless its
\* process is killed.
EveryCallEnds ==
    \A c \in Callers : pc[c] = "asking" ~> pc[c] \in {"done", "dead"}
=============================================================================
