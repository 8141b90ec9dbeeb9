---------------------------- MODULE ParseWorker ----------------------------
(***************************************************************************)
(* The parsing phase of a full index (indexAll of the orchestrator): files *)
(* go one by one to a worker thread that may crash, fail or hang; what a   *)
(* crash lost is parsed again, then once more with its comments stripped.  *)
(*                                                                         *)
(* A worker that is told to terminate, or that dies, is heard of once      *)
(* more: its exit event comes later, when another may be at work.  What it *)
(* posted before may still be delivered until then.  A request is named by *)
(* its file and pass, as a file is requested once in a pass.  The files    *)
(* are read in batches: other events may come between any two files.       *)
(***************************************************************************)
EXTENDS Integers, Sequences, FiniteSets

CONSTANTS
    Files,
    FileLevel,      \* files of a language without symbols (isFileLevelOnlyLanguage)
    Workers,        \* bound: worker threads that have not exited, at one time
    None,
    RecycleInterval \* WORKER_RECYCLE_INTERVAL

Passes == {"main", "retry", "strip"}
Requests == Files \X Passes

\* What a parse may give: all there is in the file; symbols, and errors or warnings beside
\* them, a caught memory error among them ("partial") or not ("flawed"); no symbols, with
\* only warnings or with errors.
Outcomes == {"symbols", "nothing", "flawed", "partial", "warnings", "errors"}
Whole    == {"symbols", "nothing"}
Storable == Whole \cup {"flawed", "partial"}

\* The entries of `errors` that a file may have; of the first ones filesErrored is the count.
ErrorKinds == {"read", "errors", "timeout", "error", "memory", "exited"}
Kinds      == ErrorKinds \cup {"flawed", "partial", "warnings", "size"}

\* What is kept of a file: the file that was parsed, and if all there is was found.
Kept == [from : Files, whole : BOOLEAN]

ASSUME ParseWorkerAssumption ==
    /\ IsFiniteSet(Files) /\ FileLevel \subseteq Files
    /\ None \notin Files \cup Workers \cup Kinds \cup Requests \cup Kept
    /\ RecycleInterval \in Nat \ {0}

VARIABLES
    pass,           \* "main", "retry" or "strip"
    at,             \* what the loop awaits
    file,           \* the file being parsed, or None
    result,         \* the file whose result waits to be stored after the stat, or None
    todo,           \* files left in this pass
    failing,        \* stillFailing
    parseWorker,    \* the current worker, or None
    count,          \* workerParseCount
    pending,        \* the request in pendingParses, or None
    wstate,         \* Workers -> state of the thread
    jobs,           \* Workers -> requests posted to it and not answered
    replies,        \* answers posted by workers and not delivered
    indexed, skipped, errored,      \* filesIndexed, filesSkipped, filesErrored
    errors,         \* the entry of `errors` for a file: kind or None
    stored,         \* Files -> what the index keeps of it, or None
    recovered,      \* history: Files -> the entry that a retry removed, or None
    aborted         \* signal.aborted

loopVars == <<pass, at, file, result, todo, failing>>
threadVars == <<wstate, jobs, replies>>
resultVars == <<indexed, skipped, errored, errors, stored, recovered>>
vars == <<loopVars, parseWorker, count, pending, threadVars, resultVars, aborted>>

Ended == {"done", "aborted", "threw"}
Alive == {"loading", "ready", "broken"}

\* Types; the request that is pending is the one the loop awaits.
TypeOK ==
    /\ pass \in Passes
    /\ at \in {"next", "load", "parse", "stat"} \cup Ended
    /\ file \in Files \cup {None}
    /\ result \in Files \cup {None}
    /\ todo \subseteq Files
    /\ failing \subseteq Files
    /\ parseWorker \in Workers \cup {None}
    /\ count \in 0..RecycleInterval
    /\ pending \in Requests \cup {None}
    /\ pending # None => at = "parse" /\ pending = <<file, pass>>
    /\ wstate \in [Workers -> Alive \cup {"exiting", "gone"}]
    /\ jobs \in [Workers -> Seq(Requests)]
    /\ replies \subseteq Workers \X Requests
    /\ indexed \in Nat /\ skipped \in Nat /\ errored \in Int
    /\ errors \in [Files -> Kinds \cup {None}]
    /\ stored \in [Files -> Kept \cup {None}]
    /\ recovered \in [Files -> Kinds \cup {None}]
    /\ aborted \in BOOLEAN

\* The first worker is spawned before the first file.
Init ==
    /\ pass = "main" /\ at = "load" /\ file = None /\ result = None
    /\ todo = Files
    /\ failing = {}
    /\ \E w \in Workers :
           /\ parseWorker = w
           /\ wstate = [v \in Workers |-> IF v = w THEN "loading" ELSE "gone"]
    /\ count = 0
    /\ pending = None
    /\ jobs = [w \in Workers |-> <<>>]
    /\ replies = {}
    /\ indexed = 0 /\ skipped = 0 /\ errored = 0
    /\ errors = [f \in Files |-> None]
    /\ stored = [f \in Files |-> None]
    /\ recovered = [f \in Files |-> None]
    /\ aborted = FALSE

----------------------------------------------------------------------------
(* The counts, and what becomes of a file. *)

\* The first pass is done with a file: what is stored of it, its entry, its count.
Settle(f, kept, kind, side) ==
    /\ stored' = [stored EXCEPT ![f] = kept]
    /\ errors' = [errors EXCEPT ![f] = kind]
    /\ indexed' = indexed + (IF side = "indexed" THEN 1 ELSE 0)
    /\ skipped' = skipped + (IF side = "skipped" THEN 1 ELSE 0)
    /\ errored' = errored + (IF side = "errored" THEN 1 ELSE 0)
    /\ UNCHANGED recovered

\* A file counts as errored, for this reason.
Errored(f, kind) == Settle(f, None, kind, "errored")

\* A framework extractor may fail on any file; a file that is tracked as such has no parse
\* that could hit a memory error.
OutcomesOf(f) == Outcomes \ (IF f \in FileLevel THEN {"partial"} ELSE {"warnings"})

\* The result of the first pass: stored if there are symbols or no errors; its errors are
\* reported in either case.
Counted(f, from, o) ==
    Settle(f, IF o \in Storable THEN [from |-> from, whole |-> o \in Whole] ELSE None,
              IF o \in Whole THEN None ELSE o,
              IF o = "errors" THEN "errored"
              ELSE IF o \in Storable \ {"nothing"} \/ f \in FileLevel THEN "indexed"
              ELSE "skipped")

\* A retry stores nothing where a result of the same text is stored already.
RetryStored(f, from) ==
    \/ \E whole \in BOOLEAN : stored' = [stored EXCEPT ![f] = [from |-> from, whole |-> whole]]
    \/ stored[f] # None /\ stored' = stored

\* Mutant: a retry that worked is counted again.
RetriedTwice(f, from) ==
    /\ RetryStored(f, from)
    /\ errors' = [errors EXCEPT ![f] = None]
    /\ recovered' = [recovered EXCEPT ![f] = errors[f]]
    /\ indexed' = indexed + 1
    /\ UNCHANGED <<errored, skipped>>

\* A retry worked: the entry is removed, and one file is moved from the errors to the
\* indexed - also one that was counted as indexed before.
Recovered(f, from) ==
    /\ RetryStored(f, from)
    /\ errors' = [errors EXCEPT ![f] = None]
    /\ recovered' = [recovered EXCEPT ![f] = errors[f]]
    /\ errored' = errored - 1
    /\ indexed' = indexed + 1
    /\ UNCHANGED skipped

\* The database may fail while a file is stored: indexAll rejects, the worker is left alone.
StoreThrows == at' = "threw" /\ UNCHANGED resultVars

\* The promise of requestParse resolves; retries wait for a stat before they store.
Resolve(from, o) ==
    \/ /\ pass = "main" /\ at' = "next" /\ file' = None /\ Counted(file, from, o)
       /\ UNCHANGED result
    \/ pass = "main" /\ o \in Storable /\ StoreThrows /\ UNCHANGED <<file, result>>
    \/ /\ pass # "main" /\ UNCHANGED resultVars
       /\ IF o \in Storable
          THEN at' = "stat" /\ result' = from /\ UNCHANGED file
          ELSE at' = "next" /\ file' = None /\ UNCHANGED result

AfterReject == None

\* The promise of requestParse rejects.
Reject(kind) ==
    /\ pending' = AfterReject
    /\ at' = "next" /\ file' = None
    /\ IF pass = "main" THEN Errored(file, kind) ELSE UNCHANGED resultVars
    /\ failing' = IF pass = "retry" THEN failing \cup {file} ELSE failing
    /\ UNCHANGED <<pass, result, todo>>

----------------------------------------------------------------------------
(* requestParse, ensureWorker, recycleWorker *)

\* Mutant: the worker that is recycled goes on.
NotTerminated(W) == wstate

\* terminate(): the thread ends, and its exit event follows.
Terminated(W) == [w \in Workers |-> IF w \in W /\ wstate[w] \in Alive THEN "exiting" ELSE wstate[w]]

\* postMessage: a thread that is ending takes no more requests.
Post(w, r, ws) ==
    /\ pending' = r
    /\ at' = "parse"
    /\ jobs' = IF ws[w] \in Alive THEN [jobs EXCEPT ![w] = Append(@, r)] ELSE jobs

Drops(recycle) == recycle \/ count >= RecycleInterval

\* With or without a recycling first, on the current worker or on a new one.
Request(f, recycle) ==
    LET drop == Drops(recycle)
        ws == IF drop THEN Terminated({parseWorker}) ELSE wstate
    IN  /\ file' = f
        /\ IF parseWorker # None /\ ~drop
           THEN /\ Post(parseWorker, <<f, pass>>, wstate)
                /\ count' = count + 1
                /\ UNCHANGED <<parseWorker, wstate>>
           ELSE \E w \in Workers :
                /\ ws[w] = "gone"
                /\ wstate' = [ws EXCEPT ![w] = "loading"]
                /\ parseWorker' = w
                /\ count' = 0
                /\ at' = "load"
                /\ UNCHANGED <<pending, jobs>>
        /\ UNCHANGED replies

----------------------------------------------------------------------------
(* The loop over the files of a pass. *)

Take(f) ==
    /\ at = "next" /\ f \in todo /\ ~aborted
    /\ todo' = todo \ {f}
    /\ UNCHANGED <<pass, result, failing, aborted>>

Parse(f) ==
    /\ Take(f)
    /\ Request(f, pass # "main")
    /\ UNCHANGED resultVars

\* The file cannot be read: an error in the first pass, no change in the others, which
\* have recycled the worker by then.
ReadFails(f) ==
    /\ Take(f)
    /\ UNCHANGED <<at, file, pending, jobs, replies>>
    /\ IF pass = "main"
       THEN Errored(f, "read") /\ UNCHANGED <<parseWorker, count, wstate>>
       ELSE /\ wstate' = Terminated({parseWorker})
            /\ parseWorker' = None
            /\ count' = IF parseWorker = None THEN count ELSE 0
            /\ UNCHANGED resultVars

\* Larger than MAX_FILE_SIZE: a row without symbols is stored, with a warning.
TooLarge(f) ==
    /\ pass = "main" /\ Take(f)
    /\ \/ /\ Settle(f, [from |-> f, whole |-> FALSE], "size", "skipped")
          /\ UNCHANGED <<at, file>>
       \/ StoreThrows /\ file' = f
    /\ UNCHANGED <<parseWorker, count, pending, threadVars>>

\* stat after the retry, and the store: if either fails, indexAll rejects.
Stat(ok) ==
    /\ at = "stat"
    /\ result' = None
    /\ IF ok THEN at' = "next" /\ file' = None /\ Recovered(file, result)
             ELSE StoreThrows /\ UNCHANGED file
    /\ UNCHANGED <<pass, todo, failing, parseWorker, count, pending, threadVars, aborted>>

\* The entries whose message names a memory error or a worker that exited, whether or not
\* the file counts as errored.
Retryable == {"exited", "memory", "partial"}

\* The worker is dropped when all is done, and when the first pass is aborted.
EndPass ==
    LET again == {f \in Files : errors[f] \in Retryable}
        next == IF pass = "main" THEN again ELSE IF pass = "retry" THEN failing ELSE {}
    IN  /\ at = "next" /\ (todo = {} \/ aborted)
        /\ IF pass = "main" /\ todo # {}
           THEN at' = "aborted" /\ UNCHANGED <<pass, todo>>
           ELSE /\ at' = IF next = {} THEN "done" ELSE "next"
                /\ todo' = IF next = {} THEN {} ELSE next
                /\ pass' = IF pass = "main" /\ next # {} THEN "retry"
                           ELSE IF pass = "retry" /\ next # {} THEN "strip" ELSE pass
        /\ wstate' = IF at' \in Ended THEN Terminated({parseWorker}) ELSE wstate
        /\ UNCHANGED <<file, result, failing, parseWorker, count, pending, jobs, replies,
                       resultVars, aborted>>

Abort ==
    /\ ~aborted /\ at \notin Ended
    /\ aborted' = TRUE
    /\ UNCHANGED <<loopVars, parseWorker, count, pending, threadVars, resultVars>>

----------------------------------------------------------------------------
(* What a worker thread does. *)

\* What the answer holds is told when it is delivered.
Answer(w) ==
    /\ wstate[w] = "ready" /\ jobs[w] # <<>>
    /\ replies' = replies \cup {<<w, Head(jobs[w])>>}
    /\ jobs' = [jobs EXCEPT ![w] = Tail(@)]
    /\ UNCHANGED <<loopVars, parseWorker, count, pending, wstate, resultVars, aborted>>

\* process.exit(1) on a WASM memory error, or an uncaught error, which is heard first.
\* Either may happen while the grammars load.
Die(w, how) ==
    /\ wstate[w] = "loading" \/ (wstate[w] = "ready" /\ jobs[w] # <<>>)
    /\ wstate' = [wstate EXCEPT ![w] = how]
    /\ UNCHANGED <<loopVars, parseWorker, count, pending, jobs, replies, resultVars, aborted>>

----------------------------------------------------------------------------
(* The event handlers of the main thread. *)

\* The first message of a worker: the loop goes on if it waits for this one.
GrammarsLoaded(w) ==
    /\ wstate[w] = "loading"
    /\ wstate' = [wstate EXCEPT ![w] = "ready"]
    /\ IF at # "load" THEN UNCHANGED <<at, pending, jobs, count>>
       ELSE IF file = None THEN at' = "next" /\ UNCHANGED <<pending, jobs, count>>
       ELSE Post(w, <<file, pass>>, wstate) /\ count' = count + 1
    /\ UNCHANGED <<pass, file, result, todo, failing, parseWorker, replies, resultVars, aborted>>

\* Mutant: an answer goes to the request that is pending, whatever its id.
Whatever(r) == pending # None

\* pendingParses.get(msg.id)
IsPending(r) == pending = r

Deliver(w, r) ==
    /\ <<w, r>> \in replies
    /\ replies' = replies \ {<<w, r>>}
    /\ IF IsPending(r)
       THEN pending' = None /\ \E o \in OutcomesOf(r[1]) : Resolve(r[1], o)
       ELSE UNCHANGED <<pending, at, file, result, resultVars>>
    /\ UNCHANGED <<pass, todo, failing, parseWorker, count, wstate, jobs, aborted>>

\* on('error'): every pending request is rejected, and the exit event follows.
OnError(w, kind) ==
    /\ wstate[w] = "broken"
    /\ wstate' = [wstate EXCEPT ![w] = "exiting"]
    /\ IF pending # None THEN Reject(kind) ELSE UNCHANGED <<loopVars, pending, resultVars>>
    /\ UNCHANGED <<parseWorker, count, jobs, replies, aborted>>

\* on('exit'): code 1, whether the thread died or was terminated; every pending request
\* is rejected, whichever worker it was posted to.
OnExit(w) ==
    /\ wstate[w] = "exiting"
    /\ wstate' = [wstate EXCEPT ![w] = "gone"]
    /\ jobs' = [jobs EXCEPT ![w] = <<>>]
    /\ replies' = {r \in replies : r[1] # w}
    /\ IF pending # None THEN Reject("exited") ELSE UNCHANGED <<loopVars, pending, resultVars>>
    /\ parseWorker' = IF parseWorker = w THEN None ELSE parseWorker
    /\ count' = IF parseWorker = w THEN 0 ELSE count
    /\ UNCHANGED aborted

\* Mutant: requests have no timer.
NoTimer == FALSE

TimerArmed == pending # None

Timeout ==
    /\ TimerArmed
    /\ Reject("timeout")
    /\ wstate' = Terminated({parseWorker})
    /\ parseWorker' = None
    /\ count' = 0
    /\ UNCHANGED <<jobs, replies, aborted>>

----------------------------------------------------------------------------
Loop == EndPass \/ (\E f \in Files : Parse(f)) \/ Stat(TRUE)

Events(w) ==
    \/ GrammarsLoaded(w)
    \/ \E r \in Requests : Deliver(w, r)
    \/ \E kind \in {"error", "memory"} : OnError(w, kind)
    \/ OnExit(w)

Next ==
    \/ Loop \/ Stat(FALSE) \/ Abort \/ Timeout
    \/ \E f \in Files : ReadFails(f) \/ TooLarge(f)
    \/ \E w \in Workers :
        \/ Events(w) \/ Answer(w)
        \/ \E how \in {"exiting", "broken"} : Die(w, how)

Spec == Init /\ [][Next]_vars

\* The event loop runs, the timer of a request fires if nothing else settles it, and
\* threads that are told to end do.
Fairness ==
    /\ WF_vars(Loop)
    /\ WF_vars(Timeout)
    /\ \A w \in Workers : WF_vars(Events(w))

FairSpec == Spec /\ Fairness

----------------------------------------------------------------------------
(* Properties *)

Sum3 == indexed + skipped + errored

\* The three counts add up to the files that the first pass has dealt with, whatever the
\* retries do; and filesErrored is the number of files reported as failed, less one for
\* every stored file whose memory error a retry removed: it was never counted as errored
\* (index.ts:1289-1316), but its entry is retried like the others (:1336-1339), moved from
\* the errors to the indexed (:1377-1378), and so counted as indexed twice.
CountsAddUp ==
    /\ Sum3 = Cardinality(Files) - (IF pass = "main" THEN Cardinality(todo) ELSE 0)
                                 - (IF pass = "main" /\ file # None THEN 1 ELSE 0)
    /\ errored = Cardinality({f \in Files : errors[f] \in ErrorKinds})
                   - Cardinality({f \in Files : recovered[f] = "partial"})

\* Not true: filesErrored is the number of files reported as failed (see above; it may even
\* be negative).
ErrorsCounted == errored = Cardinality({f \in Files : errors[f] \in ErrorKinds})

\* Once the first pass is over, a file is without a stored result exactly if its entry says
\* that there is none: nothing vanishes without being reported, and nothing is reported as
\* failed that is in the index.  What is stored was parsed from that file, retries and
\* answers to requests that were given up included; a result that is not whole has an entry,
\* unless a retry removed it (index.ts:1072-1081, :1240-1316, :1370-1382).  What a store
\* that threw left behind is not told.
StoredOrReported ==
    (pass # "main" /\ at # "threw") \/ at = "done" =>
        \A f \in Files :
            /\ stored[f] = None <=> errors[f] \in ErrorKinds \cup {"warnings"}
            /\ stored[f] # None =>
                /\ stored[f].from = f
                /\ stored[f].whole \/ errors[f] # None \/ recovered[f] # None

\* Not true: what is stored without an entry is whole.  A retry that worked removes the
\* entry though its own result may have errors, which are dropped, and though the store
\* does nothing where the same text is stored already (index.ts:1369-1382, :1683-1687).
UnreportedIsWhole ==
    at = "done" => \A f \in Files : stored[f] # None /\ errors[f] = None => stored[f].whole

\* No thread is left behind: whatever worker the loop no longer uses is on its way out,
\* and all are when the index is done.  Only a store or a stat that throws leaves
\* one (index.ts:1129-1137, :1166-1175, :1257, :1291, :1372-1373, :1440).
NoThreadLeft ==
    at # "threw" =>
        \A w \in Workers : wstate[w] \in Alive => w = parseWorker /\ at \notin Ended

\* The worker the loop waits for died while it loaded the grammars.
LoaderDied == at = "load" /\ (parseWorker = None \/ wstate[parseWorker] \in {"broken", "exiting"})

\* The index ends, one way or another, whatever the workers do - but for a worker that
\* dies before its first message, which nothing waits for (index.ts:1102-1117).
Ends == <>(at \in Ended \/ LoaderDied)
=============================================================================
