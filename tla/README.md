# OmniWeave in TLA+

OmniWeave parses a source tree, keeps the result as a graph in one SQLite file per project, and answers the questions of
coding agents about it over MCP. Several processes work on that file at once: a server with a file watcher, command line
runs, git hooks. Several hosts share one server through a socket. This directory holds TLA+ models of the parts where
these processes can disagree, TLC configurations that check them on small instances, and proofs, checked by TLAPS, of
the safety properties for every value of the constants.

Paths below are relative to `src/src/` unless they start with `src/`. To run something: `tlc -config MCProxy.cfg
MCProxy` (every configuration names its module by its prefix), `tlapm ProxyProofs.tla`. `PROJECT.json` lists runs,
mutants, findings, hazards, theorems, and for each definition the lines of the source it stands for.

Contents: 1 the system; 2 the modules; 3 runs and bounds; 4 fairness; 5 proofs; 6 where code and comments disagree;
7 what is not modelled; 8 plan.

## 1. The system

### Parts, their state, how they meet

| part | state it keeps | operations | talks to |
|---|---|---|---|
| `FileWatcher` (`sync/watcher.ts`) | `pendingFiles` (first and last event per file), `debounceTimer`, `syncing`, `syncStartedMs`, one inotify watch per directory | `start`, `handleChange`, `scheduleSync`, `flush`, `getPendingFiles`, `stop` | the OS (events), `OmniWeave.sync` (call), the tools (staleness banner) |
| sync pipeline (`index.ts`, `extraction/index.ts`) | none of its own: a `Mutex` per process, a lock file per project | `indexAll`, `sync`, `indexFiles`, `indexFile`, `storeExtractionResult` | disk (stat, read), database |
| engine (`mcp/engine.ts`) | the open project, the catch-up promise, the gate | `doInitialize`, `catchUpSync`, `retryInitializeSync`, `stop` | watcher, sync pipeline, tools |
| graph store (`db/`, `resolution/index.ts`) | tables `nodes`, `edges`, `unresolved_refs`, `files`, `content_fts` | transactions of the store, cascades, `resolveAndPersist`, `resolveAndPersistBatched` | sync pipeline, tools |
| proxy (`mcp/proxy.ts`) | `daemonStatus`, `pending`, `inflight`, `clientInitId` | `handleLocally`, `routeToDaemon`, `onDaemonLost`, `shutdown` | the host (stdio), the daemon (socket) |
| daemon election (`mcp/index.ts`, `mcp/daemon.ts`) | pidfile and socket file | `startDaemonProcess`, `tryAcquireDaemonLock`, `clearStaleDaemonLock`, `start`, `stop` | other candidates (files only) |
| daemon clients (`mcp/daemon.ts`) | `clients` with pids, idle timer, `lastActivityAt` | `handleConnection`, `dropClient`, `reapDeadClients`, `checkInactivity`, `stop` | proxies (socket) |
| session and tools (`mcp/session.ts`, `mcp/tools.ts`) | handshake state, roots request | `dispatch`, one handler per tool | transport, engine, graph |
| locks (`utils.ts`) | a lock file with a pid, a queue of waiters | `FileLock.acquire/release`, `Mutex.withLock` | every writer |
| parse worker (`extraction/index.ts`, `extraction/parse-worker.ts`) | the current thread, `pendingParses`, counts and errors of the run | `ensureWorker`, `requestParse`, `recycleWorker`, two retry passes | worker threads (messages, exits) |
| traversal (`graph/`) | none | BFS, DFS, callers, callees, impact, paths, hierarchy | graph (reads) |
| extraction, name matching, frameworks, synthesis | caches for the length of a run | text to nodes and references; names to nodes | sync pipeline |
| telemetry (`telemetry/index.ts`) | a queue file shared by processes, claim files | record, flush, recover | HTTP |
| search, context, SCIP, snapshots, installer, upgrade, CLI, UI | none that outlives a call | | |

A change on disk becomes an answer in this way: OS event → `handleChange` → debounce → `flush` → `sync` takes `Mutex`
and lock file → reconcile by size, time and hash → `indexFile` per changed file → `storeExtractionResult` → resolution →
`flush` clears the flags it can vouch for. At start-up the watcher has seen nothing, so the engine runs one catch-up
sync and lets the first tool call wait for it. Other processes do the same on the same database.

### What is hard, and what correctness means

- **Watcher and sync.** An event may fall before, into, or after the reads of the sync in flight; a sync may find the
  lock taken, throw, or die. Correct: no stale file looks fresh; a flag comes off only when a sync covered the file; in
  the end the index equals the tree; the cheap pre-filter never hides a change for good.
- **Graph store.** One file is stored by seven transactions, and edges of *other* files that the cascade removes live in
  a local variable meanwhile. Correct: a `files` row vouches for the file's part of the graph; edges of callers survive
  a re-index; no edge outlives its code; the tables agree, and no text is kept that must not be; a full index leaves
  nothing that it could have resolved.
- **Proxy.** A request may be buffered, in a socket, in a session, on its way back, or being executed locally when the
  daemon dies. Correct: each request of the host is answered exactly once.
- **Daemon election.** Candidates and predecessors act on two files by separate calls and may be killed between any two.
  Correct: one daemon at a time, it can be reached, and stale files block nobody.
- **Daemon clients.** Clients come without hello, die with sockets that never close, and race the idle timer. Correct:
  the timer runs exactly when nobody is counted; a client at work is not thrown out; an abandoned daemon ends, and a
  `stop()` comes to its end.
- **Watches on Linux.** The tree changes between the system calls of the walk that watches it. Correct: once the walk is
  over every directory has a watch, and what came with a new directory is noticed.
- **Engine.** Several sessions ask for the same project at once, an open may fail and be tried again, the database may be
  replaced. Correct: the project is open once, the watcher is that of the instance which answers, the first call waits
  for the catch-up, every call is answered.
- **Locks.** Callers queue in a process and meet over a file between processes, and may be killed between any two calls
  on it. Correct: one writer, no lost wake-up, nothing left locked by the living.
- **Parse worker.** A thread that was told to end is heard of when its successor is at work. Correct: the
  counts add up to the files; each file is stored or reported; no thread stays; the run ends.
- **Traversal.** Depth limits, visited sets and the order of edges interact. Correct: nothing missed, nothing too far, no
  silent truncation.
- **Not modelled**: the telemetry queue and the components of section 7.

## 2. The modules

| module | extends / instantiates | lines it stands for |
|---|---|---|
| `LiveIndex` | | `sync/watcher.ts`, sync and index paths of `index.ts` and `extraction/index.ts`, start-up of `mcp/engine.ts` |
| `GraphStore` | | `storeExtractionResult`, `db/schema.sql`, statements of `db/queries.ts`, `resolution/index.ts` |
| `SessionContract` | | abstract: what a host may rely on |
| `Proxy` | `SessionContract` by refinement mapping | `runLocalHandshakeProxy`, the session at the other end of the socket |
| `DaemonLock` | | election, takeover, the files in `Daemon.start` and `stop` |
| `DaemonClients` | | connections, refcount, timers and shutdown of `Daemon` |
| `WriterLock` | | `Mutex` and `FileLock` of `utils.ts`, their use in `index.ts` |
| `ParseWorker` | | the parsing phase of `ExtractionOrchestrator.indexAll` |
| `Engine` | | `mcp/engine.ts`, initialisation and tool calls of `mcp/session.ts`, the gate and reopening of `mcp/tools.ts` |
| `Traversal` | | `graph/traversal.ts`, `findCircularDependencies` of `graph/queries.ts` |
| `WatchTree` | | `watchTree`, `handleDirEvent`, `unwatchDir`, `start` and `stop` of `sync/watcher.ts` |
| `MC*` | the module after the prefix | values of constants for TLC |
| `DaemonProofs` | `DaemonLock`, `DaemonClients`, `Engine`, `TLAPS` | theorems about the daemon process |
| other `*Proofs` | the module before the suffix, `TLAPS` | theorems |

How they fit together. `LiveIndex` is the system seen from the watcher: it takes the exclusion of writers as given, which
`WriterLock` has in its steps; a sync's store as one step, which `GraphStore` has in its transactions; an event for each
edit, which `WatchTree` has as watches and walks; and a server that is up, which `Engine` has as the opening of the
project and the gate. `ParseWorker` is the first phase of a full index, whose results `GraphStore` stores. `DaemonLock`
says which daemon serves, `DaemonClients` how long, and `Proxy` what a host sees of it.

The three parts of the daemon process are proved in one module. Names that two of them have begin with `DL` in `DaemonLock`
and with `DC` in `DaemonClients` (`DLInit`, `DCNext`).

Definitions named in a comment that begins with "Mutant:" are bugs the code does not have: replacing the definition
below them by such a one makes TLC find the property it is listed with violated. They are never used by a specification.

### `LiveIndex`

State: `disk` and `row` map a file to content and time on disk and in `files`; `undelivered` holds files with an OS
event on its way; `pending`, `late`, `ticked`, `timer` are the watcher's fields; `pc` says where the three callers
(`watch`, `catchup`, `cli`) are in `sync()`; `work` is the run that holds the lock (what is left, the file in hand, the
content and time read so far); `baseline` and `gate` say that a sync of this server completed, and that the first tool
call may go ahead.

| action | code |
|---|---|
| `Edit`, `ClockTick` | environment: a write or deletion, the wall clock leaving a millisecond |
| `Start`, `Crash` | `MCPEngine.doInitialize` and `catchUpSync`; the server is killed |
| `HandleChange`, `Flush` | `handleChange` and `scheduleSync`; the debounce timer's `flush`, including its early return |
| `AcquireLock`, `LockUnavailable` | `Mutex` and lock file in `sync`; the `lockUnavailable` result |
| `Scan` | the reconcile of `sync` (or scan and prune of `indexAll`), which is synchronous |
| `BeginFile`, `ReadFile`, `StoreFile` | first read, second read, store. A sync stats and then reads; `indexAll` reads and then stats |
| `Finish`, `SyncThrows` | end of a sync with `flush`'s success path, or its catch; the `finally` block re-arms the timer |
| `CliStart`, `CliDies` | another process |

Abstractions. Every write gets a fresh time, so that two writes of one size in one millisecond, which
`extraction/index.ts:1846-1848` accepts as the blind spot of every such tool, do not occur. Wall-clock times are
compared by the code only with the start of the sync in flight, so `late` (the last event is younger) and `ticked` (the
clock has moved on) are all that is kept of them. `Mutex` and lock file are one exclusion; a caller in the same process
waits and one in another process gets `lockUnavailable`. Every edit under a running watcher has an event to come. Two
things that make a property false are hazard flags, off in the checked runs: `unreadable` (a file of a sync cannot be
read; `flush` then drops its flag with the others) and `sameTick` (the scan falls into the millisecond in which the
sync started, and an event in it is not younger).

### `GraphStore`

State: the five tables as sets and functions, `disk`, and the memory of the run: `pc`, `mode`, `listed` (what the scan
found), `tracked` (the rows as they were read at the beginning), `todo`, `changed`, `cur` (file, version and next
transaction), `incoming` (remembered edges of callers), `batch`. `links` and `settled` are history: cross-file links that
were resolved once and still stand, and references that a resolution pass dealt with.

`Begin` is the scan; `Prune` looks at one tracked file and deletes it if it is gone, in a transaction of its own;
`Reconcile` compares what was found with the rows; `PickFile` reads and parses a file, up to the hash test; `DropOld`,
`PutNodes`, `ReplayEdges`, `PutRefs`, `PutRow`, `PutText` are the transactions of `storeExtractionResult` in their order
(`After`); `StoreDone` decides whether there is anything to resolve; `InsertResolved`, `DeleteResolved` and
`DeleteUnresolved` are the transactions of `resolveAndPersist`, or of one batch, which alone has the third; `Crash` loses
the memory and keeps the tables. The tree may change, and the process be killed, between any two of them.

Which text is kept depends on the file and on its size: `text` is empty for an `Oversized` version, which is not parsed
either, and for a file that is `RawUnsafe` (`shouldIndexRawContent`). `Lockstep` says that nothing but `TextOf` the recorded
version is ever found, through kills too, and that it is there as long as nobody was killed.

Abstractions. A version of a file says which symbols it defines on which lines and which names they refer to. A symbol
has a name and a kind, which others may share; symbols that share both are told apart by their scope, and a node's
id is file, symbol and line, as in the code, so a shifted symbol is a new node. Which of several candidates a reference
resolves to is left open: results hold for every heuristic that picks a stored node. So is which of several new symbols
of one kind and name an edge is replayed to: the code takes the last that extraction listed. Edges are a set; the edges
that extraction itself emits are left out, as are synthesized ones. The sync's comparison of size and time is taken to be
right here (`LiveIndex` has it), and its loop over the files is one step. A
file that is gone by the time it is read, or whose parse gives only errors, is left as it is.

### `SessionContract` and `Proxy`

`SessionContract` says: as long as the session is open, each request is answered once, and eventually. `Proxy` has the
two ends of `runLocalHandshakeProxy` and, as environment, the daemon's session. A line is the JSON-RPC id it carries;
streams are sets, since no property depends on their order. `OnLine` is the handler of `process.stdin`, `RouteToDaemon`
and `HandleLocally` the functions of these names, `OnSocketLine` the reader of the socket with the suppressed reply to
the forwarded `initialize` (a host sends one in a session: the code remembers the id of the last only), `OnDaemonLost` the
close handler, `ServeBuffered` the awaiting loop over buffered lines.
`DaemonDies` may lose any part of what is in flight. `Upgrade` and `Shutdown` may come at any time.

The mapping to the contract is `open <- up`, `asked <- asked`, and `replies` restricted to the host's ids: `replies`
also counts answers to ids of the daemon's own requests. Those may be answered wrongly by the proxy once the daemon is
lost, which is listed as a hazard and not as a property of the contract.

### `DaemonLock`

`pc` of each process is its next system call; `pidfile` and `socket` are the files. `Link`, `ReadHolder`, `CheckHolder`
are `tryAcquireDaemonLock` and the loop of `startDaemonProcess`; `Reread`, `Probe`, `UnlinkStale` are
`clearStaleDaemonLock`; `Bind` (unlink of an old socket) and `Listen` are `start()`; `Stop`, `ReadOwn`, `UnlinkOwn`,
`UnlinkSocket` are `stop()`. `Stop` itself removes the socket file, because libuv unlinks the path of a server that is
closed; that part is external. `Crash` may come between any two calls.

`raced` records that two candidates were clearing the pidfile at once, or that one was which had found no pid in it. It
is what the exclusion needs: with it, one candidate may unlink the file that another has just made. The comment at
`mcp/daemon.ts:477-479` holds that re-reading makes that impossible; it makes it improbable. The property therefore says
what the protocol does guarantee, and the race is listed as a hazard.

Abstractions. Pids are not used again. The pidfile is created by `link()` and so is complete or absent. The code retries
five times; two tries reach every path of the loop, and the proof holds for any number.

### `DaemonClients`

`stage` of a connection is new, in its hello, counted, or out; `wire` is the socket as the daemon sees it; `alive` and
`pids` are the peer and what is known of it. `HelloRead`, `RequestRead`, `HelloTimeout` are the outcomes of
`readClientHello`; a `CloseEvent` during the hello is a fourth: it resolves the promise, and `handleConnection` then
counts a client whose close event has been and gone. `ReapDeadClients` is the sweep, `Backstop` the inactivity check,
`IdleFires` the timer, `Stop` and `ServerClosed` are `stop()` before and after `server.close()`.

`LiveClientsStay` and `AbandonedStops` pull in opposite directions: the daemon must not drop a client at work and must
not stay for clients that are gone, some of which never said who they are. `IdentifiedClientsLeave`, which is proved, is
restricted to clients with a hello and `StopEnds` excepts clients that were in their hello at `stop()`: without these
restrictions they are false, because of the close during the hello (nothing but the backstop ends such a daemon, where
`mcp/daemon.ts:283-286` expects the close of the socket to) and because `stop()` does not see such a connection.

### `WriterLock`

`pc` of a caller of `indexAll`, `sync` or `indexFiles` is its next step; `locked` and `waitQueue` are the `Mutex` of its
process, `held` the flag of its `FileLock`; `lockfile` and `written` are the file and whether it has its pid yet. `Ask` is
`Mutex.acquire`, including a waiter that was woken and finds the mutex taken by a newcomer; `Exists`, `Read`, `Check`,
`UnlinkStale`, `UnlinkAgain`, `Create`, `Write` are the calls of `FileLock.acquire`, `Reread` and `UnlinkOwn` those of
`release`; `Leave` hands the mutex on; `Close` is `OmniWeave.close()`, which may come in the middle of an operation.

`raced` records that an `acquire()` came to remove a lock file while another might: two at one stale file, a file without
its pid (which is taken for stale), or one that went away between the two calls. With it, two processes may write at once,
and `OneWriter` says so. Pids are not used again, and `kill(pid, 0)` is taken to tell the truth.

### `ParseWorker`

`pass`, `at`, `file`, `todo` are the loop of `indexAll` through its three passes, `pending` the entry of `pendingParses`,
`wstate`, `jobs` and `replies` the threads with what was posted to and by them, `errors` and `stored` what is known of each
file, next to the three counters; `result` is what a retry is about to store after its stat, and `recovered` is history: the
entry that a retry removed. `Parse` is `requestParse` with recycling and `ensureWorker`; `Deliver`, `OnError`,
`OnExit`, `Timeout` are the event handlers; `Answer` and `Die` are the threads. An exit event comes some time after the
thread was told to end, and rejects whatever is pending by then. Batches are left out: other events may come between any two files.

What a parse gave is an outcome, chosen when the answer is delivered: symbols, or nothing to find; symbols with errors or
warnings beside them (`flawed`), a memory error that was caught among them (`partial`); no symbols, but warnings or errors.
The code stores all but the last two and reports the errors of all (`Counted`); it takes every entry that names a memory error
or an exit for one to retry, whether or not its file was stored (`Retryable`), and a retry that worked moves a file from the errors to
the indexed (`Recovered`), storing nothing if the same text is stored already (`RetryStored`). A store may throw, which
rejects `indexAll`. The database is taken to be empty at the start, and each file to have one entry.

### `Engine`

One step is what runs between two awaits. `opening` counts the `doInitialize` that await `open()`, `cg`, `served`, `gate`
and `watched` are the fields of the engine and of the tool handler, `live` the instances whose database is open, `promise`
what each session's attempt awaits. `Initialize`, `RootsEnd`, `OpenEnds`, `CatchUpEnds` are the ends of awaits in session
and engine, `Arrive`, `Resume`, `Execute`, `GateOpens` the path of a tool call, with `retryInitializeSync` and
`reopenIfReplaced` in it; `Stop` is `stop()`. `overlapped` records that the project was opened synchronously, or the engine
stopped, while an `open()` was in flight, in which case two instances may be open. What tools compute is left out. Deadlock
is checked here: a call that is never answered is one.

### `Traversal`

One query on one graph; a step is one turn of a loop. `work` is the queue of a breadth-first search, or the stack of calls
of a recursive function, with the edges it has still to go through; which edge comes next is open, as SQLite promises no
order. `Bfs` and `Path` are `traverseBFS` and `findPath`; `Visit` and `Return` stand for the recursive functions, which
differ in the edges they follow (`Adjacent`), in what they record (`Records`) and where they stop (`Enters`); `Descend` is
the second half of `getTypeHierarchy`; `Dependency` and `NextRoot` are `findCircularDependencies`. What the answers
are compared with does not search at all: `Reached(E, S)` is what every set has that has `S` and is closed under the edges
`E`, and `Ball[d]` takes `d` steps of that kind, where the members of a container are as near as the container. A node is a name, an edge a pair; of the filters only that of node kinds is kept.

### `WatchTree`

A directory stands for itself and for the one source file in it. `watch` has the state of its entry in `dirWatchers`:
none, live, or dead, that is still in the map while the directory it was put on is gone. `walk` is the recursion of
`watchTree` as a stack, with a step for each system call (`WatchDir`, `ListDir`), between which others may `Write`,
`Appear` (mkdir, or a tree moved in) and `Disappear` (rmdir, or a tree moved out); handlers of the watcher wait until the
walk is over, as JavaScript runs to completion. `HandleDirEvent` takes an event, `CallFails` and `WatchError` are faults,
`Restart` is `stop()` and `start()`. A sync is one step; `LiveIndex` has the rest of it. Closing a watch turns the events it has queued into "lost" ones, which
the handler drops: node does not call the listener of a closed watch.

`refused` and `unseen` are history: directories that could not be watched, and files that vanished where no watch saw it.
With the dead watches they are exactly what the properties except, and the code never notices: a whole directory that is
moved away has one event, for a path that is not a source file. An overflow of the kernel's event queue, which node does
not report, and ignore rules are left out. macOS and Windows have one recursive watch and none of this.

## 3. Runs and bounds

Runs that pass:

| run | configuration | checks | bounds |
|---|---|---|---|
| `live_index_safety` | `MCLiveIndex.cfg` | `TypeOK`, `PrefilterSound`, `FreshOrFlagged`, `IndexingFlagHonest`, `FlagClearedByCoveringSync` | 2 files, 2 contents, 3 edits, 1 CLI sync, 1 fault; symmetric |
| `live_index_liveness` | `MCLiveIndexLive.cfg` | `Convergence` | 1 file, 3 edits, 1 CLI sync, 1 fault |
| `graph_store` | `MCGraphStore.cfg` | `TypeOK`, `RowVouches`, `EdgesKeptWithoutCrash`, `EdgesGrounded`, `Lockstep` | 2 files that refer to each other, 6 versions, 3 edits, 3 runs, 1 crash, batches of 1 |
| `proxy` | `MCProxy.cfg` | `TypeOK`, `EachRequestHeldOnce`, `AnswersOnce` (refinement with liveness) | 5 requests of 4 kinds, 1 request of the daemon |
| `daemon_lock` | `MCDaemonLock.cfg` | `DLTypeOK`, `OneDaemonUnlessRaced`, `TakesOver` | 3 processes, 2 tries, 2 kills |
| `daemon_clients` | `MCDaemonClients.cfg` | `IdleTimerMatches`, `LiveClientsStay`, `AbandonedStops`, `StopEnds` | 3 connections |
| `writer_lock` | `MCWriterLock.cfg` | `MutexSound`, `OneWriter`, `NothingLeftLocked`, `EveryCallEnds` | 3 callers in one process, 1 in another, a dead process's file, 1 kill |
| `parse_worker` | `MCParseWorker.cfg` | `CountsAddUp`, `StoredOrReported`, `NoThreadLeft`, `Ends` | 2 files, 2 threads that have not exited, recycling after 2 |
| `engine` | `MCEngine.cfg` | `OneInstance`, `FirstCallWaits`, no deadlock | 2 sessions, 3 calls, 3 instances, 1 replaced database |
| `traversal` | `MCTraversal.cfg` | `BfsExact`, `PathShortest`, `WalkExact`, `ImpactHonest`, `CyclesFound` | every graph of 4 nodes with up to 4 edges and a loop; depths 1, 2, 4 |
| `watch_tree` | `MCWatchTree.cfg` | `TypeOK`, `TreeCovered`, `ChangesNoticed`, `SyncedInTheEnd` | 4 directories, 3 watches, 2 changes to any initial tree, 1 fault |

Where a run does not list the type invariant, a theorem of the module's proofs has it for every instance.

Why the bounds are enough to be of interest. *LiveIndex*: three edits give one before, one during and one after the
reads of a sync; a second file shows that a sync which covers one file says nothing of the other; the one fault falls at
every step. Liveness has one file, since its argument (somebody re-arms the timer) does not depend on the others.
*GraphStore*: the callee's versions have the symbol, the symbol on another line and a second one of its kind and name, a
class of its name, and another name; the caller's second version is oversized, and the callee's text unsafe; three runs are a
first index, a re-index with a crash in it, and the one that should repair it. *Proxy*: two tool calls, because the loop
over buffered lines awaits each; all five requests may be anywhere when the daemon dies. *DaemonLock*: a predecessor and
two candidates, two of the three killed. *DaemonClients*: one connection may be in its hello, one counted and one
closing, and nothing relates more than the last one to the rest. *WriterLock*: with three callers in a process one is
inside, one is woken, and one barges in between; the lock file may be a dead process's, a live one's or nobody's.
*ParseWorker*: a terminated thread and its successor are alive at once, and two files tell a late answer from a right one.
*Engine*: one session's call retries while the other's initialisation is in flight, and three instances are a first
open, a second and one more than there should be. *Traversal*: four nodes have a long and a short way to one node with
something behind it, which is where depth limits and visited sets go wrong, and two cycles that meet. *WatchTree*: the
initial trees include every shape, so two changes are a directory that comes with another in it and a file written into
it at once, or one that goes and comes back; one more directory than there may be watches. The theorems of section 5 have
no bounds at all.

Deadlock is not checked where the system may stop: edits, runs and requests are bounded, daemons and proxies exit.

One run finds a violation, of a statement in the repository: `full_index_race` (section 6).

## 4. Fairness

Weak fairness only, and only of what a scheduler owes: the OS delivers events and runs processes, timers fire, the event
loop runs what is ready, a promise that can settle does. In particular

- `LiveIndex`: event delivery, the clock, `Flush`, the steps of a sync, and `Start` (the host starts its server again).
  Not: edits, CLI runs, crashes, faults. A sync that finds the lock taken is a step like another; each failed attempt
  re-arms the timer, and the CLI's sync ends. `Convergence` is conditional on the server's sync having completed for good,
  since a catch-up that finds the lock taken is not tried again (section 6).
- `Proxy`: connection attempts are bounded in number and time, so one of `Connect` and `Unavailable` happens; a tool call
  ends, here and in the daemon (the code has no timeout for it: this is an assumption about the handlers); `Shutdown`
  only once the reply about a stale build is written.
- `DaemonLock`: each process runs; nobody has to spawn, stop or kill one.
- `DaemonClients`: timers fire (the sweep and the backstop are intervals, enabled by default) and events that have
  arrived are handled. Nothing of peers: the socket of a dead one may stay open, a live one may be silent for ever.
- `WriterLock`: a caller that can go on does, and every operation ends. Nobody has to call, close or be killed.
- `ParseWorker`: the loop runs, the timer of a pending request fires if nothing settles it first, the events of threads
  arrive. Nothing of threads: one may hang for ever in its work.
- `WatchTree`: system calls return, queued events are handled, the debounce timer fires, the catch-up is made.
- `Engine` and `Traversal` state none: no property of theirs needs it.

## 5. Proofs

For every set of files, contents, ids, processes and connections, and every bound. TLC had agreed on each inductive
invariant before it was proved.

- **`LiveIndexProofs`**: `TypeCorrect`; `PrefilterIsSound` (assuming only that the CLI never runs a full index, which
  does break it); `StaleFilesAreFlagged`, `IndexingFlagIsHonest`, `FlagsComeOffLate` (assuming in addition that the two
  hazard flags are off). `FreshOrFlagged` is not inductive: at the end of a sync the flags go, so one must know that
  every file without a late event was covered *while* the sync ran. `WatchCovers` and `CatchupCovers` say so: each file
  is fresh, still on the list, in hand with its present content, late, or has an event to come. That in turn needs
  `WorkSound` (content and time about to be stored belong together if the time is still the file's) and `StampBounds`
  (no recorded time is from the future), which also carry `PrefilterSound`, and `Exclusion` of runs.
  `FlagsAreRetried`, in every environment: while a file is flagged, a `flush()` is due or under way. With
  `FreshOrFlagged` it gives `StaleIsNeverSettled`: a server whose sync has completed never rests on a stale row.
- **`ProxyProofs`**: `RequestsAreHeldOnce` and `ImplementsContract`, the refinement of the safety part of
  `SessionContract`. The invariant adds which queues may be in use in which status (`QueuesOfStatus`), that whatever the
  daemon may still reply to is in `inflight` or is the handshake (`Remembered`), that it is in one place of the socket
  (`InOnePlace`), and that queued and unanswered are the same (`QueuedIffWaiting`). `StepImplements` has one case per
  handler: most stutter, `HostAsks` is `Ask` or `AskAndAnswer`, `OnDaemonLost` is `AnswerAll`.
- **`DaemonProofs`**, of `DaemonLock`: `OneDaemonReigns`. The reigning process is the one in the pidfile (`HoldsLock`); what a
  candidate is about to unlink is the pidfile of a process that is gone (`SeenIsDead`, `ClearsAlone`), and the gone do
  not come back (`PidWasStarted`, `SeenWasStarted`). The last two hold always, the others as long as `raced` is false.
- of `DaemonClients`: `TimerMatches`, `IdentifiedLeave`, `LiveStay`. They are inductive with the types, whose
  relation of `stage` and `wire` rules out that the close event of a connection comes twice.
- **`GraphStoreProofs`**: `RowsVouch` holds through crashes, because the old row goes with the first transaction and the
  new one comes late (`Storing`, `RowIsLate`). The first half of `TablesAgree` holds through crashes as well
  (`TextIsKnown`: the text goes with the row and comes after it). Its second half, `EdgesAreGrounded` and `CallersAreKept`
  hold as long as nobody is killed, for every schema of versions and symbols, shared names included: `Agree` says which
  table has which version in the middle of a store, `Grounded` that edges, references and remembered edges are of the
  stored versions, `Linked` that for each link there is an edge to a symbol of its kind and name, or one is remembered while
  the callee is stored.
- **`WriterLockProofs`**: `MutexIsSound`, `NothingIsLeftLocked`, `OneWriterAtATime`. The first is inductive with `Queued`
  (who is queued waits, once) and `DeadIdle`; the second needs that `held` is set by one call at a time and that a live
  process knows of the file with its pid (`HeldInside`); the third, `Orderly`: unless there was a race, who is about to
  unlink a stale file is alone in that, and who works finds the file as it made it.
- **`ParseWorkerProofs`**: `CountsFollowTheFiles`, `NoFileIsLost`, `ThreadsAreReaped`, for any finite set of files, with
  cardinalities. `LoopInv` ties the file in hand to where the loop is, `Results` says of a file which was dealt with what is
  stored of it and that its entry says what is missing, whatever late messages and exits do. `OnlyADeadLoaderHangs`: what the loop awaits has a timer,
  or comes from a worker that is loading, so that the death of a loading worker is the only way to wait for ever.
- **`WatchTreeProofs`**: `TreeIsCovered`, `ChangesAreNoticed`, for any tree of directories, any limit of watches, and any
  changes to the tree between the steps of a walk. Both properties speak of the state in which nothing is left to do, and
  say nothing before. What holds all the time is `WatchComes`: a directory that is there has a watch, is to get one (it is
  on the stack of the walk, or an event reports it), or its turn comes after the directory above, which is not watched yet
  or still to be listed. `ChangeComes` says the same of files: pending, in a queued event, in a directory still to be
  listed by a walk that marks what it finds, or before a catch-up. This needs that no directory is there without the one
  above (`TreeGrounded`), that only the walk of `start()` does not mark and that the catch-up comes after it
  (`UnmarkedCaughtUp`). When nothing is left to do, "after the directory above" leads from a directory without a watch
  upwards, and at the root to a contradiction; the lemma `TreeInduction` is that argument, from `Below[Root] = Dirs`.
- **`TraversalProofs`**: `BreadthFirstIsExact`, `PathIsShortest`, `WalksAreExact`, `ImpactIsHonest`, `CyclesAreFound`, and
  `TypeCorrect` with the depth of the recursion, for every finite graph, every order of edges, depth and limit. Each query
  has an invariant that says of every visited node and every neighbour that the neighbour has been found, or is still to
  come (`BfsGoesOn`, `PathGoesOn`, `WalkGoesOn`); when nothing is to come, what was found is closed under the edges, and
  the least such set is in it. The rest is about distance:
  - Breadth first, the depths in the queue rise and differ by one at most (`Rising`). So when a step of depth *d* is
    taken, every visited node's neighbours are visited or queued no deeper than they are far, and a node that is refused
    as visited was visited no later. The same with the lengths of paths makes the first path that arrives a shortest one.
  - Depth first, the depth of a call is its place on the stack, no two calls are for one node (`WalkStack`), and so a depth
    limit of the number of nodes is never met (`Room`). `Excused` lists why a node that was found was not entered:
    the depth limit, the result limit, or, in the impact, that all it leads to is in the answer or in the frontier.
  - For cycles, `CycleDone` says that a node whose call has returned is caught, if it is on a cycle: a cycle was found
    that is among the nodes which are on a cycle with it. `CycleStack` says of a call on the stack that if a neighbour that
    it is past leads back to it, it is caught, unless the next call is the one for that neighbour. That the neighbour was
    seen before is then no obstacle: it is done, on a cycle with this node, and caught by the same cycle; or it is on the
    stack, and closes one. So nothing need be known of which nodes were unvisited when a call began.

  `Reached` and `Within` make this provable: that `Reached` is the least closed set follows from its definition, and
  `WithinUnfolds` from an induction on natural numbers. The library's induction takes a predicate; `Induction` takes a set.
- **`DaemonProofs`**, of `Engine`: `OneInstanceIsOpen`, `FirstCallIsHeld`. Unless an open was overtaken, the one instance that was ever
  opened is served and none is being opened beside it (`AloneServed`), and the gate is shut or a call waits at it while the
  catch-up is in flight (`Guarded`). `NoCallAwaitsInVain`: a call awaits a promise that was started, and a promise that
  awaits an `open()` has one in flight.

Assumptions on constants are the named `ASSUME`s of the modules (sentinels are not members of the sets, bounds are
naturals, ids of the two sides differ), evaluated by TLC on every run.

Only model-checked: liveness (`Convergence`, the liveness part of `AnswersOnce`, `TakesOver`, `AbandonedStops`,
`StopEnds`, `EveryCallEnds`, `Ends`, `SyncedInTheEnd`), which the prover does not reach. `StaleIsNeverSettled`, `OnlyADeadLoaderHangs` and `NoCallAwaitsInVain` are what can be
proved of it without fairness: who waits has something to wait for. Their formulas are defined next to their proofs, are
no properties of a run, and were checked by TLC on the instances of section 3 (those of `LiveIndex` with two edits). Every invariant and every action
property that a run checks is also a theorem.

## 6. Where code and comments disagree

`full_index_race` is a run that ends in a violation. `indexAll` reads a file before it stats it. A write in
between is recorded under the new time and size with the old hash, and every later sync skips the file, where
`extraction/index.ts:1846-1848` says that only a change which preserves size and time can hide.

The others are definitions of the modules that say what a comment or a reader may expect and that do not hold. The models
have the behaviour; to see it, put the definition into a configuration of the module.

1. `FirstCallCaughtUp` (`LiveIndex`): if another process holds the lock when the server starts, the catch-up does nothing
   and says nothing, and the first tool call is served as if it had reconciled (`mcp/engine.ts:231-236`).
2. `EdgesSurviveCrash` (`GraphStore`): edges of callers are in memory only while a callee is stored; a kill loses them until
   a full index (`extraction/index.ts:1690-1733`).
3. `IndexResolves` (`GraphStore`): a batch in which nothing resolves ends a full index's resolution, although that batch was
   deleted and the next would make progress (`resolution/index.ts:981`).
4. `SameSymbolKept` (`GraphStore`): replay by kind and name takes the last symbol of that kind and name, so a comment at
   the top of a file moves an edge from one class's method to another's (`extraction/index.ts:1721`). `CallerEdgesKept`
   says what is true: there still is an edge to a symbol of that kind and name.
5. `ServingIsReachable` (`DaemonLock`): `stop()` gives up the lock and then unlinks the socket path, which may be its
   successor's by then (`mcp/daemon.ts:259`).
6. `SubtypesFound` (`Traversal`): ancestors and descendants share one visited set, in which the focal type is when the
   descendants are looked for; none is ever returned, against `index.ts:968`.
7. `ErrorsCounted` (`ParseWorker`): the errors of a file that is stored are reported too, and a retry takes such a file for
   one that failed if a memory error is among them. It is then counted as indexed a second time, and `filesErrored` is one
   too low, -1 if nothing else failed (`extraction/index.ts:1289-1316`, `:1336-1339`, `:1377-1378`).
8. `UnreportedIsWhole` (`ParseWorker`): the entry goes when a retry gave anything, though the errors of the retry are
   dropped, and though the store does nothing if the same text is stored already: what is in the index may lack symbols
   without an entry to say so (`extraction/index.ts:1369-1382`, `:1683-1687`).

And what the properties except by their wording, each named in the comment of the property:

- `OneDaemonUnlessRaced`, `OneWriter`: two processes at one stale lock file, against `mcp/daemon.ts:477-479`; a lock file
  that is read between its creation and the write of the pid (`utils.ts:226-252`).
- `OneWriter`: `indexFiles` returns its promise without awaiting it, so that the lock is released while it works
  (`index.ts:464`).
- `OneInstance`: a call that opens the project itself, or `stop()`, while an `open()` is in flight
  (`mcp/engine.ts:131`, `:167`).
- `Ends`: a worker that dies while it loads its grammars leaves `indexAll` waiting for ever (`extraction/index.ts:1110`).
- `NoThreadLeft`: a file that vanishes before its stat in a retry, or a store that throws, rejects `indexAll` with the
  worker running (`extraction/index.ts:1257`, `:1291`, `:1372-1373`).
- `StoredOrReported`: a result without symbols and with warnings only is not stored, though it is counted as indexed or
  skipped; its warnings are in `errors` (`extraction/index.ts:1289-1316`), and the property counts them as the report.
- `Lockstep`: a kill between the row and the text leaves a file without text for good (`extraction/index.ts:1772-1780`).
- `WalkExact`: with a depth limit above 1, what is first met on a long way is not expanded again on a shorter one
  (`graph/traversal.ts:270`); `ImpactHonest`: members of a container at the limit are left out unannounced.
- `TreeCovered`, `ChangesNoticed`: `unwatchDir` is for a directory "that errored/was removed" (`sync/watcher.ts:416`), but
  on Linux the removal is no error: the entry stays, and a directory made again at the path is never watched.

## 7. What is not modelled

- Parsing and extraction, name matching, framework and callback synthesis: functions of text, without state to explore.
  `GraphStore` takes their results as input.
- Search ranking, formatting, context building, tools: read-only and stateless per call.
- SQLite, migrations, file systems: external. Transactions are atomic; `GraphStore` assumes foreign keys are on.
- SCIP import and snapshots: writers under the same lock; for the watcher they are the foreign process of `LiveIndex`.
- Installer, upgrade, command line, hooks, UI: sequential and run by hand.
- Supervision (parent watchdog, stdin teardown, build skew): polls that end in `shutdown()`, which may come at any time
  in `Proxy` and `DaemonLock`.
- Telemetry: a queue file, claimed by rename and recovered after an hour. It has no effect on the index.
- Within modelled parts: content-only files (`syncContentOnlyFiles`, rows of `content_fts` without a row of `files`) with
  `purgeUnsafeSourceContentRows`, and ignore rules of the watcher; `runProxy` (the plain pipe); Windows pipes and
  malformed pidfiles; what a session does besides initialisation, requests and roots; metrics, dead code and `getCallGraph`
  of the graph queries.

## 8. Plan

What would add most next:

1. `TelemetryQueue`: claim by rename, recovery of abandoned claims, sending: no line twice, none lost. The known question is
   `telemetry/index.ts:456`, where a claim keeps the time of its last append.
2. Refinements between the modules, where section 2 says that one takes for granted what another shows: `WriterLock` as an
   implementation of the exclusion of `LiveIndex` (as long as `raced` is false), `GraphStore` of its `StoreFile`.
3. The second phases of a full index: content-only files, resolution of deferred references, synthesized edges, as further
   steps of `GraphStore`.
