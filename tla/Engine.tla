------------------------------- MODULE Engine -------------------------------
(***************************************************************************)
(* How a server comes to its project: the sessions' attempts to find and   *)
(* open it (MCPSession.retryInitIfNeeded), the engine they share           *)
(* (MCPEngine), and the tool handler with its gate (ToolHandler).          *)
(*                                                                         *)
(* In "daemon" mode the root is known and several sessions share the       *)
(* engine; in "direct" mode there is one session, which may have to ask    *)
(* its client for the root.  A step is what runs between two awaits.  The  *)
(* index may appear while the server runs (omniweave init), and may be     *)
(* replaced on disk; it does not go away.                                  *)
(***************************************************************************)
EXTENDS Integers, FiniteSets

CONSTANTS
    Sessions,
    Calls,          \* tool calls
    Of,             \* Calls -> the session of the call
    Instances,      \* bound: instances of OmniWeave that are opened
    None,
    MaxReplaced     \* bound: times the database is replaced on disk

ASSUME EngineAssumption ==
    /\ Of \in [Calls -> Sessions]
    /\ None \notin Instances
    /\ MaxReplaced \in Nat

VARIABLES
    mode,           \* "daemon" or "direct"
    indexed,        \* the project has an index that can be opened
    disk,           \* the database at its path: how often it was replaced
    hinted,         \* MCPEngine.projectPath is not null
    opening,        \* doInitialize calls that await open()
    cg,             \* MCPEngine.cg
    served,         \* ToolHandler.cg
    gate,           \* ToolHandler.catchUpGate: the instance whose catch-up it is
    watched,        \* the instance startWatching was called for (watcherStarted)
    closed,         \* MCPEngine.closed
    live,           \* instances whose database is open
    used,           \* instances opened so far
    gen,            \* Instances -> the database it has open
    syncing,        \* instances whose catch-up is in flight
    promise,        \* Sessions -> the session's promise: what it awaits
    current,        \* Sessions -> the promise is in resolvePromise
    pc,             \* Calls -> progress
    awaited,        \* Calls -> the instance whose catch-up the call awaits
    answered,       \* Calls -> the instance that answered, or None
    overlapped      \* history: an open() was in flight at a synchronous open, or at stop()

handlerVars == <<served, gate>>
instanceVars == <<live, used, gen, syncing>>
engineVars == <<hinted, opening, cg, watched, closed>>
sessionVars == <<promise, current>>
callVars == <<pc, awaited, answered>>
vars == <<mode, indexed, disk, engineVars, handlerVars, instanceVars, sessionVars, callVars, overlapped>>

\* Types; an instance that is open was opened, and what the handler serves was, too.
TypeOK ==
    /\ mode \in {"daemon", "direct"}
    /\ indexed \in BOOLEAN /\ hinted \in BOOLEAN /\ closed \in BOOLEAN /\ overlapped \in BOOLEAN
    /\ disk \in 0..MaxReplaced
    /\ opening \in {0, 1}
    /\ {cg, served, gate, watched} \subseteq used \cup {None}
    /\ used \subseteq Instances
    /\ live \subseteq used /\ syncing \subseteq used
    /\ gen \in [Instances -> 0..MaxReplaced]
    /\ promise \in [Sessions -> {"new", "none", "roots", "init", "settled"}]
    /\ current \in [Sessions -> BOOLEAN]
    /\ pc \in [Calls -> {"idle", "await1", "await2", "execute", "gate", "done"}]
    /\ awaited \in [Calls -> Instances \cup {None}]
    /\ answered \in [Calls -> Instances \cup {None}]

\* The daemon opens its project as soon as it listens.
Init ==
    /\ mode \in {"daemon", "direct"}
    /\ indexed \in BOOLEAN /\ (mode = "daemon" => indexed)
    /\ disk = 0
    /\ hinted = (mode = "daemon")
    /\ opening = IF mode = "daemon" THEN 1 ELSE 0
    /\ cg = None /\ served = None /\ gate = None /\ watched = None
    /\ closed = FALSE
    /\ live = {} /\ used = {} /\ syncing = {}
    /\ gen = [i \in Instances |-> 0]
    /\ promise = [s \in Sessions |-> "new"]
    /\ current = [s \in Sessions |-> FALSE]
    /\ pc = [c \in Calls |-> "idle"]
    /\ awaited = [c \in Calls |-> None]
    /\ answered = [c \in Calls |-> None]
    /\ overlapped = FALSE

----------------------------------------------------------------------------
(* Environment *)

Appear ==
    /\ ~indexed /\ indexed' = TRUE
    /\ UNCHANGED <<mode, disk, engineVars, handlerVars, instanceVars, sessionVars, callVars, overlapped>>

Replace ==
    /\ indexed /\ disk < MaxReplaced
    /\ disk' = disk + 1
    /\ UNCHANGED <<mode, indexed, engineVars, handlerVars, instanceVars, sessionVars, callVars, overlapped>>

----------------------------------------------------------------------------
(* MCPEngine *)

\* Mutant: the gate is only set by the first open.
GateOfAsync(i, sync) == IF sync THEN gate ELSE i

GateOf(i, sync) == i

\* retryInitializeSync closes the instance of the engine, if there is one.
AfterClose == live \ {cg}

\* open() or openSync() returned an instance: it is served, watched and caught up.
Opened(i, sync) ==
    /\ i \in Instances \ used
    /\ used' = used \cup {i}
    /\ live' = (IF sync THEN AfterClose ELSE live) \cup {i}
    /\ gen' = [gen EXCEPT ![i] = disk]
    /\ syncing' = syncing \cup {i}
    /\ cg' = i /\ served' = i /\ gate' = GateOf(i, sync)
    /\ watched' = IF watched = None THEN i ELSE watched

\* Mutant: every caller opens the project itself.
NeverShares == FALSE

\* if (this.initPromise) await it.
Shares == opening > 0

\* ensureInitialized: what the promise of session s awaits then.
EnsureInitialized(s) ==
    /\ promise' = [promise EXCEPT ![s] =
            IF ~closed /\ served = None /\ (Shares \/ indexed) THEN "init" ELSE "settled"]
    /\ IF closed \/ served # None \/ Shares
       THEN UNCHANGED <<hinted, opening>>
       ELSE /\ hinted' = TRUE
            /\ opening' = IF indexed THEN opening + 1 ELSE opening
    /\ UNCHANGED <<cg, watched, closed, handlerVars, instanceVars, overlapped>>

\* doInitialize after its await, or with an open() that failed; closed is not looked at.
OpenEnds ==
    /\ opening > 0
    /\ opening' = opening - 1
    /\ promise' = IF opening' > 0 THEN promise
                  ELSE [s \in Sessions |-> IF promise[s] = "init" THEN "settled" ELSE promise[s]]
    /\ \/ \E i \in Instances : Opened(i, FALSE)
       \/ UNCHANGED <<cg, watched, handlerVars, instanceVars>>
    /\ UNCHANGED <<mode, indexed, disk, hinted, closed, current, callVars, overlapped>>

\* retryInitializeSync
RetryInitializeSync ==
    IF closed \/ served # None \/ ~indexed
    THEN UNCHANGED <<engineVars, handlerVars, instanceVars, overlapped>>
    ELSE /\ \/ \E i \in Instances : Opened(i, TRUE)
            \/ UNCHANGED <<cg, watched, handlerVars, instanceVars>>
         /\ overlapped' = (overlapped \/ opening > 0)
         /\ UNCHANGED <<hinted, opening, closed>>

CatchUpEnds(i) ==
    /\ i \in syncing
    /\ syncing' = syncing \ {i}
    /\ UNCHANGED <<mode, indexed, disk, engineVars, handlerVars, live, used, gen, sessionVars, callVars, overlapped>>

Stop ==
    /\ ~closed
    /\ closed' = TRUE
    /\ live' = live \ {cg}
    /\ cg' = None
    /\ overlapped' = (overlapped \/ opening > 0)
    /\ UNCHANGED <<mode, indexed, disk, hinted, opening, watched, handlerVars, used, gen, syncing, sessionVars, callVars>>

----------------------------------------------------------------------------
(* MCPSession *)

\* handleInitialize, with a root given by the client or by the server, or without.
Initialize(s, given) ==
    /\ promise[s] = "new"
    /\ mode = "daemon" => given
    /\ mode = "direct" => \A r \in Sessions : promise[r] = "new"
    /\ IF given
       THEN EnsureInitialized(s) /\ current' = [current EXCEPT ![s] = TRUE]
       ELSE /\ promise' = [promise EXCEPT ![s] = "none"]
            /\ UNCHANGED <<current, engineVars, handlerVars, instanceVars, overlapped>>
    /\ UNCHANGED <<mode, indexed, disk, callVars>>

Goto(c, to) == pc' = [pc EXCEPT ![c] = to] /\ UNCHANGED <<awaited, answered>>

\* retryInitIfNeeded, once the session's promise is settled: the roots are asked for at
\* most once, and only if no path is known.
Resolve(c) ==
    LET s == Of[c] IN
    IF served # None
    THEN /\ Goto(c, "execute")
         /\ UNCHANGED <<engineVars, handlerVars, instanceVars, promise, overlapped>>
    ELSE IF ~hinted /\ promise[s] = "none"
         THEN /\ Goto(c, "await2")
              /\ \/ /\ promise' = [promise EXCEPT ![s] = "roots"]
                    /\ UNCHANGED <<engineVars, handlerVars, instanceVars, overlapped>>
                 \/ EnsureInitialized(s)
         ELSE /\ Goto(c, "execute")
              /\ RetryInitializeSync
              /\ UNCHANGED promise

Arrive(c) ==
    LET s == Of[c] IN
    /\ pc[c] = "idle" /\ promise[s] # "new"
    /\ IF current[s]
       THEN /\ Goto(c, "await1")
            /\ UNCHANGED <<engineVars, handlerVars, instanceVars, sessionVars, overlapped>>
       ELSE /\ Resolve(c)
            /\ current' = [current EXCEPT ![s] = (pc'[c] = "await2")]
    /\ UNCHANGED <<mode, indexed, disk>>

\* The promise that was awaited settles; resolvePromise is cleared.
Resume(c) ==
    LET s == Of[c] IN
    /\ promise[s] = "settled"
    /\ \/ pc[c] = "await1" /\ Resolve(c)
       \/ /\ pc[c] = "await2"
          /\ Goto(c, "execute")
          /\ IF served # None THEN UNCHANGED <<engineVars, handlerVars, instanceVars, overlapped>>
                              ELSE RetryInitializeSync
          /\ UNCHANGED promise
    /\ current' = [current EXCEPT ![s] = FALSE]
    /\ UNCHANGED <<mode, indexed, disk>>

\* roots/list is answered, fails, or times out.
RootsEnd(s) ==
    /\ promise[s] = "roots"
    /\ EnsureInitialized(s)
    /\ UNCHANGED <<mode, indexed, disk, current, callVars>>

----------------------------------------------------------------------------
(* ToolHandler *)

\* No catch-up is waited for, or another call waits for it already.
GateOpen == gate = None

\* getOmniWeave and freshen: a database that was replaced is opened anew, even after
\* stop(), and a sync that is in flight on the old one fails.
Serve(c) ==
    LET replaced == served # None /\ gen[served] # disk IN
    /\ pc' = [pc EXCEPT ![c] = "done"]
    /\ answered' = [answered EXCEPT ![c] = served]
    /\ gen' = IF replaced THEN [gen EXCEPT ![served] = disk] ELSE gen
    /\ syncing' = IF replaced THEN syncing \ {served} ELSE syncing
    /\ live' = IF replaced THEN live \cup {served} ELSE live
    /\ UNCHANGED <<awaited, served, used>>

Execute(c) ==
    /\ pc[c] = "execute"
    /\ IF GateOpen
       THEN Serve(c) /\ UNCHANGED gate
       ELSE /\ pc' = [pc EXCEPT ![c] = "gate"]
            /\ awaited' = [awaited EXCEPT ![c] = gate]
            /\ gate' = None
            /\ UNCHANGED <<answered, served, instanceVars>>
    /\ UNCHANGED <<mode, indexed, disk, engineVars, sessionVars, overlapped>>

GateOpens(c) ==
    /\ pc[c] = "gate" /\ awaited[c] \notin syncing
    /\ Serve(c)
    /\ UNCHANGED <<mode, indexed, disk, engineVars, gate, sessionVars, overlapped>>

----------------------------------------------------------------------------
\* All calls are answered, and nothing is under way.
Finished ==
    /\ \A c \in Calls : pc[c] = "done" \/ (pc[c] = "idle" /\ promise[Of[c]] = "new" /\ mode = "direct")
    /\ UNCHANGED vars

Next ==
    \/ Appear \/ Replace \/ OpenEnds \/ Stop \/ Finished
    \/ \E i \in Instances : CatchUpEnds(i)
    \/ \E s \in Sessions : RootsEnd(s) \/ \E given \in BOOLEAN : Initialize(s, given)
    \/ \E c \in Calls : Arrive(c) \/ Resume(c) \/ Execute(c) \/ GateOpens(c)

Spec == Init /\ [][Next]_vars

----------------------------------------------------------------------------
(* Properties *)

\* The project is opened once, and the watcher is that of the instance that is served, so
\* that the files it flags are those that the answers are warned about; unless an open()
\* was in flight when a call opened the project itself, or at stop() (engine.ts:37-40,
\* :119-139, :167-170, :184-185).
OneInstance ==
    ~overlapped => live \subseteq {served} /\ watched \in {served, None}

\* A call is answered before the catch-up of its instance has ended only if another call
\* waits for it (engine.ts:231-240, tools.ts:1492-1501).
FirstCallWaits ==
    [][\A c \in Calls :
          ~overlapped /\ answered'[c] # answered[c] /\ answered'[c] \in syncing =>
              \E d \in Calls \ {c} : pc[d] = "gate" /\ awaited[d] = answered'[c]]_vars
=============================================================================
