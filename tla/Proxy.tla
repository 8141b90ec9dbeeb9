------------------------------- MODULE Proxy -------------------------------
(***************************************************************************)
(* The local-handshake proxy between one MCP host and the shared daemon.   *)
(*                                                                         *)
(* The host's `initialize` and list requests are answered at once by the   *)
(* proxy; everything else goes to the daemon, or waits until it is known   *)
(* whether there is one.  If there is none, or it goes away, the proxy     *)
(* serves the session itself, beginning with what was forwarded and not    *)
(* answered.                                                               *)
(*                                                                         *)
(* Data abstraction.  A line is the JSON-RPC id it carries.  From the host *)
(* an id of Ids is a request and an id of SrvIds the answer to a request   *)
(* of the daemon; from the daemon it is the other way round.  Ids are used *)
(* once, as JSON-RPC demands of a host.  Notifications and lines that are  *)
(* no JSON are left out: they are forwarded or dropped, and nothing is     *)
(* remembered of them.  The properties do not depend on the order of lines,*)
(* so a stream is the set of the lines in it.                              *)
(***************************************************************************)
EXTENDS Naturals

CONSTANTS
    Ids,        \* ids of the host's requests
    SrvIds,     \* ids of the requests that the daemon's session may make
    KindOf      \* Ids -> "initialize", "list", "call", "other"

Lines == Ids \cup SrvIds

ASSUME ProxyAssumption ==
    /\ Ids \cap SrvIds = {}
    /\ KindOf \in [Ids -> {"initialize", "list", "call", "other"}]
    \* A host initializes its session once: only the last id is kept in clientInitId.
    /\ \A x, y \in Ids : KindOf[x] = "initialize" /\ KindOf[y] = "initialize" => x = y

VARIABLES
    up,         \* the proxy runs; FALSE: shutdown
    stale,      \* the installed build is not the one that runs (runtimeBuildSkew)
    closing,    \* a reply about the stale build was written, shutdown follows
    status,     \* daemonStatus: "connecting", "ready", "failed"
    pending,    \* lines buffered while connecting
    buffered,   \* lines of pending being served after the connection failed
    waitsFor,   \* lines of buffered that the loop over it awaits
    inflight,   \* requests forwarded and not answered
    serving,    \* tool calls that the in-process engine executes
    socket,     \* "none", "open", "lost": gone, but its close event not handled
    toDaemon, toProxy,    \* lines in the socket
    working,    \* requests that the daemon's session is handling
    srvAsked,   \* requests the daemon's session made
    asked,      \* requests the host made
    owes,       \* requests of the daemon that the host has not answered
    replies     \* Lines -> number of replies the host received for the id

host   == <<asked, owes>>
daemon == <<socket, toDaemon, toProxy, working, srvAsked>>
vars == <<up, stale, closing, status, pending, buffered, waitsFor, inflight,
          serving, socket, toDaemon, toProxy, working, srvAsked, asked, owes, replies>>

\* Types; requests and the daemon's own ids never share a queue.
TypeOK ==
    /\ up \in BOOLEAN /\ stale \in BOOLEAN /\ closing \in BOOLEAN
    /\ status \in {"connecting", "ready", "failed"}
    /\ pending \subseteq Ids /\ buffered \subseteq Ids /\ waitsFor \subseteq Ids
    /\ inflight \subseteq Ids /\ serving \subseteq Ids
    /\ socket \in {"none", "open", "lost"}
    /\ toDaemon \subseteq Lines /\ toProxy \subseteq Lines
    /\ working \subseteq Ids /\ srvAsked \subseteq SrvIds
    /\ asked \subseteq Ids /\ owes \subseteq SrvIds
    /\ replies \in [Lines -> Nat]

Init ==
    /\ up = TRUE /\ stale = FALSE /\ closing = FALSE
    /\ status = "connecting"
    /\ pending = {} /\ buffered = {} /\ waitsFor = {}
    /\ inflight = {} /\ serving = {}
    /\ socket = "none" /\ toDaemon = {} /\ toProxy = {}
    /\ working = {} /\ srvAsked = {}
    /\ asked = {} /\ owes = {}
    /\ replies = [x \in Lines |-> 0]

----------------------------------------------------------------------------
(* Serving and forwarding a line. *)

Kind(x) == IF x \in Ids THEN KindOf[x] ELSE "answer"

IdsOf(k) == {x \in Ids : KindOf[x] = k}

Replied(S) == [x \in Lines |-> IF x \in S THEN replies[x] + 1 ELSE replies[x]]

\* handleLocally: a tool call is executed, the handshake was answered already,
\* anything else that has an id is answered with an error (a ping: a result).
Executed(S)    == {x \in S : Kind(x) = "call"}
AnsweredNow(S) == {x \in S : Kind(x) \notin {"call", "initialize"}}

HandleLocally(S) ==
    /\ serving' = serving \cup Executed(S)
    /\ replies' = Replied(AnsweredNow(S))

\* Mutant: whatever has an id is tracked, the host's answers too.
AllTracked(S) == {x \in S : Kind(x) # "initialize"}

\* trackInflight: requests, but not the one whose reply is suppressed.
Tracked(S) == {x \in S : x \in Ids /\ Kind(x) # "initialize"}

\* A line written to a socket that is gone already is lost.
Forward(S) ==
    /\ inflight' = inflight \cup Tracked(S)
    /\ toDaemon' = IF socket = "open" THEN toDaemon \cup S ELSE toDaemon

RouteToDaemon(x) ==
    CASE status = "ready"      -> Forward({x}) /\ UNCHANGED <<pending, serving>>
      [] status = "failed"     -> /\ serving' = serving \cup Executed({x})
                                  /\ UNCHANGED <<pending, inflight, toDaemon>>
      [] status = "connecting" -> /\ pending' = pending \cup {x}
                                  /\ UNCHANGED <<inflight, toDaemon, serving>>

----------------------------------------------------------------------------
(* Lines from the host. *)

\* Every line is refused once the build is stale; the handshake and the lists
\* are static; without a daemon all but tool calls is answered on the spot.
AnsweredAtOnce(x) ==
    \/ stale
    \/ Kind(x) \in {"initialize", "list"}
    \/ status = "failed" /\ AnsweredNow({x}) # {}

\* The handler of process.stdin, for one line.
OnLine(x) ==
    /\ closing' = (closing \/ stale)
    /\ replies' = Replied({y \in {x} : AnsweredAtOnce(y)})
    /\ IF stale \/ Kind(x) = "list"
       THEN UNCHANGED <<pending, inflight, toDaemon, serving>>
       ELSE RouteToDaemon(x)

HostAsks(i) ==
    /\ up /\ i \notin asked
    /\ asked' = asked \cup {i}
    /\ OnLine(i)
    /\ UNCHANGED <<up, stale, status, buffered, waitsFor, socket, toProxy, working,
                   srvAsked, owes>>

HostAnswers(r) ==
    /\ up /\ r \in owes
    /\ owes' = owes \ {r}
    /\ OnLine(r)
    /\ UNCHANGED <<up, stale, status, buffered, waitsFor, socket, toProxy, working,
                   srvAsked, asked>>

\* Another build is installed over the running one.
Upgrade ==
    /\ up /\ ~stale
    /\ stale' = TRUE
    /\ UNCHANGED <<up, closing, status, pending, buffered, waitsFor, inflight, serving,
                   daemon, host, replies>>

\* The reply about the stale build is flushed, or the host is gone.
Shutdown ==
    /\ up
    /\ up' = FALSE
    /\ UNCHANGED <<stale, closing, status, pending, buffered, waitsFor, inflight,
                   serving, daemon, host, replies>>

----------------------------------------------------------------------------
(* The connection. *)

Connect ==
    /\ up /\ status = "connecting"
    /\ status' = "ready"
    /\ socket' = "open"
    /\ inflight' = inflight \cup Tracked(pending)
    /\ toDaemon' = toDaemon \cup pending
    /\ pending' = {}
    /\ UNCHANGED <<up, stale, closing, buffered, waitsFor, serving, toProxy, working,
                   srvAsked, host, replies>>

\* No daemon came up in time, or one of another build is there.
Unavailable ==
    /\ up /\ status = "connecting"
    /\ status' = "failed"
    /\ buffered' = pending
    /\ pending' = {}
    /\ UNCHANGED <<up, stale, closing, waitsFor, inflight, serving, daemon, host, replies>>

\* for (line of buffered) await handleLocally(line)
ServeBuffered(x) ==
    /\ up /\ x \in buffered
    /\ waitsFor \cap serving = {}
    /\ buffered' = buffered \ {x}
    /\ waitsFor' = {x}
    /\ HandleLocally({x})
    /\ UNCHANGED <<up, stale, closing, status, pending, inflight, daemon, host>>

\* The engine answers, with a result or with an error.
EngineAnswers(x) ==
    /\ up /\ x \in serving
    /\ serving' = serving \ {x}
    /\ replies' = Replied({x})
    /\ UNCHANGED <<up, stale, closing, status, pending, buffered, waitsFor, inflight,
                   daemon, host>>

\* Mutant: the daemon's reply to the forwarded initialize is passed on.
NotSuppressed(x) == x \notin Lines

\* resp.id === clientInitId, the id of the one initialize.
Suppressed(x) == Kind(x) = "initialize"

\* A line from the daemon: a reply, or a request of its session.
OnSocketLine(x) ==
    /\ up /\ status = "ready" /\ x \in toProxy
    /\ toProxy' = toProxy \ {x}
    /\ IF x \in SrvIds
       THEN owes' = owes \cup {x} /\ UNCHANGED <<inflight, replies>>
       ELSE /\ inflight' = inflight \ {x}
            /\ replies' = IF Suppressed(x) THEN replies ELSE Replied({x})
            /\ UNCHANGED owes
    /\ UNCHANGED <<up, stale, closing, status, pending, buffered, waitsFor, serving,
                   socket, toDaemon, working, srvAsked, asked>>

\* Mutant: in-flight requests are forgotten with the connection.
NothingOrphaned == {x \in inflight : x \notin Ids}

Orphaned == inflight

\* onDaemonLost: `close` and `error` come once the lines received are read.
OnDaemonLost ==
    /\ up /\ status = "ready" /\ socket = "lost" /\ toProxy = {}
    /\ status' = "failed"
    /\ inflight' = {}
    /\ HandleLocally(Orphaned)
    /\ UNCHANGED <<up, stale, closing, pending, buffered, waitsFor, daemon, host>>

----------------------------------------------------------------------------
(* The daemon's session at the other end of the socket. *)

DaemonTakes(x) ==
    /\ up /\ socket = "open" /\ x \in toDaemon
    /\ toDaemon' = toDaemon \ {x}
    /\ working' = working \cup ({x} \cap Ids)
    /\ UNCHANGED <<up, stale, closing, status, pending, buffered, waitsFor, inflight,
                   serving, socket, toProxy, srvAsked, host, replies>>

DaemonReplies(x) ==
    /\ up /\ socket = "open" /\ x \in working
    /\ working' = working \ {x}
    /\ toProxy' = toProxy \cup {x}
    /\ UNCHANGED <<up, stale, closing, status, pending, buffered, waitsFor, inflight,
                   serving, socket, toDaemon, srvAsked, host, replies>>

\* A tool call without a project makes the session ask for the host's roots.
DaemonAsksRoots(r) ==
    /\ up /\ socket = "open" /\ srvAsked = {}
    /\ working \cap IdsOf("call") # {}
    /\ srvAsked' = {r}
    /\ toProxy' = toProxy \cup {r}
    /\ UNCHANGED <<up, stale, closing, status, pending, buffered, waitsFor, inflight,
                   serving, socket, toDaemon, working, host, replies>>

\* The daemon stops or dies; some of what it wrote may still arrive.
DaemonDies ==
    /\ up /\ socket = "open"
    /\ socket' = "lost"
    /\ toDaemon' = {} /\ working' = {}
    /\ \E arriving \in SUBSET toProxy : toProxy' = arriving
    /\ UNCHANGED <<up, stale, closing, status, pending, buffered, waitsFor, inflight,
                   serving, srvAsked, host, replies>>

Next ==
    \/ \E i \in Ids : HostAsks(i) \/ ServeBuffered(i) \/ EngineAnswers(i) \/ DaemonReplies(i)
    \/ \E r \in SrvIds : HostAnswers(r) \/ DaemonAsksRoots(r)
    \/ \E x \in Lines : OnSocketLine(x) \/ DaemonTakes(x)
    \/ Upgrade
    \/ Shutdown
    \/ Connect
    \/ Unavailable
    \/ OnDaemonLost
    \/ DaemonDies

SafeSpec == Init /\ [][Next]_vars

\* The connection attempts are bounded in number and time, the event loop runs
\* what is ready, and a tool call ends, here and in the daemon.
Fairness ==
    /\ WF_vars(Connect \/ Unavailable)
    /\ WF_vars(OnDaemonLost)
    /\ \A x \in Lines : WF_vars(OnSocketLine(x)) /\ WF_vars(DaemonTakes(x))
    /\ \A i \in Ids : /\ WF_vars(ServeBuffered(i))
                      /\ WF_vars(EngineAnswers(i))
                      /\ WF_vars(DaemonReplies(i))
    /\ WF_vars(closing /\ Shutdown)

Spec == SafeSpec /\ Fairness

----------------------------------------------------------------------------
(* Properties. *)

\* While the daemon may die at any moment, each request that has no reply yet
\* is in the hands of exactly one of the proxy's queues, and one that has its
\* reply is in none: no request is dropped and none is served twice.
Holders(i) == {q \in {"pending", "buffered", "inflight", "serving"} :
                  \/ q = "pending"  /\ i \in pending
                  \/ q = "buffered" /\ i \in buffered
                  \/ q = "inflight" /\ i \in inflight
                  \/ q = "serving"  /\ i \in serving}

EachRequestHeldOnce ==
    \A i \in Ids \ IdsOf("initialize") :
        IF i \in asked /\ replies[i] = 0
        THEN \E q \in Holders(i) : Holders(i) = {q}
        ELSE Holders(i) = {}

\* The host sees what SessionContract promises: every request is answered
\* exactly once as long as the proxy runs, whatever becomes of the daemon.
Contract == INSTANCE SessionContract WITH
                open <- up, asked <- asked, replies <- [i \in Ids |-> replies[i]]

AnswersOnce == Contract!Spec
=============================================================================
