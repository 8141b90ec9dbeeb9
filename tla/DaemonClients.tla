---------------------------- MODULE DaemonClients ----------------------------
(***************************************************************************)
(* The connections of the shared daemon and the four ways it ends: nobody  *)
(* connected (idle timer), nobody said anything (inactivity backstop), a   *)
(* signal or a new build, or never, as long as a client is at work.        *)
(*                                                                         *)
(* A connection is first in its hello, which it may skip or send late, and *)
(* then a client, counted.  Its peer process may die, close the socket, or *)
(* die and leave the socket open, as happens with named pipes.  DC stands  *)
(* before the names that DaemonLock or Engine have too.                    *)
(***************************************************************************)
EXTENDS Naturals

CONSTANT Conns          \* connections that may be made

VARIABLES
    stage,      \* Conns -> what the daemon takes the connection for
    wire,       \* Conns -> the socket, seen from the daemon
    alive,      \* Conns -> the peer process and its host run
    pids,       \* Conns -> their pids are known from the client-hello
    idleTimer,  \* armed
    recent,     \* inbound traffic within maxIdleMs
    phase       \* of the daemon

DCvars == <<stage, wire, alive, pids, idleTimer, recent, phase>>

\* wire "closing": the peer has closed, the close event is yet to be handled.
\* A connection the daemon is done with has no socket left.
DCTypeOK ==
    /\ stage \in [Conns -> {"new", "hello", "client", "out"}]
    /\ wire \in [Conns -> {"none", "open", "closing", "closed"}]
    /\ alive \in [Conns -> BOOLEAN]
    /\ pids \in [Conns -> BOOLEAN]
    /\ idleTimer \in BOOLEAN
    /\ recent \in BOOLEAN
    /\ phase \in {"serving", "stopping", "exited"}
    /\ \A c \in Conns : /\ stage[c] = "new" <=> wire[c] = "none"
                       /\ stage[c] = "out" => wire[c] = "closed"

Clients == {c \in Conns : stage[c] = "client"}

\* start() has armed the timer: nobody is connected yet.
DCInit ==
    /\ stage = [c \in Conns |-> "new"]
    /\ wire = [c \in Conns |-> "none"]
    /\ alive = [c \in Conns |-> TRUE]
    /\ pids = [c \in Conns |-> FALSE]
    /\ idleTimer = TRUE
    /\ recent = TRUE
    /\ phase = "serving"

Running == phase # "exited"

----------------------------------------------------------------------------
(* The peers. *)

Connect(c) ==
    /\ phase = "serving" /\ stage[c] = "new" /\ alive[c]
    /\ stage' = [stage EXCEPT ![c] = "hello"]
    /\ wire' = [wire EXCEPT ![c] = "open"]
    /\ UNCHANGED <<alive, pids, idleTimer, recent, phase>>

\* A proxy that meets another build closes at once, before its client-hello.
PeerCloses(c) ==
    /\ Running /\ wire[c] = "open"
    /\ wire' = [wire EXCEPT ![c] = "closing"]
    /\ UNCHANGED <<stage, alive, pids, idleTimer, recent, phase>>

PeerDies(c) ==
    /\ Running /\ wire[c] = "open" /\ alive[c]
    /\ alive' = [alive EXCEPT ![c] = FALSE]
    /\ UNCHANGED <<stage, wire, pids, idleTimer, recent, phase>>

\* A line of a client: the 'data' listener notes the time.
Traffic(c) ==
    /\ Running /\ c \in Clients /\ wire[c] = "open" /\ alive[c]
    /\ recent' = TRUE
    /\ UNCHANGED <<stage, wire, alive, pids, idleTimer, phase>>

\* maxIdleMs without any.
Quiet ==
    /\ Running /\ recent
    /\ recent' = FALSE
    /\ UNCHANGED <<stage, wire, alive, pids, idleTimer, phase>>

----------------------------------------------------------------------------
(* handleConnection and readClientHello. *)

\* Mutant: a new client does not stop the idle timer.
StaysArmed == idleTimer

Disarmed == FALSE

\* readClientHello resolved: there is a session, and a client.
Count(c, known) ==
    /\ stage' = [stage EXCEPT ![c] = "client"]
    /\ pids' = [pids EXCEPT ![c] = known]
    /\ idleTimer' = Disarmed
    /\ UNCHANGED <<alive, phase>>

HelloRead(c) ==
    /\ Running /\ stage[c] = "hello" /\ wire[c] \in {"open", "closing"}
    /\ Count(c, TRUE)
    /\ UNCHANGED <<wire, recent>>

\* The first line is a request: it is put back and read again as data.
RequestRead(c) ==
    /\ Running /\ stage[c] = "hello" /\ wire[c] \in {"open", "closing"}
    /\ Count(c, FALSE)
    /\ recent' = TRUE
    /\ UNCHANGED wire

HelloTimeout(c) ==
    /\ Running /\ stage[c] = "hello" /\ wire[c] \in {"open", "closing"}
    /\ Count(c, FALSE)
    /\ UNCHANGED <<wire, recent>>

----------------------------------------------------------------------------
(* Clients that leave. *)

\* Mutant: the last one to leave does not arm the timer.
NotArmed(left) == idleTimer

\* dropClient and armIdleTimer, with the clients that are left.
Armed(left) == idleTimer \/ (left = {} /\ phase = "serving")

DroppedAtClose(c) == "out"

\* The close event.  In the hello it resolves readClientHello, and a session is
\* made for a socket that has no close event to come.
CloseEvent(c) ==
    /\ Running /\ wire[c] = "closing"
    /\ wire' = [wire EXCEPT ![c] = "closed"]
    /\ IF stage[c] = "hello"
       THEN Count(c, FALSE)
       ELSE /\ stage' = [stage EXCEPT ![c] = DroppedAtClose(c)]
            /\ idleTimer' = Armed(Clients \ {c})
            /\ UNCHANGED <<alive, pids, phase>>
    /\ UNCHANGED recent

\* Mutant: a client whose pid is not known counts as dead.
DeadOrUnknown(c) == ~(pids[c] /\ alive[c])

PeerIsDead(c) == pids[c] /\ ~alive[c]

ReapDeadClients ==
    LET reaped == {c \in Clients : PeerIsDead(c)} IN
    /\ phase = "serving" /\ reaped # {}
    /\ stage' = [c \in Conns |-> IF c \in reaped THEN "out" ELSE stage[c]]
    /\ wire' = [c \in Conns |-> IF c \in reaped THEN "closed" ELSE wire[c]]
    /\ idleTimer' = Armed(Clients \ reaped)
    /\ UNCHANGED <<alive, pids, recent, phase>>

----------------------------------------------------------------------------
(* The end of the daemon. *)

\* Mutant: the clients are forgotten, their sockets stay.
WiresForgotten == wire

WiresStopped == [c \in Conns |-> IF c \in Clients THEN "closed" ELSE wire[c]]

StopDaemon ==
    /\ phase = "serving"
    /\ phase' = "stopping"
    /\ idleTimer' = FALSE
    /\ stage' = [c \in Conns |-> IF c \in Clients THEN "out" ELSE stage[c]]
    /\ wire' = WiresStopped
    /\ UNCHANGED <<alive, pids, recent>>

IdleFires ==
    /\ Running /\ idleTimer
    /\ IF Clients = {}
       THEN StopDaemon
       ELSE /\ idleTimer' = Armed({})
            /\ UNCHANGED <<stage, wire, alive, pids, recent, phase>>

\* Mutant: the backstop leaves a daemon with unidentified clients alone.
SilentIdentified == ~recent /\ \E c \in Clients : pids[c]

Silent == ~recent /\ Clients # {}

Backstop == Silent /\ StopDaemon

\* A signal, or a request or connection to a daemon whose build was replaced.
StopAsked == StopDaemon

\* server.close() is done when no connection is left; then the process exits.
ServerClosed ==
    /\ phase = "stopping"
    /\ \A c \in Conns : wire[c] \notin {"open", "closing"}
    /\ phase' = "exited"
    /\ UNCHANGED <<stage, wire, alive, pids, idleTimer, recent>>

DCNext ==
    \/ \E c \in Conns :
        \/ Connect(c)
        \/ PeerCloses(c)
        \/ PeerDies(c)
        \/ Traffic(c)
        \/ HelloRead(c)
        \/ RequestRead(c)
        \/ HelloTimeout(c)
        \/ CloseEvent(c)
    \/ Quiet
    \/ ReapDeadClients
    \/ IdleFires
    \/ Backstop
    \/ StopAsked
    \/ ServerClosed

\* Timers fire and events are handled.  Nothing is assumed of the peers, not
\* even that the socket of a dead one closes.
DCFairness ==
    /\ \A c \in Conns : WF_DCvars(HelloTimeout(c)) /\ WF_DCvars(CloseEvent(c))
    /\ WF_DCvars(Quiet)
    /\ WF_DCvars(ReapDeadClients)
    /\ WF_DCvars(IdleFires)
    /\ WF_DCvars(Backstop)
    /\ WF_DCvars(ServerClosed)

DCSpec == DCInit /\ [][DCNext]_DCvars /\ DCFairness

----------------------------------------------------------------------------
(* Properties. *)

\* armIdleTimer, disarmIdleTimer: while the daemon serves, the timer runs
\* exactly when no client is counted, whatever order clients come and go in.
IdleTimerMatches == phase = "serving" => (idleTimer <=> Clients = {})

\* dropClient: a client that sent its client-hello is not counted longer than
\* its socket exists.  (One that closed during its hello is.)
IdentifiedClientsLeave == \A c \in Clients : pids[c] => wire[c] \in {"open", "closing"}

\* reapDeadClients: a client at work leaves on its own or when the daemon stops.
LiveClientsStay ==
    [][\A c \in Clients : alive[c] /\ wire[c] = "open" /\ stage'[c] = "out"
                          => phase' = "stopping"]_DCvars

\* A daemon whose clients are all gone does not stay, though their sockets
\* may never close and some of them never said who they are.
Abandoned == \A c \in Conns : alive[c] => wire[c] # "open"

AbandonedStops == <>[]Abandoned => <>(phase # "serving")

\* Daemon.stop comes to its end, unless a connection was in its hello when it
\* began and is a client now.
Escaped == \E c \in Clients : wire[c] = "open"

StopEnds == phase = "stopping" ~> (phase = "exited" \/ Escaped)
=============================================================================
