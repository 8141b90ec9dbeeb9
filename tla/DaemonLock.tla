----------------------------- MODULE DaemonLock -----------------------------
(***************************************************************************)
(* One shared daemon per project: how processes started for that purpose   *)
(* agree on who serves, over two files of .omniweave/: the pidfile and the *)
(* socket.  Each step is one system call on them, and a process may be     *)
(* killed between any two, leaving its files behind.                       *)
(*                                                                         *)
(* A launcher spawns a candidate when it found nothing listening, which    *)
(* may no longer be so by the time the candidate runs.  Pids are not used  *)
(* again.  The pidfile is created by link(), complete, so it is a pid or   *)
(* not there.  What a daemon does while it serves is left out.             *)
(* DL stands before the names that DaemonClients or Engine, which are      *)
(* about the same process, have too.                                       *)
(***************************************************************************)
EXTENDS Integers, FiniteSets

CONSTANTS
    Procs,          \* processes started with OMNIWEAVE_DAEMON_INTERNAL
    Nobody,         \* "no such file"
    MaxTries,       \* TAKEOVER_MAX_RETRIES
    MaxCrashes      \* bound: processes killed

ASSUME DaemonLockAssumption ==
    /\ Nobody \notin Procs
    /\ MaxTries \in Nat \ {0}
    /\ MaxCrashes \in Nat

VARIABLES
    doing,          \* Procs -> what the process does next
    seen,           \* Procs -> the pid it read in the pidfile
    tries,          \* Procs -> attempts before this one
    pidfile,        \* Nobody or the pid in it
    socket,         \* Nobody or the process that made the socket file
    crashes,
    raced           \* history: see Contended

DLvars == <<doing, seen, tries, pidfile, socket, crashes, raced>>

\* Holding the lock as the daemon.
Reigning == {"bind", "listen", "serving", "closing", "unlinkOwn"}

States == Reigning \cup {"new", "link", "read", "check", "clear", "probe", "unlinkStale",
                         "unlinkSocket", "gone", "dead"}

\* Types; no candidate attempts to take the lock more than MaxTries times.
DLTypeOK ==
    /\ doing \in [Procs -> States]
    /\ seen \in [Procs -> Procs \cup {Nobody}]
    /\ tries \in [Procs -> 0..(MaxTries - 1)]
    /\ pidfile \in Procs \cup {Nobody}
    /\ socket \in Procs \cup {Nobody}
    /\ crashes \in 0..MaxCrashes
    /\ raced \in BOOLEAN

DLInit ==
    /\ doing = [p \in Procs |-> "new"]
    /\ seen = [p \in Procs |-> Nobody]
    /\ tries = [p \in Procs |-> 0]
    /\ pidfile = Nobody
    /\ socket = Nobody
    /\ crashes = 0
    /\ raced = FALSE

Moves(p, from, to) == doing[p] = from /\ doing' = [doing EXCEPT ![p] = to]

isProcessAlive(p) == p # Nobody /\ doing[p] \notin {"new", "gone", "dead"}

Spawn(p) ==
    /\ Moves(p, "new", "link")
    /\ UNCHANGED <<seen, tries, pidfile, socket, crashes, raced>>

----------------------------------------------------------------------------
(* tryAcquireDaemonLock *)

\* Mutant: the pidfile of a dead process is written over.
TakenByLive == isProcessAlive(pidfile)

Taken == pidfile # Nobody

\* link(): fails if the pidfile is there.
Link(p) ==
    /\ Moves(p, "link", IF Taken THEN "read" ELSE "bind")
    /\ pidfile' = IF Taken THEN pidfile ELSE p
    /\ UNCHANGED <<seen, tries, socket, crashes, raced>>

ReadHolder(p) ==
    /\ Moves(p, "read", "check")
    /\ seen' = [seen EXCEPT ![p] = pidfile]
    /\ UNCHANGED <<tries, pidfile, socket, crashes, raced>>

----------------------------------------------------------------------------
(* The loop of startDaemonProcess, and clearStaleDaemonLock. *)

CheckHolder(p) ==
    /\ Moves(p, "check", IF isProcessAlive(seen[p]) THEN "gone" ELSE "clear")
    /\ UNCHANGED <<seen, tries, pidfile, socket, crashes, raced>>

\* Mutant: one attempt too many.
TriesLeftOrOneMore(p) == tries[p] < MaxTries

TriesLeft(p) == tries[p] + 1 < MaxTries

Retry(p) ==
    IF TriesLeft(p)
    THEN /\ doing' = [doing EXCEPT ![p] = "link"]
         /\ tries' = [tries EXCEPT ![p] = @ + 1]
    ELSE /\ doing' = [doing EXCEPT ![p] = "gone"]
         /\ UNCHANGED tries

\* The pidfile, read again, names the process seen before, if one was.
StillStale(p) == pidfile # Nobody /\ (seen[p] # Nobody => pidfile = seen[p])

\* Another process is clearing the pidfile too, or none was seen in it before.
Contended(p) ==
    \/ seen[p] = Nobody
    \/ \E q \in Procs \ {p} : doing[q] \in {"probe", "unlinkStale"}

Reread(p) ==
    /\ doing[p] = "clear"
    /\ IF StillStale(p)
       THEN /\ doing' = [doing EXCEPT ![p] = "probe"]
            /\ seen' = [seen EXCEPT ![p] = pidfile]
            /\ raced' = (raced \/ Contended(p))
            /\ UNCHANGED tries
       ELSE Retry(p) /\ UNCHANGED <<seen, raced>>
    /\ UNCHANGED <<pidfile, socket, crashes>>

Probe(p) ==
    /\ doing[p] = "probe"
    /\ IF isProcessAlive(seen[p])
       THEN Retry(p)
       ELSE doing' = [doing EXCEPT ![p] = "unlinkStale"] /\ UNCHANGED tries
    /\ UNCHANGED <<seen, pidfile, socket, crashes, raced>>

UnlinkStale(p) ==
    /\ doing[p] = "unlinkStale"
    /\ pidfile' = Nobody
    /\ Retry(p)
    /\ UNCHANGED <<seen, socket, crashes, raced>>

----------------------------------------------------------------------------
(* Daemon.start and Daemon.stop *)

\* Mutant: a socket file left by a dead daemon stays.
SocketStays == socket

SocketUnlinked == Nobody

Bind(p) ==
    /\ Moves(p, "bind", "listen")
    /\ socket' = SocketUnlinked
    /\ UNCHANGED <<seen, tries, pidfile, crashes, raced>>

\* listen() creates the socket file, and fails if it is there: start() throws
\* and the command ends.
Listen(p) ==
    /\ Moves(p, "listen", IF socket = Nobody THEN "serving" ELSE "gone")
    /\ socket' = IF socket = Nobody THEN p ELSE socket
    /\ UNCHANGED <<seen, tries, pidfile, crashes, raced>>

\* A signal, the idle timer, the inactivity backstop or a new build.  Closing
\* the server removes the file it was bound to.
StopServing(p) ==
    /\ Moves(p, "serving", "closing")
    /\ socket' = Nobody
    /\ UNCHANGED <<seen, tries, pidfile, crashes, raced>>

\* cleanupLockfile reads the pidfile, and removes it if the pid is its own.
ReadOwn(p) ==
    /\ Moves(p, "closing", IF pidfile = p THEN "unlinkOwn" ELSE "unlinkSocket")
    /\ UNCHANGED <<seen, tries, pidfile, socket, crashes, raced>>

UnlinkOwn(p) ==
    /\ Moves(p, "unlinkOwn", "unlinkSocket")
    /\ pidfile' = Nobody
    /\ UNCHANGED <<seen, tries, socket, crashes, raced>>

UnlinkSocket(p) ==
    /\ Moves(p, "unlinkSocket", "gone")
    /\ socket' = Nobody
    /\ UNCHANGED <<seen, tries, pidfile, crashes, raced>>

Crash(p) ==
    /\ crashes < MaxCrashes /\ isProcessAlive(p)
    /\ crashes' = crashes + 1
    /\ doing' = [doing EXCEPT ![p] = "dead"]
    /\ UNCHANGED <<seen, tries, pidfile, socket, raced>>

\* What a process does on its own account, once started.
Step(p) ==
    \/ Link(p)
    \/ ReadHolder(p)
    \/ CheckHolder(p)
    \/ Reread(p)
    \/ Probe(p)
    \/ UnlinkStale(p)
    \/ Bind(p)
    \/ Listen(p)
    \/ ReadOwn(p)
    \/ UnlinkOwn(p)
    \/ UnlinkSocket(p)

DLNext == \E p \in Procs : Spawn(p) \/ Step(p) \/ StopServing(p) \/ Crash(p)

\* The operating system runs every process; nobody has to spawn, stop or kill one.
DLSpec == DLInit /\ [][DLNext]_DLvars /\ \A p \in Procs : WF_DLvars(Step(p))

----------------------------------------------------------------------------
(* Properties. *)

\* daemon.ts: without it there are "two daemons (two watchers, two writers)".
OneDaemon == Cardinality({p \in Procs : doing[p] \in Reigning}) <= 1

\* One daemon reigns at a time, through crashes and takeovers, unless two
\* candidates cleared the pidfile at the same time, or one did that had found
\* no pid in it at first.
OneDaemonUnlessRaced == ~raced => OneDaemon

\* clearStaleDaemonLock and start() clear what predecessors left behind: a
\* candidate that finds itself alone comes to serve, unless it is killed.
Alone(p) == doing[p] = "link" /\ tries[p] = 0 /\ \A q \in Procs \ {p} : doing[q] \in {"gone", "dead"}

TakesOver == \A p \in Procs : Alone(p) ~> doing[p] \in {"serving", "dead"}

\* The daemon that serves can be reached: launchers find it by the socket file.
ServingIsReachable == \A p \in Procs : doing[p] = "serving" => socket = p
=============================================================================
