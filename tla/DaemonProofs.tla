---------------------------- MODULE DaemonProofs ----------------------------
(***************************************************************************)
(* The daemon process, for every number of everything: as long as no two   *)
(* candidates clear the pidfile at the same time, one daemon reigns        *)
(* (DaemonLock); its idle timer runs exactly when no client is counted,    *)
(* and clients that identified themselves neither stay behind their socket *)
(* nor are thrown out while they are at work (DaemonClients); unless an    *)
(* open() was overtaken, its engine opens the project once, watches it if  *)
(* it serves it, and lets the first call wait for the catch-up (Engine).   *)
(***************************************************************************)
EXTENDS DaemonLock, DaemonClients, Engine, FiniteSetTheorems, TLAPS

(* DaemonLock.                                                             *)

Clearing == {"probe", "unlinkStale"}

\* The pidfile is made by a process that was started: it cannot come alive.
PidWasStarted == pidfile # Nobody => doing[pidfile] # "new"

\* The pid of every reigning process is in the pidfile.
HoldsLock == \A p \in Procs : doing[p] \in Reigning => pidfile = p

\* What a candidate found dead stays dead.
SeenIsDead ==
    \A p \in Procs : doing[p] \in Clearing \cup {"clear"} =>
        \/ seen[p] = Nobody /\ doing[p] = "clear"
        \/ seen[p] \in Procs /\ doing[seen[p]] \in {"gone", "dead"}

\* It is also what the pidfile still says when the candidate clears it, and
\* nobody else is about to.
ClearsAlone ==
    \A p \in Procs : doing[p] \in Clearing =>
        /\ pidfile = seen[p]
        /\ \A q \in Procs : doing[q] \in Clearing => q = p

SeenWasStarted == \A p \in Procs : seen[p] # Nobody => doing[seen[p]] # "new"

Orderly == HoldsLock /\ SeenIsDead /\ ClearsAlone

DLInv ==
    /\ DLTypeOK
    /\ PidWasStarted
    /\ SeenWasStarted
    /\ ~raced => Orderly

----------------------------------------------------------------------------
(* Types. *)

\* Nobody was started: a state of these types.
LEMMA DLTypesHold == DLInit => DLTypeOK
  <1> SUFFICES ASSUME DLInit PROVE DLTypeOK
    OBVIOUS
  <1>1. 0 \in 0..(MaxTries - 1) /\ 0 \in 0..MaxCrashes
    BY DaemonLockAssumption
  <1>2. raced \in BOOLEAN
    BY DEF DLInit
  <1>3. doing \in [Procs -> States]
    BY DEF DLInit, States
  <1>4. tries \in [Procs -> 0..(MaxTries - 1)] /\ crashes \in 0..MaxCrashes
    BY <1>1 DEF DLInit
  <1> QED
    BY <1>2, <1>3, <1>4 DEF DLInit, DLTypeOK

\* Every action of a process keeps the types.
LEMMA DLTypesKept == DLTypeOK /\ [DLNext]_DLvars => DLTypeOK'
  <1> SUFFICES ASSUME DLTypeOK, [DLNext]_DLvars PROVE DLTypeOK'
    OBVIOUS
  <1> USE DaemonLockAssumption DEF DLTypeOK, States, Reigning
  <1>0. CASE UNCHANGED DLvars
    BY <1>0 DEF DLvars
  <1>1. ASSUME NEW p \in Procs, Spawn(p) PROVE DLTypeOK'
    BY <1>1 DEF Spawn, Moves
  <1>2. ASSUME NEW p \in Procs, Link(p) PROVE DLTypeOK'
    BY <1>2 DEF Link, Moves, Taken
  <1>3. ASSUME NEW p \in Procs, ReadHolder(p) PROVE DLTypeOK'
    BY <1>3 DEF ReadHolder, Moves
  <1>4. ASSUME NEW p \in Procs, CheckHolder(p) PROVE DLTypeOK'
    BY <1>4 DEF CheckHolder, Moves, isProcessAlive
  <1>5. ASSUME NEW p \in Procs, Reread(p) PROVE DLTypeOK'
    <2>1. raced' \in BOOLEAN
      BY <1>5, Zenon DEF Reread
    <2>2. doing' \in [Procs -> States] /\ seen' \in [Procs -> Procs \cup {Nobody}]
      BY <1>5 DEF Reread, Retry, StillStale
    <2>3. tries' \in [Procs -> 0..(MaxTries - 1)]
      BY <1>5 DEF Reread, Retry, TriesLeft
    <2> QED
      BY <1>5, <2>1, <2>2, <2>3 DEF Reread
  <1>6. ASSUME NEW p \in Procs, Probe(p) PROVE DLTypeOK'
    BY <1>6 DEF Probe, Retry, TriesLeft, isProcessAlive
  <1>7. ASSUME NEW p \in Procs, UnlinkStale(p) PROVE DLTypeOK'
    BY <1>7 DEF UnlinkStale, Retry, TriesLeft
  <1>8. ASSUME NEW p \in Procs, Bind(p) PROVE DLTypeOK'
    BY <1>8 DEF Bind, Moves, SocketUnlinked
  <1>9. ASSUME NEW p \in Procs, Listen(p) PROVE DLTypeOK'
    BY <1>9 DEF Listen, Moves
  <1>10. ASSUME NEW p \in Procs, StopServing(p) PROVE DLTypeOK'
    BY <1>10 DEF StopServing, Moves
  <1>11. ASSUME NEW p \in Procs, ReadOwn(p) PROVE DLTypeOK'
    BY <1>11 DEF ReadOwn, Moves
  <1>12. ASSUME NEW p \in Procs, UnlinkOwn(p) PROVE DLTypeOK'
    BY <1>12 DEF UnlinkOwn, Moves
  <1>13. ASSUME NEW p \in Procs, UnlinkSocket(p) PROVE DLTypeOK'
    BY <1>13 DEF UnlinkSocket, Moves
  <1>14. ASSUME NEW p \in Procs, Crash(p) PROVE DLTypeOK'
    BY <1>14 DEF Crash, isProcessAlive
  <1> QED
    BY <1>0, <1>1, <1>2, <1>3, <1>4, <1>5, <1>6, <1>7,
       <1>8, <1>9, <1>10, <1>11, <1>12, <1>13, <1>14 DEF DLNext, Step

\* The types hold for every number of candidates, retries and crashes.
THEOREM LockTypeCorrect == DLSpec => []DLTypeOK
  BY DLTypesHold, DLTypesKept, PTL DEF DLSpec

----------------------------------------------------------------------------
(* The inductive invariant. *)

\* No pid is known before a process is started.
LEMMA StartedInit == DLInit => PidWasStarted /\ SeenWasStarted
  BY DaemonLockAssumption DEF DLInit, PidWasStarted, SeenWasStarted

\* Nobody is spawned twice, and only who was spawned writes the pidfile.
LEMMA StartedKept ==
  DLTypeOK /\ PidWasStarted /\ SeenWasStarted /\ [DLNext]_DLvars
    => PidWasStarted' /\ SeenWasStarted'
  <1> SUFFICES ASSUME DLTypeOK, PidWasStarted, SeenWasStarted, [DLNext]_DLvars
               PROVE  PidWasStarted' /\ SeenWasStarted'
    OBVIOUS
  <1> USE DaemonLockAssumption DEF DLTypeOK, States, Reigning, PidWasStarted, SeenWasStarted
  <1>0. CASE UNCHANGED DLvars
    BY <1>0 DEF DLvars
  <1>1. ASSUME NEW p \in Procs, Spawn(p) PROVE PidWasStarted' /\ SeenWasStarted'
    BY <1>1 DEF Spawn, Moves
  <1>2. ASSUME NEW p \in Procs, Link(p) PROVE PidWasStarted' /\ SeenWasStarted'
    BY <1>2 DEF Link, Moves, Taken
  <1>3. ASSUME NEW p \in Procs, ReadHolder(p) PROVE PidWasStarted' /\ SeenWasStarted'
    BY <1>3 DEF ReadHolder, Moves
  <1>4. ASSUME NEW p \in Procs, CheckHolder(p) PROVE PidWasStarted' /\ SeenWasStarted'
    BY <1>4 DEF CheckHolder, Moves, isProcessAlive
  <1>5. ASSUME NEW p \in Procs, Reread(p) PROVE PidWasStarted' /\ SeenWasStarted'
    BY <1>5 DEF Reread, Retry, StillStale, Contended
  <1>6. ASSUME NEW p \in Procs, Probe(p) PROVE PidWasStarted' /\ SeenWasStarted'
    BY <1>6 DEF Probe, Retry, isProcessAlive
  <1>7. ASSUME NEW p \in Procs, UnlinkStale(p) PROVE PidWasStarted' /\ SeenWasStarted'
    BY <1>7 DEF UnlinkStale, Retry
  <1>8. ASSUME NEW p \in Procs, Bind(p) PROVE PidWasStarted' /\ SeenWasStarted'
    BY <1>8 DEF Bind, Moves
  <1>9. ASSUME NEW p \in Procs, Listen(p) PROVE PidWasStarted' /\ SeenWasStarted'
    BY <1>9 DEF Listen, Moves
  <1>10. ASSUME NEW p \in Procs, StopServing(p) PROVE PidWasStarted' /\ SeenWasStarted'
    BY <1>10 DEF StopServing, Moves
  <1>11. ASSUME NEW p \in Procs, ReadOwn(p) PROVE PidWasStarted' /\ SeenWasStarted'
    BY <1>11 DEF ReadOwn, Moves
  <1>12. ASSUME NEW p \in Procs, UnlinkOwn(p) PROVE PidWasStarted' /\ SeenWasStarted'
    BY <1>12 DEF UnlinkOwn, Moves
  <1>13. ASSUME NEW p \in Procs, UnlinkSocket(p) PROVE PidWasStarted' /\ SeenWasStarted'
    BY <1>13 DEF UnlinkSocket, Moves
  <1>14. ASSUME NEW p \in Procs, Crash(p) PROVE PidWasStarted' /\ SeenWasStarted'
    BY <1>14 DEF Crash, isProcessAlive
  <1> QED
    BY <1>0, <1>1, <1>2, <1>3, <1>4, <1>5, <1>6, <1>7,
       <1>8, <1>9, <1>10, <1>11, <1>12, <1>13, <1>14 DEF DLNext, Step

\* Nobody holds the lock, has read a pid or clears anything.
LEMMA OrderlyInit == DLInit => Orderly
  BY DEF DLInit, Orderly, HoldsLock, SeenIsDead, ClearsAlone, Clearing, Reigning

\* While no two clear the pidfile at once, it names the daemon that reigns, or a
\* dead process that one candidate clears.
LEMMA OrderlyKept ==
  DLTypeOK /\ SeenWasStarted /\ (~raced => Orderly) /\ [DLNext]_DLvars
    => (~raced' => Orderly')
  <1> SUFFICES ASSUME DLTypeOK, SeenWasStarted, ~raced => Orderly, [DLNext]_DLvars
               PROVE  ~raced' => Orderly'
    OBVIOUS
  <1> USE DaemonLockAssumption DEF DLTypeOK, States, Reigning, SeenWasStarted,
      Orderly, HoldsLock, SeenIsDead, ClearsAlone, Clearing
  <1>0. CASE UNCHANGED DLvars
    BY <1>0 DEF DLvars
  <1>1. ASSUME NEW p \in Procs, Spawn(p) PROVE ~raced' => Orderly'
    BY <1>1 DEF Spawn, Moves
  <1>2. ASSUME NEW p \in Procs, Link(p) PROVE ~raced' => Orderly'
    BY <1>2 DEF Link, Moves, Taken
  <1>3. ASSUME NEW p \in Procs, ReadHolder(p) PROVE ~raced' => Orderly'
    BY <1>3 DEF ReadHolder, Moves
  <1>4. ASSUME NEW p \in Procs, CheckHolder(p) PROVE ~raced' => Orderly'
    BY <1>4 DEF CheckHolder, Moves, isProcessAlive
  <1>5. ASSUME NEW p \in Procs, Reread(p) PROVE ~raced' => Orderly'
    <2>1. CASE ~StillStale(p)
      BY <1>5, <2>1 DEF Reread, Retry
    <2>2. CASE StillStale(p)
      <3> SUFFICES ASSUME ~raced' PROVE Orderly'
        OBVIOUS
      <3>1. ~raced /\ ~Contended(p)
        BY <1>5, <2>2, Zenon DEF Reread
      <3>2. /\ doing' = [doing EXCEPT ![p] = "probe"]
            /\ seen' = [seen EXCEPT ![p] = pidfile]
            /\ UNCHANGED pidfile
            /\ doing[p] = "clear"
        BY <1>5, <2>2 DEF Reread
      <3>3. pidfile = seen[p] /\ seen' = seen
        BY <2>2, <3>1, <3>2 DEF StillStale, Contended
      <3>4. \A q \in Procs : doing'[q] \in Clearing => q = p
        BY <3>1, <3>2 DEF Contended
      <3>5. HoldsLock'
        BY <3>1, <3>2
      <3>6. SeenIsDead'
        <4>1. \A q \in Procs : doing'[q] \in Clearing \cup {"clear"}
                => doing[q] \in Clearing \cup {"clear"}
          BY <3>2
        <4>2. \A q \in Procs : doing[q] \in {"gone", "dead"} => doing'[q] = doing[q]
          BY <3>2
        <4>3. seen[p] # Nobody
          BY <3>1 DEF Contended
        <4>4. \A q \in Procs : doing'[q] = "clear" => doing[q] = "clear"
          BY <3>2
        <4> QED
          BY <3>1, <3>2, <3>3, <4>1, <4>2, <4>3, <4>4
      <3>7. ClearsAlone'
        BY <3>2, <3>3, <3>4
      <3> QED
        BY <3>5, <3>6, <3>7
    <2> QED
      BY <2>1, <2>2
  <1>6. ASSUME NEW p \in Procs, Probe(p) PROVE ~raced' => Orderly'
    BY <1>6 DEF Probe, Retry, isProcessAlive
  <1>7. ASSUME NEW p \in Procs, UnlinkStale(p) PROVE ~raced' => Orderly'
    BY <1>7 DEF UnlinkStale, Retry
  <1>8. ASSUME NEW p \in Procs, Bind(p) PROVE ~raced' => Orderly'
    BY <1>8 DEF Bind, Moves
  <1>9. ASSUME NEW p \in Procs, Listen(p) PROVE ~raced' => Orderly'
    BY <1>9 DEF Listen, Moves
  <1>10. ASSUME NEW p \in Procs, StopServing(p) PROVE ~raced' => Orderly'
    BY <1>10 DEF StopServing, Moves
  <1>11. ASSUME NEW p \in Procs, ReadOwn(p) PROVE ~raced' => Orderly'
    BY <1>11 DEF ReadOwn, Moves
  <1>12. ASSUME NEW p \in Procs, UnlinkOwn(p) PROVE ~raced' => Orderly'
    BY <1>12 DEF UnlinkOwn, Moves
  <1>13. ASSUME NEW p \in Procs, UnlinkSocket(p) PROVE ~raced' => Orderly'
    BY <1>13 DEF UnlinkSocket, Moves
  <1>14. ASSUME NEW p \in Procs, Crash(p) PROVE ~raced' => Orderly'
    BY <1>14 DEF Crash, isProcessAlive
  <1> QED
    BY <1>0, <1>1, <1>2, <1>3, <1>4, <1>5, <1>6, <1>7,
       <1>8, <1>9, <1>10, <1>11, <1>12, <1>13, <1>14 DEF DLNext, Step

\* Every call of every candidate keeps the lock with its holder, unless raced.
THEOREM LockInvariance == DLSpec => []DLInv
  <1>1. DLInit => DLInv
    BY DLTypesHold, StartedInit, OrderlyInit DEF DLInv
  <1>2. DLInv /\ [DLNext]_DLvars => DLInv'
    BY DLTypesKept, StartedKept, OrderlyKept DEF DLInv
  <1> QED
    BY <1>1, <1>2, PTL DEF DLSpec

----------------------------------------------------------------------------
(* One daemon. *)

\* The daemons that reign are the one in the pidfile.
LEMMA LockIsExclusive == HoldsLock => OneDaemon
  <1> SUFFICES ASSUME HoldsLock PROVE OneDaemon
    OBVIOUS
  <1> DEFINE R == {p \in Procs : doing[p] \in Reigning}
  <1>1. R \in SUBSET {pidfile}
    BY DEF HoldsLock
  <1>2. IsFiniteSet({pidfile}) /\ Cardinality({pidfile}) = 1
    BY FS_Singleton
  <1> HIDE DEF R
  <1>3. Cardinality(R) <= 1
    BY <1>1, <1>2, FS_Subset
  <1> QED
    BY <1>3 DEF R, OneDaemon

\* startDaemonProcess, Daemon.start and Daemon.stop: for every number of
\* candidates, retries and crashes, one daemon reigns at a time unless two
\* candidates cleared the pidfile at once.
THEOREM OneDaemonReigns == DLSpec => []OneDaemonUnlessRaced
  <1>1. DLInv => OneDaemonUnlessRaced
    BY LockIsExclusive DEF DLInv, Orderly, OneDaemonUnlessRaced
  <1> QED
    BY <1>1, LockInvariance, PTL

----------------------------------------------------------------------------
(* DaemonClients.                                                          *)

\* start() leaves a state of these types.
LEMMA DCTypesInit == DCInit => DCTypeOK
  BY DEF DCInit, DCTypeOK

\* Every step keeps the types; what is out has no socket.
LEMMA DCTypesKept == DCTypeOK /\ [DCNext]_DCvars => DCTypeOK'
  <1> SUFFICES ASSUME DCTypeOK, [DCNext]_DCvars PROVE DCTypeOK'
    OBVIOUS
  <1> USE DEF DCTypeOK, Clients
  <1>0. CASE UNCHANGED DCvars
    BY <1>0 DEF DCvars
  <1>1. ASSUME NEW c \in Conns, Connect(c) PROVE DCTypeOK'
    BY <1>1 DEF Connect, Running
  <1>2. ASSUME NEW c \in Conns, PeerCloses(c) PROVE DCTypeOK'
    BY <1>2 DEF PeerCloses, Running
  <1>3. ASSUME NEW c \in Conns, PeerDies(c) PROVE DCTypeOK'
    BY <1>3 DEF PeerDies, Running
  <1>4. ASSUME NEW c \in Conns, Traffic(c) PROVE DCTypeOK'
    BY <1>4 DEF Traffic, Running
  <1>5. ASSUME NEW c \in Conns, HelloRead(c) PROVE DCTypeOK'
    BY <1>5 DEF HelloRead, Count, Running, Disarmed
  <1>6. ASSUME NEW c \in Conns, RequestRead(c) PROVE DCTypeOK'
    BY <1>6 DEF RequestRead, Count, Running, Disarmed
  <1>7. ASSUME NEW c \in Conns, HelloTimeout(c) PROVE DCTypeOK'
    BY <1>7 DEF HelloTimeout, Count, Running, Disarmed
  <1>8. ASSUME NEW c \in Conns, CloseEvent(c) PROVE DCTypeOK'
    BY <1>8 DEF CloseEvent, Count, DroppedAtClose, Running, Disarmed, Armed
  <1>9. CASE Quiet
    BY <1>9 DEF Quiet, Running
  <1>10. CASE ReapDeadClients
    BY <1>10 DEF ReapDeadClients, PeerIsDead, Running, Armed
  <1>11. CASE IdleFires
    BY <1>11 DEF IdleFires, StopDaemon, WiresStopped, Running, Armed
  <1>12. CASE Backstop
    BY <1>12 DEF Backstop, StopDaemon, WiresStopped, Running
  <1>13. CASE StopAsked
    BY <1>13 DEF StopAsked, StopDaemon, WiresStopped, Running
  <1>14. CASE ServerClosed
    BY <1>14 DEF ServerClosed, Running
  <1> QED
    BY <1>0, <1>1, <1>2, <1>3, <1>4, <1>5, <1>6, <1>7,
       <1>8, <1>9, <1>10, <1>11, <1>12, <1>13, <1>14 DEF DCNext

\* The types hold for every set of connections.
THEOREM ClientsTypeCorrect == DCSpec => []DCTypeOK
  BY DCTypesInit, DCTypesKept, PTL DEF DCSpec

\* Whoever adds the first client disarms the timer, whoever drops the last arms it.
LEMMA TimerKept == DCTypeOK /\ IdleTimerMatches /\ [DCNext]_DCvars => IdleTimerMatches'
  <1> SUFFICES ASSUME DCTypeOK, IdleTimerMatches, [DCNext]_DCvars PROVE IdleTimerMatches'
    OBVIOUS
  <1> USE DEF DCTypeOK, IdleTimerMatches, Clients
  <1>0. CASE UNCHANGED DCvars
    BY <1>0 DEF DCvars
  <1>1. ASSUME NEW c \in Conns, Connect(c) PROVE IdleTimerMatches'
    BY <1>1 DEF Connect, Running
  <1>2. ASSUME NEW c \in Conns, PeerCloses(c) PROVE IdleTimerMatches'
    BY <1>2 DEF PeerCloses, Running
  <1>3. ASSUME NEW c \in Conns, PeerDies(c) PROVE IdleTimerMatches'
    BY <1>3 DEF PeerDies, Running
  <1>4. ASSUME NEW c \in Conns, Traffic(c) PROVE IdleTimerMatches'
    BY <1>4 DEF Traffic, Running
  <1>5. ASSUME NEW c \in Conns, HelloRead(c) PROVE IdleTimerMatches'
    BY <1>5 DEF HelloRead, Count, Running, Disarmed
  <1>6. ASSUME NEW c \in Conns, RequestRead(c) PROVE IdleTimerMatches'
    BY <1>6 DEF RequestRead, Count, Running, Disarmed
  <1>7. ASSUME NEW c \in Conns, HelloTimeout(c) PROVE IdleTimerMatches'
    BY <1>7 DEF HelloTimeout, Count, Running, Disarmed
  <1>8. ASSUME NEW c \in Conns, CloseEvent(c) PROVE IdleTimerMatches'
    <2>1. CASE stage[c] = "hello"
      BY <1>8, <2>1 DEF CloseEvent, Count, Running, Disarmed
    <2>2. CASE stage[c] # "hello"
      <3>1. /\ stage' = [stage EXCEPT ![c] = "out"]
            /\ UNCHANGED phase
            /\ idleTimer' = (idleTimer \/ (Clients \ {c} = {} /\ phase = "serving"))
        BY <1>8, <2>2 DEF CloseEvent, Count, DroppedAtClose, Armed
      <3>2. Clients' = Clients \ {c}
        BY <3>1
      <3> HIDE DEF Clients
      <3>3. Clients = {} => Clients' = {}
        BY <3>2
      <3>4. phase = "serving" => (idleTimer' <=> Clients' = {})
        BY <3>1, <3>2, <3>3, Zenon DEF IdleTimerMatches
      <3> QED
        BY <3>1, <3>4
    <2> QED
      BY <2>1, <2>2
  <1>9. CASE Quiet
    BY <1>9 DEF Quiet, Running
  <1>10. CASE ReapDeadClients
    BY <1>10 DEF ReapDeadClients, PeerIsDead, Running, Armed
  <1>11. CASE IdleFires
    BY <1>11 DEF IdleFires, StopDaemon, WiresStopped, Running, Armed
  <1>12. CASE Backstop
    BY <1>12 DEF Backstop, StopDaemon, WiresStopped, Running
  <1>13. CASE StopAsked
    BY <1>13 DEF StopAsked, StopDaemon, WiresStopped, Running
  <1>14. CASE ServerClosed
    BY <1>14 DEF ServerClosed, Running
  <1> QED
    BY <1>0, <1>1, <1>2, <1>3, <1>4, <1>5, <1>6, <1>7,
       <1>8, <1>9, <1>10, <1>11, <1>12, <1>13, <1>14 DEF DCNext

\* armIdleTimer and disarmIdleTimer: in every order of coming and going.
THEOREM TimerMatches == DCSpec => []IdleTimerMatches
  <1>1. DCInit => IdleTimerMatches
    BY DEF DCInit, IdleTimerMatches, Clients
  <1> QED
    BY <1>1, ClientsTypeCorrect, TimerKept, PTL DEF DCSpec

\* A client's socket closes by its close event, which drops it, or when it is stopped.
LEMMA IdentifiedKept == DCTypeOK /\ IdentifiedClientsLeave /\ [DCNext]_DCvars => IdentifiedClientsLeave'
  <1> SUFFICES ASSUME DCTypeOK, IdentifiedClientsLeave, [DCNext]_DCvars PROVE IdentifiedClientsLeave'
    OBVIOUS
  <1> USE DEF DCTypeOK, IdentifiedClientsLeave, Clients
  <1>0. CASE UNCHANGED DCvars
    BY <1>0 DEF DCvars
  <1>1. ASSUME NEW c \in Conns, Connect(c) PROVE IdentifiedClientsLeave'
    BY <1>1 DEF Connect
  <1>2. ASSUME NEW c \in Conns, PeerCloses(c) PROVE IdentifiedClientsLeave'
    BY <1>2 DEF PeerCloses
  <1>3. ASSUME NEW c \in Conns, PeerDies(c) PROVE IdentifiedClientsLeave'
    BY <1>3 DEF PeerDies
  <1>4. ASSUME NEW c \in Conns, Traffic(c) PROVE IdentifiedClientsLeave'
    BY <1>4 DEF Traffic
  <1>5. ASSUME NEW c \in Conns, HelloRead(c) PROVE IdentifiedClientsLeave'
    BY <1>5 DEF HelloRead, Count
  <1>6. ASSUME NEW c \in Conns, RequestRead(c) PROVE IdentifiedClientsLeave'
    BY <1>6 DEF RequestRead, Count
  <1>7. ASSUME NEW c \in Conns, HelloTimeout(c) PROVE IdentifiedClientsLeave'
    BY <1>7 DEF HelloTimeout, Count
  <1>8. ASSUME NEW c \in Conns, CloseEvent(c) PROVE IdentifiedClientsLeave'
    BY <1>8 DEF CloseEvent, Count, DroppedAtClose
  <1>9. CASE Quiet
    BY <1>9 DEF Quiet
  <1>10. CASE ReapDeadClients
    BY <1>10 DEF ReapDeadClients, PeerIsDead
  <1>11. CASE IdleFires
    BY <1>11 DEF IdleFires, StopDaemon, WiresStopped
  <1>12. CASE Backstop
    BY <1>12 DEF Backstop, StopDaemon, WiresStopped
  <1>13. CASE StopAsked
    BY <1>13 DEF StopAsked, StopDaemon, WiresStopped
  <1>14. CASE ServerClosed
    BY <1>14 DEF ServerClosed
  <1> QED
    BY <1>0, <1>1, <1>2, <1>3, <1>4, <1>5, <1>6, <1>7,
       <1>8, <1>9, <1>10, <1>11, <1>12, <1>13, <1>14 DEF DCNext

\* dropClient: a client that sent its client-hello goes with its socket.
THEOREM IdentifiedLeave == DCSpec => []IdentifiedClientsLeave
  <1>1. DCInit => IdentifiedClientsLeave
    BY DEF DCInit, IdentifiedClientsLeave, Clients
  <1> QED
    BY <1>1, ClientsTypeCorrect, IdentifiedKept, PTL DEF DCSpec

\* No step but the end of the daemon drops a client whose peer is alive and
\* connected.
LEMMA LiveKept ==
  DCTypeOK /\ [DCNext]_DCvars
    => [\A c \in Clients : alive[c] /\ wire[c] = "open" /\ stage'[c] = "out"
                           => phase' = "stopping"]_DCvars
  <1> DEFINE Stays == \A c \in Clients : alive[c] /\ wire[c] = "open" /\ stage'[c] = "out"
                                         => phase' = "stopping"
  <1> SUFFICES ASSUME DCTypeOK, [DCNext]_DCvars PROVE Stays \/ UNCHANGED DCvars
    OBVIOUS
  <1> USE DEF DCTypeOK, Clients
  <1>1. ASSUME NEW c \in Conns, Connect(c) PROVE Stays
    BY <1>1 DEF Connect
  <1>2. ASSUME NEW c \in Conns, PeerCloses(c) PROVE Stays
    BY <1>2 DEF PeerCloses
  <1>3. ASSUME NEW c \in Conns, PeerDies(c) PROVE Stays
    BY <1>3 DEF PeerDies
  <1>4. ASSUME NEW c \in Conns, Traffic(c) PROVE Stays
    BY <1>4 DEF Traffic
  <1>5. ASSUME NEW c \in Conns, HelloRead(c) PROVE Stays
    BY <1>5 DEF HelloRead, Count
  <1>6. ASSUME NEW c \in Conns, RequestRead(c) PROVE Stays
    BY <1>6 DEF RequestRead, Count
  <1>7. ASSUME NEW c \in Conns, HelloTimeout(c) PROVE Stays
    BY <1>7 DEF HelloTimeout, Count
  <1>8. ASSUME NEW c \in Conns, CloseEvent(c) PROVE Stays
    BY <1>8 DEF CloseEvent, Count
  <1>9. CASE Quiet
    BY <1>9 DEF Quiet
  <1>10. CASE ReapDeadClients
    BY <1>10 DEF ReapDeadClients, PeerIsDead
  <1>11. CASE IdleFires
    BY <1>11 DEF IdleFires, StopDaemon
  <1>12. CASE Backstop
    BY <1>12 DEF Backstop, StopDaemon
  <1>13. CASE StopAsked
    BY <1>13 DEF StopAsked, StopDaemon
  <1>14. CASE ServerClosed
    BY <1>14 DEF ServerClosed
  <1> QED
    BY <1>1, <1>2, <1>3, <1>4, <1>5, <1>6, <1>7,
       <1>8, <1>9, <1>10, <1>11, <1>12, <1>13, <1>14 DEF DCNext

\* reapDeadClients, dropClient: a client at work is not thrown out.
THEOREM LiveStay == DCSpec => LiveClientsStay
  BY ClientsTypeCorrect, LiveKept, PTL DEF DCSpec, LiveClientsStay

----------------------------------------------------------------------------
(* Engine.                                                                 *)

\* Whoever waits at the gate waits for an instance that was opened.
GateKnown == \A c \in Calls : pc[c] = "gate" => awaited[c] \in used

\* Unless an open() was overtaken: the only instance that was ever opened is served, and
\* none is being opened while there is one.
AloneServed ==
    /\ used \subseteq {served}
    /\ watched \in {served, None}
    /\ opening > 0 => served = None

\* The gate is shut, or a call waits at it, as long as the catch-up is in flight.
Guarded ==
    \A i \in syncing : gate = i \/ \E c \in Calls : pc[c] = "gate" /\ awaited[c] = i

EInv == TypeOK /\ GateKnown /\ (~overlapped => AloneServed /\ Guarded)

----------------------------------------------------------------------------
(* Types. *)

\* One promise: two opens are never in flight.
LEMMA TypesHold == Init => TypeOK
  <1> SUFFICES ASSUME Init PROVE TypeOK
    OBVIOUS
  <1>1. opening \in {0, 1} /\ hinted \in BOOLEAN /\ indexed \in BOOLEAN
    BY DEF Init
  <1>2. disk \in 0..MaxReplaced /\ gen \in [Instances -> 0..MaxReplaced]
    BY EngineAssumption DEF Init
  <1>3. overlapped \in BOOLEAN /\ closed \in BOOLEAN
    BY DEF Init
  <1>4. awaited \in [Calls -> Instances \cup {None}] /\ answered \in [Calls -> Instances \cup {None}]
    BY DEF Init
  <1> QED
    BY <1>1, <1>2, <1>3, <1>4 DEF Init, TypeOK

\* What ensureInitialized does to the engine.
LEMMA EnsureTypes ==
  ASSUME TypeOK, NEW s \in Sessions, EnsureInitialized(s)
  PROVE  /\ hinted' \in BOOLEAN /\ opening' \in {0, 1}
         /\ promise' \in [Sessions -> {"new", "none", "roots", "init", "settled"}]
         /\ UNCHANGED <<cg, watched, closed, served, gate, live, used, gen, syncing, overlapped>>
         /\ opening' # opening => ~closed /\ served = None
  <1>1. promise' \in [Sessions -> {"new", "none", "roots", "init", "settled"}]
    BY DEF EnsureInitialized, TypeOK
  <1>2. UNCHANGED <<cg, watched, closed, served, gate, live, used, gen, syncing, overlapped>>
    BY DEF EnsureInitialized, handlerVars, instanceVars
  <1>3. CASE closed \/ served # None \/ Shares
    BY <1>1, <1>2, <1>3 DEF EnsureInitialized, TypeOK
  <1>4. CASE ~(closed \/ served # None \/ Shares)
    <2>1. opening = 0
      BY <1>4 DEF Shares, TypeOK
    <2>2. hinted' \in BOOLEAN /\ opening' \in {0, 1}
      BY <1>4, <2>1 DEF EnsureInitialized
    <2> QED
      BY <1>1, <1>2, <1>4, <2>2
  <1> QED
    BY <1>3, <1>4

\* What an open does to the engine.
LEMMA OpenTypes ==
  ASSUME TypeOK, NEW i \in Instances, NEW sync \in BOOLEAN, Opened(i, sync)
  PROVE  /\ {cg', served', gate', watched'} \subseteq used' \cup {None}
         /\ used' \subseteq Instances /\ live' \subseteq used' /\ syncing' \subseteq used'
         /\ gen' \in [Instances -> 0..MaxReplaced]
         /\ used \subseteq used'
  BY DEF Opened, AfterClose, GateOf, TypeOK

\* What a synchronous open, tried or not, does to the engine.
LEMMA RetryTypes ==
  ASSUME TypeOK, RetryInitializeSync
  PROVE  /\ {cg', served', gate', watched'} \subseteq used' \cup {None}
         /\ used' \subseteq Instances /\ live' \subseteq used' /\ syncing' \subseteq used'
         /\ gen' \in [Instances -> 0..MaxReplaced]
         /\ used \subseteq used' /\ overlapped' \in BOOLEAN
         /\ UNCHANGED <<hinted, opening, closed>>
  <1>1. CASE closed \/ served # None \/ ~indexed
    BY <1>1 DEF RetryInitializeSync, engineVars, handlerVars, instanceVars, TypeOK
  <1>2. CASE ~(closed \/ served # None \/ ~indexed)
    <2>1. overlapped' = (overlapped \/ opening > 0) /\ UNCHANGED <<hinted, opening, closed>>
      BY <1>2 DEF RetryInitializeSync
    <2>2. overlapped' \in BOOLEAN
      BY <2>1
    <2>3. CASE \E i \in Instances : Opened(i, TRUE)
      BY <2>1, <2>2, <2>3, OpenTypes
    <2>4. CASE UNCHANGED <<cg, watched, handlerVars, instanceVars>>
      BY <2>1, <2>2, <2>4 DEF handlerVars, instanceVars, TypeOK
    <2> QED
      BY <1>2, <2>3, <2>4 DEF RetryInitializeSync
  <1> QED
    BY <1>1, <1>2

\* What the session's part of a call may change: its way to the gate, and the engine by
\* one of the two ways to open the project.
SessionStep ==
    /\ pc' \in [Calls -> {"idle", "await1", "await2", "execute", "gate", "done"}]
    /\ \A c \in Calls : pc'[c] = "gate" <=> pc[c] = "gate"
    /\ promise' \in [Sessions -> {"new", "none", "roots", "init", "settled"}]
    /\ current' \in [Sessions -> BOOLEAN]
    /\ UNCHANGED <<mode, indexed, disk, awaited, answered>>
    /\ \/ UNCHANGED <<engineVars, handlerVars, instanceVars, overlapped>>
       \/ \E s \in Sessions : EnsureInitialized(s)
       \/ RetryInitializeSync

\* The steps of handleInitialize, retryInitIfNeeded and initFromRoots are of that kind.
LEMMA SessionSteps ==
  ASSUME TypeOK,
         \/ \E s \in Sessions : RootsEnd(s) \/ \E given \in BOOLEAN : Initialize(s, given)
         \/ \E c \in Calls : Arrive(c) \/ Resume(c)
  PROVE  SessionStep
  <1> USE EngineAssumption
  <1>1. ASSUME NEW s \in Sessions, RootsEnd(s) PROVE SessionStep
    BY <1>1, EnsureTypes DEF RootsEnd, SessionStep, callVars, TypeOK
  <1>2. ASSUME NEW s \in Sessions, NEW given \in BOOLEAN, Initialize(s, given) PROVE SessionStep
    <2>1. CASE given
      BY <1>2, <2>1, EnsureTypes DEF Initialize, SessionStep, callVars, TypeOK
    <2>2. CASE ~given
      BY <1>2, <2>2 DEF Initialize, SessionStep, callVars, TypeOK
    <2> QED
      BY <2>1, <2>2
  <1>3. ASSUME NEW c \in Calls, Resolve(c), pc[c] # "gate"
        PROVE  /\ pc' \in [Calls -> {"idle", "await1", "await2", "execute", "gate", "done"}]
               /\ \A d \in Calls : pc'[d] = "gate" <=> pc[d] = "gate"
               /\ promise' \in [Sessions -> {"new", "none", "roots", "init", "settled"}]
               /\ UNCHANGED <<awaited, answered>>
               /\ \/ UNCHANGED <<engineVars, handlerVars, instanceVars, overlapped>>
                  \/ \E s \in Sessions : EnsureInitialized(s)
                  \/ RetryInitializeSync
    <2> DEFINE s == Of[c]
    <2>0. s \in Sessions
      OBVIOUS
    <2>1. \E to \in {"execute", "await2"} : Goto(c, to)
      BY <1>3 DEF Resolve
    <2>2. /\ pc' \in [Calls -> {"idle", "await1", "await2", "execute", "gate", "done"}]
          /\ \A d \in Calls : pc'[d] = "gate" <=> pc[d] = "gate"
          /\ UNCHANGED <<awaited, answered>>
      BY <1>3, <2>1 DEF Goto, TypeOK
    <2>3. CASE served # None
      BY <1>3, <2>2, <2>3 DEF Resolve, TypeOK
    <2>4. CASE served = None /\ ~hinted /\ promise[s] = "none"
      <3>1. CASE EnsureInitialized(s)
        BY <2>0, <2>2, <3>1, EnsureTypes
      <3>2. CASE /\ promise' = [promise EXCEPT ![s] = "roots"]
                 /\ UNCHANGED <<engineVars, handlerVars, instanceVars, overlapped>>
        BY <2>0, <2>2, <3>2 DEF TypeOK
      <3> QED
        BY <1>3, <2>4, <3>1, <3>2 DEF Resolve
    <2>5. CASE served = None /\ ~(~hinted /\ promise[s] = "none")
      BY <1>3, <2>2, <2>5 DEF Resolve, TypeOK
    <2> QED
      BY <2>3, <2>4, <2>5
  <1>4. ASSUME NEW c \in Calls, Arrive(c) PROVE SessionStep
    <2>0. Of[c] \in Sessions
      OBVIOUS
    <2>1. CASE current[Of[c]]
      BY <1>4, <2>1 DEF Arrive, Goto, sessionVars, SessionStep, TypeOK
    <2>2. CASE ~current[Of[c]]
      <3>1. Resolve(c) /\ pc[c] # "gate" /\ UNCHANGED <<mode, indexed, disk>>
        BY <1>4, <2>2 DEF Arrive
      <3>2. current' \in [Sessions -> BOOLEAN]
        BY <1>4, <2>2, <2>0 DEF Arrive, TypeOK
      <3> QED
        BY <1>3, <3>1, <3>2 DEF SessionStep
    <2> QED
      BY <2>1, <2>2
  <1>5. ASSUME NEW c \in Calls, Resume(c) PROVE SessionStep
    <2>0. Of[c] \in Sessions
      OBVIOUS
    <2>1. current' \in [Sessions -> BOOLEAN] /\ UNCHANGED <<mode, indexed, disk>>
      BY <1>5, <2>0 DEF Resume, TypeOK
    <2>2. CASE pc[c] = "await1" /\ Resolve(c)
      BY <1>3, <2>1, <2>2 DEF SessionStep
    <2>3. CASE pc[c] = "await2"
      <3>1. Goto(c, "execute") /\ promise' = promise
        BY <1>5, <2>3 DEF Resume
      <3>2. UNCHANGED <<engineVars, handlerVars, instanceVars, overlapped>> \/ RetryInitializeSync
        BY <1>5, <2>3 DEF Resume
      <3> QED
        BY <2>1, <2>3, <3>1, <3>2 DEF Goto, SessionStep, TypeOK
    <2> QED
      BY <1>5, <2>2, <2>3 DEF Resume
  <1> QED
    BY <1>1, <1>2, <1>4, <1>5

\* What a tool call that reaches its project does: it answers for the instance served.
LEMMA ServeSteps ==
  ASSUME TypeOK, NEW c \in Calls, Serve(c)
  PROVE  /\ pc' \in [Calls -> {"idle", "await1", "await2", "execute", "gate", "done"}]
         /\ answered' \in [Calls -> Instances \cup {None}]
         /\ gen' \in [Instances -> 0..MaxReplaced]
         /\ live' \subseteq used' /\ syncing' \subseteq syncing
         /\ UNCHANGED <<awaited, served, used>>
  <1>1. served \in Instances \cup {None} /\ (served # None => served \in used)
    BY DEF TypeOK
  <1>2. gen' \in [Instances -> 0..MaxReplaced]
    BY <1>1 DEF Serve, TypeOK
  <1>3. live' \subseteq used' /\ syncing' \subseteq syncing
    BY <1>1 DEF Serve, TypeOK
  <1> QED
    BY <1>1, <1>2, <1>3 DEF Serve, TypeOK

\* Every step from await to await keeps the types.
LEMMA TypesKept == TypeOK /\ [Next]_vars => TypeOK'
  <1> SUFFICES ASSUME TypeOK, [Next]_vars PROVE TypeOK'
    OBVIOUS
  <1> USE EngineAssumption
  <1>0. CASE UNCHANGED vars \/ Finished
    BY <1>0 DEF vars, Finished, engineVars, handlerVars, instanceVars, sessionVars, callVars, TypeOK
  <1>1. CASE Appear \/ Replace
    <2>1. indexed' \in BOOLEAN
      BY <1>1 DEF Appear, Replace, TypeOK
    <2>2. disk' \in 0..MaxReplaced
      BY <1>1 DEF Appear, Replace, TypeOK
    <2>3. UNCHANGED <<mode, engineVars, handlerVars, instanceVars, sessionVars, callVars, overlapped>>
      BY <1>1 DEF Appear, Replace
    <2> QED
      BY <2>1, <2>2, <2>3 DEF engineVars, handlerVars, instanceVars, sessionVars, callVars, TypeOK
  <1>2. CASE OpenEnds
    <2>1. opening' \in {0, 1}
      BY <1>2 DEF OpenEnds, TypeOK
    <2>2. promise' \in [Sessions -> {"new", "none", "roots", "init", "settled"}]
      BY <1>2 DEF OpenEnds, TypeOK
    <2>3. CASE \E i \in Instances : Opened(i, FALSE)
      BY <1>2, <2>1, <2>2, <2>3, OpenTypes DEF OpenEnds, callVars, TypeOK
    <2>4. CASE UNCHANGED <<cg, watched, handlerVars, instanceVars>>
      BY <1>2, <2>1, <2>2, <2>4 DEF OpenEnds, callVars, handlerVars, instanceVars, TypeOK
    <2> QED
      BY <1>2, <2>3, <2>4 DEF OpenEnds
  <1>3. CASE Stop
    <2>1. overlapped' \in BOOLEAN
      BY <1>3 DEF Stop
    <2> QED
      BY <1>3, <2>1 DEF Stop, handlerVars, sessionVars, callVars, TypeOK
  <1>4. ASSUME NEW i \in Instances, CatchUpEnds(i) PROVE TypeOK'
    BY <1>4 DEF CatchUpEnds, engineVars, handlerVars, sessionVars, callVars, TypeOK
  <1>5. CASE SessionStep
    <2>1. CASE UNCHANGED <<engineVars, handlerVars, instanceVars, overlapped>>
      BY <1>5, <2>1 DEF SessionStep, engineVars, handlerVars, instanceVars, TypeOK
    <2>2. CASE \E s \in Sessions : EnsureInitialized(s)
      BY <1>5, <2>2, EnsureTypes DEF SessionStep, TypeOK
    <2>3. CASE RetryInitializeSync
      BY <1>5, <2>3, RetryTypes DEF SessionStep, TypeOK
    <2> QED
      BY <1>5, <2>1, <2>2, <2>3 DEF SessionStep
  <1>6. ASSUME NEW c \in Calls, Execute(c) PROVE TypeOK'
    <2>1. CASE GateOpen
      BY <1>6, <2>1, ServeSteps DEF Execute, engineVars, sessionVars, TypeOK
    <2>2. CASE ~GateOpen
      BY <1>6, <2>2 DEF Execute, GateOpen, engineVars, instanceVars, sessionVars, TypeOK
    <2> QED
      BY <2>1, <2>2
  <1>7. ASSUME NEW c \in Calls, GateOpens(c) PROVE TypeOK'
    BY <1>7, ServeSteps DEF GateOpens, engineVars, sessionVars, TypeOK
  <1> QED
    BY <1>0, <1>1, <1>2, <1>3, <1>4, <1>5, <1>6, <1>7, SessionSteps DEF Next

----------------------------------------------------------------------------
(* One instance. *)

LEMMA InstanceInit == Init => GateKnown /\ AloneServed /\ Guarded
  BY DEF Init, GateKnown, AloneServed, Guarded

\* An open, when nothing was opened before.
LEMMA OpenAlone ==
  ASSUME TypeOK, GateKnown, NEW i \in Instances, NEW sync \in BOOLEAN, Opened(i, sync),
         UNCHANGED <<pc, awaited>>
  PROVE  /\ GateKnown'
         /\ used = {} /\ watched = None => /\ used' \subseteq {served'}
                                           /\ watched' \in {served', None}
                                           /\ Guarded'
  BY DEF Opened, GateOf, GateKnown, Guarded, TypeOK

\* While nothing is served, nothing was opened.
LEMMA NoneServed ==
  ASSUME TypeOK, AloneServed, served = None
  PROVE  used = {} /\ watched = None
  BY EngineAssumption DEF TypeOK, AloneServed

LEMMA InstanceKept ==
  TypeOK /\ GateKnown /\ (~overlapped => AloneServed /\ Guarded) /\ [Next]_vars
      => GateKnown' /\ (~overlapped' => AloneServed' /\ Guarded')
  <1> SUFFICES ASSUME TypeOK, GateKnown, ~overlapped => AloneServed /\ Guarded, [Next]_vars
               PROVE  GateKnown' /\ (~overlapped' => AloneServed' /\ Guarded')
    OBVIOUS
  <1> DEFINE Kept == GateKnown' /\ (~overlapped' => AloneServed' /\ Guarded')
  <1> USE EngineAssumption
  <1>0. CASE UNCHANGED vars \/ Finished \/ Appear \/ Replace
    <2>1. UNCHANGED <<pc, awaited, used, served, watched, opening, syncing, gate, overlapped>>
      BY <1>0 DEF vars, Finished, Appear, Replace, engineVars, handlerVars, instanceVars, callVars
    <2> QED
      BY <2>1 DEF GateKnown, AloneServed, Guarded
  <1>1. CASE OpenEnds
    <2>1. opening > 0 /\ opening' = opening - 1 /\ UNCHANGED <<pc, awaited, overlapped>>
      BY <1>1 DEF OpenEnds, callVars
    <2>2. opening' = 0
      BY <2>1 DEF TypeOK
    <2>3. CASE \E i \in Instances : Opened(i, FALSE)
      <3>1. ~overlapped => used = {} /\ watched = None
        BY <2>1, NoneServed DEF AloneServed
      <3> QED
        <4>1. PICK i \in Instances : Opened(i, FALSE)
          BY <2>3
        <4>2. GateKnown'
          BY <2>1, <4>1, OpenAlone
        <4>3. ~overlapped => used' \subseteq {served'} /\ watched' \in {served', None} /\ Guarded'
          BY <2>1, <3>1, <4>1, OpenAlone
        <4> QED
          BY <2>1, <2>2, <4>2, <4>3 DEF AloneServed
    <2>4. CASE UNCHANGED <<cg, watched, handlerVars, instanceVars>>
      BY <2>1, <2>2, <2>4 DEF handlerVars, instanceVars, GateKnown, AloneServed, Guarded
    <2> QED
      BY <1>1, <2>3, <2>4 DEF OpenEnds
  <1>2. CASE Stop
    <2>1. /\ UNCHANGED <<pc, awaited, used, served, watched, opening, syncing, gate>>
          /\ ~overlapped' => ~overlapped
      BY <1>2 DEF Stop, handlerVars, callVars
    <2> QED
      BY <2>1 DEF GateKnown, AloneServed, Guarded
  <1>3. ASSUME NEW i \in Instances, CatchUpEnds(i) PROVE Kept
    BY <1>3 DEF CatchUpEnds, engineVars, handlerVars, callVars, GateKnown, AloneServed, Guarded
  <1>4. CASE SessionStep
    <2>1. awaited' = awaited /\ \A c \in Calls : pc'[c] = "gate" <=> pc[c] = "gate"
      BY <1>4 DEF SessionStep
    <2>2. CASE UNCHANGED <<engineVars, handlerVars, instanceVars, overlapped>>
      BY <2>1, <2>2 DEF engineVars, handlerVars, instanceVars, GateKnown, AloneServed, Guarded
    <2>3. CASE \E s \in Sessions : EnsureInitialized(s)
      BY <2>1, <2>3, EnsureTypes DEF GateKnown, AloneServed, Guarded
    <2>4. CASE RetryInitializeSync
      <3>1. CASE closed \/ served # None \/ ~indexed
        <4>1. UNCHANGED <<engineVars, handlerVars, instanceVars, overlapped>>
          BY <2>4, <3>1 DEF RetryInitializeSync
        <4> QED
          BY <2>2, <4>1
      <3>2. CASE ~(closed \/ served # None \/ ~indexed)
        <4>1. overlapped' = (overlapped \/ opening > 0) /\ opening' = opening
          BY <2>4, <3>2 DEF RetryInitializeSync
        <4>2. ~overlapped' => used = {} /\ watched = None /\ ~(opening' > 0)
          BY <3>2, <4>1, NoneServed
        <4>3. CASE \E i \in Instances : Opened(i, TRUE)
          <5>1. GateKnown'
            BY <2>1, <4>3 DEF Opened, GateKnown
          <5>2. used = {} /\ watched = None => Guarded' /\ used' \subseteq {served'} /\ watched' \in {served', None}
            BY <2>1, <4>3 DEF Opened, GateOf, Guarded, TypeOK
          <5> QED
            BY <4>2, <5>1, <5>2 DEF AloneServed
        <4>4. CASE UNCHANGED <<cg, watched, handlerVars, instanceVars>>
          BY <2>1, <4>1, <4>4 DEF handlerVars, instanceVars, GateKnown, AloneServed, Guarded
        <4> QED
          BY <2>4, <3>2, <4>3, <4>4 DEF RetryInitializeSync
      <3> QED
        BY <3>1, <3>2
    <2> QED
      BY <1>4, <2>2, <2>3, <2>4 DEF SessionStep
  <1>5. ASSUME NEW c \in Calls, Execute(c) PROVE Kept
    <2>1. CASE GateOpen
      <3>1. /\ UNCHANGED <<gate, awaited, served, used, watched, opening, overlapped>>
            /\ syncing' \subseteq syncing /\ pc[c] = "execute" /\ pc' = [pc EXCEPT ![c] = "done"]
        BY <1>5, <2>1, ServeSteps DEF Execute, Serve, engineVars
      <3> QED
        BY <3>1 DEF GateKnown, AloneServed, Guarded, TypeOK
    <2>2. CASE ~GateOpen
      <3>1. /\ UNCHANGED <<served, used, syncing, watched, opening, overlapped>>
            /\ pc[c] = "execute" /\ pc' = [pc EXCEPT ![c] = "gate"]
            /\ awaited' = [awaited EXCEPT ![c] = gate] /\ gate \in used
        BY <1>5, <2>2 DEF Execute, GateOpen, engineVars, instanceVars, TypeOK
      <3> QED
        BY <3>1 DEF GateKnown, AloneServed, Guarded, TypeOK
    <2> QED
      BY <2>1, <2>2
  <1>6. ASSUME NEW c \in Calls, GateOpens(c) PROVE Kept
    <2>1. /\ UNCHANGED <<gate, awaited, served, used, watched, opening, overlapped>>
          /\ syncing' \subseteq syncing /\ pc' = [pc EXCEPT ![c] = "done"]
          /\ awaited[c] \notin syncing
      BY <1>6, ServeSteps DEF GateOpens, Serve, engineVars
    <2> QED
      BY <2>1 DEF GateKnown, AloneServed, Guarded, TypeOK
  <1> QED
    BY <1>0, <1>1, <1>2, <1>3, <1>4, <1>5, <1>6, SessionSteps DEF Next

\* Whatever sessions, calls, environment and stop() do, the invariant is kept.
THEOREM EngineInvariance == Spec => []EInv
  <1>1. Init => EInv
    BY TypesHold, InstanceInit DEF EInv
  <1>2. EInv /\ [Next]_vars => EInv'
    BY TypesKept, InstanceKept DEF EInv
  <1> QED
    BY <1>1, <1>2, PTL DEF Spec

----------------------------------------------------------------------------
(* The theorems. *)

\* MCPEngine: for every number of sessions, at most one open() is awaited, and what is
\* served, watched or waited for was opened.
THEOREM EngineTypeCorrect == Spec => []TypeOK
  <1>1. EInv => TypeOK
    BY DEF EInv
  <1> QED
    BY <1>1, EngineInvariance, PTL

\* MCPEngine.ensureInitialized and retryInitializeSync: for every number of sessions and
\* calls, one instance is open, and it is the one that is served and watched.
THEOREM OneInstanceIsOpen == Spec => []OneInstance
  <1>1. EInv => OneInstance
    BY DEF EInv, TypeOK, AloneServed, OneInstance
  <1> QED
    BY <1>1, EngineInvariance, PTL

\* The catch-up gate: for every number of calls, none is answered during the catch-up of
\* its instance unless another one waits for it.
THEOREM FirstCallIsHeld == Spec => FirstCallWaits
  <1> DEFINE Held ==
        \A c \in Calls :
            ~overlapped /\ answered'[c] # answered[c] /\ answered'[c] \in syncing =>
                \E d \in Calls \ {c} : pc[d] = "gate" /\ awaited[d] = answered'[c]
  <1>1. EInv /\ [Next]_vars => [Held]_vars
    <2> SUFFICES ASSUME EInv, Next, NEW c \in Calls,
                        ~overlapped, answered'[c] # answered[c], answered'[c] \in syncing
                 PROVE  \E d \in Calls \ {c} : pc[d] = "gate" /\ awaited[d] = answered'[c]
      BY DEF EInv
    <2>0. TypeOK
      BY DEF EInv
    <2>1. PICK e \in Calls : Execute(e) \/ GateOpens(e)
      <3>1. answered' # answered
        OBVIOUS
      <3>2. ~SessionStep
        BY <3>1 DEF SessionStep
      <3>3. ~(Appear \/ Replace \/ OpenEnds \/ Stop \/ Finished \/ \E i \in Instances : CatchUpEnds(i))
        BY <3>1 DEF Appear, Replace, OpenEnds, Stop, Finished, CatchUpEnds, callVars, vars
      <3> QED
        BY <2>0, <3>2, <3>3, SessionSteps DEF Next
    <2>2. Serve(e) /\ ((pc[e] = "execute" /\ gate = None) \/ (pc[e] = "gate" /\ awaited[e] \notin syncing))
      <3>1. answered' # answered
        OBVIOUS
      <3>2. CASE Execute(e)
        <4>1. pc[e] = "execute"
          BY <3>2 DEF Execute
        <4>2. gate = None
          BY <3>1, <3>2 DEF Execute, GateOpen
        <4>3. Serve(e)
          BY <3>2, <4>2 DEF Execute, GateOpen
        <4> QED
          BY <4>1, <4>2, <4>3
      <3>3. CASE GateOpens(e)
        BY <3>3 DEF GateOpens
      <3> QED
        BY <2>1, <3>2, <3>3
    <2>3. e = c /\ answered'[c] = served
      BY <2>0, <2>2 DEF Serve, TypeOK
    <2>4. served \in syncing /\ used \subseteq {served} /\ Guarded
      BY <2>3 DEF EInv, AloneServed
    <2>5. pc[c] = "execute" /\ gate = None
      BY <2>2, <2>3, <2>4 DEF EInv, GateKnown
    <2>6. served # None
      BY <2>0, <2>4, EngineAssumption DEF TypeOK
    <2>7. PICK d \in Calls : pc[d] = "gate" /\ awaited[d] = served
      BY <2>4, <2>5, <2>6 DEF Guarded
    <2> QED
      BY <2>3, <2>5, <2>7
  <1> QED
    BY <1>1, EngineInvariance, PTL DEF Spec, FirstCallWaits

----------------------------------------------------------------------------
(* What sessions and calls wait for. *)

\* The promise of a session was started, and may have settled.
Started(s) == promise[s] \in {"roots", "init", "settled"}

\* A call awaits a promise that was started, and a promise that awaits an open() has one
\* in flight.
AwaitsWhatEnds ==
    /\ \A s \in Sessions : current[s] => Started(s)
    /\ \A s \in Sessions : promise[s] = "init" => opening > 0
    /\ \A c \in Calls : pc[c] \in {"await1", "await2"} => Started(Of[c])

\* ensureInitialized joins the open() in flight or starts one, or it has nothing to await.
LEMMA EnsureAwaits ==
  ASSUME TypeOK, AwaitsWhatEnds, NEW s \in Sessions, EnsureInitialized(s)
  PROVE  /\ promise'[s] \in {"init", "settled"}
         /\ \A r \in Sessions \ {s} : promise'[r] = promise[r]
         /\ \A r \in Sessions : promise'[r] = "init" => opening' > 0
  <1>1. /\ promise'[s] \in {"init", "settled"}
        /\ \A r \in Sessions \ {s} : promise'[r] = promise[r]
    BY DEF EnsureInitialized, TypeOK
  <1>2. opening' \in {0, 1} /\ opening \in {0, 1}
    BY EnsureTypes DEF TypeOK
  <1>3. CASE closed \/ served # None \/ Shares
    <2>1. opening' = opening
      BY <1>3 DEF EnsureInitialized
    <2>2. promise'[s] = "init" => opening > 0
      BY <1>3 DEF EnsureInitialized, Shares, TypeOK
    <2> QED
      BY <1>1, <2>1, <2>2 DEF AwaitsWhatEnds
  <1>4. CASE ~(closed \/ served # None \/ Shares)
    <2>1. opening = 0
      BY <1>2, <1>4 DEF Shares
    <2>2. promise'[s] = "init" => opening' = 1
      BY <1>4, <2>1 DEF EnsureInitialized, TypeOK
    <2> QED
      BY <1>1, <2>1, <2>2 DEF AwaitsWhatEnds
  <1> QED
    BY <1>3, <1>4

\* The session's part of a call: it goes on to await the promise it has just started.
LEMMA ResolveAwaits ==
  ASSUME TypeOK, AwaitsWhatEnds, NEW c \in Calls, Resolve(c)
  PROVE  /\ pc'[c] \in {"execute", "await2"}
         /\ \A d \in Calls \ {c} : pc'[d] = pc[d]
         /\ pc'[c] = "await2" => Started(Of[c])'
         /\ \A r \in Sessions : Started(r) => Started(r)'
         /\ \A r \in Sessions : promise'[r] = "init" => opening' > 0
  <1> USE EngineAssumption
  <1>1. Of[c] \in Sessions /\ pc \in [Calls -> {"idle", "await1", "await2", "execute", "gate", "done"}]
    BY DEF TypeOK
  <1>2. CASE served # None
    <2>1. Goto(c, "execute") /\ UNCHANGED <<opening, promise>>
      BY <1>2 DEF Resolve, engineVars
    <2> QED
      BY <1>1, <2>1 DEF Goto, AwaitsWhatEnds, Started
  <1>3. CASE served = None /\ ~hinted /\ promise[Of[c]] = "none"
    <2>1. Goto(c, "await2")
      BY <1>3 DEF Resolve
    <2>2. CASE promise' = [promise EXCEPT ![Of[c]] = "roots"] /\ opening' = opening
      BY <1>1, <2>1, <2>2 DEF Goto, AwaitsWhatEnds, Started, TypeOK
    <2>3. CASE EnsureInitialized(Of[c])
      <3>1. /\ promise'[Of[c]] \in {"init", "settled"}
            /\ \A r \in Sessions \ {Of[c]} : promise'[r] = promise[r]
            /\ \A r \in Sessions : promise'[r] = "init" => opening' > 0
        BY <1>1, <2>3, EnsureAwaits
      <3> QED
        BY <1>1, <2>1, <3>1 DEF Goto, Started
    <2> QED
      BY <1>3, <2>2, <2>3 DEF Resolve, engineVars
  <1>4. CASE served = None /\ ~(~hinted /\ promise[Of[c]] = "none")
    <2>1. Goto(c, "execute") /\ RetryInitializeSync /\ promise' = promise
      BY <1>4 DEF Resolve
    <2>2. opening' = opening
      BY <2>1, RetryTypes
    <2> QED
      BY <1>1, <2>1, <2>2 DEF Goto, AwaitsWhatEnds, Started
  <1> QED
    BY <1>2, <1>3, <1>4

LEMMA AwaitsKept == TypeOK /\ AwaitsWhatEnds /\ [Next]_vars => AwaitsWhatEnds'
  <1> SUFFICES ASSUME TypeOK, AwaitsWhatEnds, [Next]_vars PROVE AwaitsWhatEnds'
    OBVIOUS
  <1> USE EngineAssumption
  <1>t. /\ current \in [Sessions -> BOOLEAN]
        /\ promise \in [Sessions -> {"new", "none", "roots", "init", "settled"}]
        /\ pc \in [Calls -> {"idle", "await1", "await2", "execute", "gate", "done"}]
        /\ opening \in {0, 1}
        /\ \A c \in Calls : Of[c] \in Sessions
    BY DEF TypeOK
  <1>0. CASE UNCHANGED <<opening, promise, current, pc>>
    BY <1>0 DEF AwaitsWhatEnds, Started
  <1>1. CASE UNCHANGED vars \/ Finished \/ Appear \/ Replace \/ Stop \/ \E i \in Instances : CatchUpEnds(i)
    BY <1>0, <1>1 DEF vars, Finished, Appear, Replace, Stop, CatchUpEnds, engineVars, sessionVars, callVars
  <1>2. CASE OpenEnds
    <2>1. opening' = 0 /\ UNCHANGED <<current, pc>>
      BY <1>2, <1>t DEF OpenEnds, callVars
    <2>2. promise' = [s \in Sessions |-> IF promise[s] = "init" THEN "settled" ELSE promise[s]]
      BY <1>2, <2>1 DEF OpenEnds
    <2> QED
      BY <1>t, <2>1, <2>2 DEF AwaitsWhatEnds, Started
  <1>3. ASSUME NEW s \in Sessions, RootsEnd(s) PROVE AwaitsWhatEnds'
    <2>1. EnsureInitialized(s) /\ UNCHANGED <<current, pc>>
      BY <1>3 DEF RootsEnd, callVars
    <2> QED
      BY <1>t, <2>1, EnsureAwaits DEF AwaitsWhatEnds, Started
  <1>4. ASSUME NEW s \in Sessions, NEW given \in BOOLEAN, Initialize(s, given)
        PROVE  AwaitsWhatEnds'
    <2>1. promise[s] = "new" /\ pc' = pc
      BY <1>4 DEF Initialize, callVars
    <2>2. CASE given
      <3>1. EnsureInitialized(s) /\ current' = [current EXCEPT ![s] = TRUE]
        BY <1>4, <2>2 DEF Initialize
      <3> QED
        BY <1>t, <2>1, <3>1, EnsureAwaits DEF AwaitsWhatEnds, Started
    <2>3. CASE ~given
      <3>1. promise' = [promise EXCEPT ![s] = "none"] /\ UNCHANGED <<current, opening>>
        BY <1>4, <2>3 DEF Initialize, engineVars
      <3> QED
        BY <1>t, <2>1, <3>1 DEF AwaitsWhatEnds, Started
    <2> QED
      BY <2>2, <2>3
  <1>5. ASSUME NEW c \in Calls, Arrive(c) PROVE AwaitsWhatEnds'
    <2>1. CASE current[Of[c]]
      <3>1. Goto(c, "await1") /\ UNCHANGED <<opening, promise, current>>
        BY <1>5, <2>1 DEF Arrive, engineVars, sessionVars
      <3> QED
        BY <1>t, <2>1, <3>1 DEF Goto, AwaitsWhatEnds, Started
    <2>2. CASE ~current[Of[c]]
      <3>1. Resolve(c) /\ current' = [current EXCEPT ![Of[c]] = (pc'[c] = "await2")]
        BY <1>5, <2>2 DEF Arrive
      <3> QED
        BY <1>t, <3>1, ResolveAwaits DEF AwaitsWhatEnds
    <2> QED
      BY <2>1, <2>2
  <1>6. ASSUME NEW c \in Calls, Resume(c) PROVE AwaitsWhatEnds'
    <2>1. current' = [current EXCEPT ![Of[c]] = FALSE]
      BY <1>6 DEF Resume
    <2>2. CASE Resolve(c)
      BY <1>t, <2>1, <2>2, ResolveAwaits DEF AwaitsWhatEnds
    <2>3. CASE ~Resolve(c)
      <3>1. Goto(c, "execute") /\ promise' = promise
        BY <1>6, <2>3 DEF Resume
      <3>2. opening' = opening
        BY <1>6, <2>3, RetryTypes DEF Resume, engineVars
      <3> QED
        BY <1>t, <2>1, <3>1, <3>2 DEF Goto, AwaitsWhatEnds, Started
    <2> QED
      BY <2>2, <2>3
  <1>7. ASSUME NEW c \in Calls, Execute(c) \/ GateOpens(c) PROVE AwaitsWhatEnds'
    <2>1. UNCHANGED <<opening, promise, current>>
      BY <1>7 DEF Execute, GateOpens, engineVars, sessionVars
    <2>2. pc' = [pc EXCEPT ![c] = "done"] \/ pc' = [pc EXCEPT ![c] = "gate"]
      BY <1>7 DEF Execute, GateOpens, Serve
    <2> QED
      BY <1>t, <2>1, <2>2 DEF AwaitsWhatEnds, Started
  <1> QED
    BY <1>1, <1>2, <1>3, <1>4, <1>5, <1>6, <1>7 DEF Next

\* MCPSession.retryInitIfNeeded: for every number of sessions and calls, no call awaits a
\* promise that nobody has started, nor an open() that has already ended.
THEOREM NoCallAwaitsInVain == Spec => []AwaitsWhatEnds
  <1>1. Init => AwaitsWhatEnds
    BY DEF Init, AwaitsWhatEnds
  <1>2. TypeOK /\ AwaitsWhatEnds /\ [Next]_vars => AwaitsWhatEnds'
    BY AwaitsKept
  <1> QED
    BY <1>1, <1>2, EngineTypeCorrect, PTL DEF Spec
=============================================================================
