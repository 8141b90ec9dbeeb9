----------------------------- MODULE ProxyProofs -----------------------------
(***************************************************************************)
(* For every set of ids: the proxy's queues partition the unanswered       *)
(* requests, and the proxy implements the safety part of SessionContract.  *)
(***************************************************************************)
EXTENDS Proxy, TLAPS

\* All that the daemon may still reply to was forwarded and is remembered, or
\* is the handshake, whose reply is not passed on.
Remembered ==
    \A x \in Ids : x \in toDaemon \cup working \cup toProxy =>
        status = "ready" /\ (x \in inflight \/ KindOf[x] = "initialize")

\* On its way through the socket a request is in one place only.
InOnePlace ==
    \A x \in Ids : /\ ~(x \in toDaemon /\ x \in working)
                   /\ ~(x \in toDaemon /\ x \in toProxy)
                   /\ ~(x \in working /\ x \in toProxy)

\* Which queues may be in use.
QueuesOfStatus ==
    /\ status # "connecting" => pending = {}
    /\ status # "ready" => inflight = {}
    /\ status # "failed" => buffered = {} /\ serving = {}
    /\ status = "connecting" => socket = "none" /\ toProxy = {} /\ owes = {}
    /\ socket # "open" => toDaemon = {} /\ working = {}

\* A request is queued between being asked and being answered.
Queued(i) == i \in pending \/ i \in buffered \/ i \in inflight \/ i \in serving

Waiting(i) == i \in asked /\ replies[i] = 0

QueuedIffWaiting ==
    \A i \in Ids : /\ KindOf[i] # "initialize" => (Queued(i) <=> Waiting(i))
                   /\ KindOf[i] = "initialize" => ~(i \in inflight) /\ ~(i \in serving)
                   /\ ~(i \in buffered /\ i \in serving)

\* What was not asked is nowhere, and the handshake is answered when it is asked.
AnsweredAfterAsked ==
    \A i \in Ids :
        /\ i \notin asked => /\ replies[i] = 0 /\ ~Queued(i)
                             /\ i \notin toDaemon \cup working \cup toProxy
        /\ i \in asked /\ KindOf[i] = "initialize" => replies[i] = 1
        /\ replies[i] \in {0, 1}

IInv == TypeOK /\ Remembered /\ InOnePlace /\ QueuesOfStatus /\ QueuedIffWaiting /\ AnsweredAfterAsked

----------------------------------------------------------------------------
(* IInv holds initially and every action keeps it. *)

\* A proxy that was just started has no lines anywhere.
LEMMA InitHolds == Init => IInv
  <1> SUFFICES ASSUME Init PROVE IInv
    OBVIOUS
  <1> USE ProxyAssumption DEF Init, Lines
  <1>1. TypeOK
    BY DEF TypeOK
  <1>2. Remembered /\ InOnePlace /\ QueuesOfStatus
    BY DEF Remembered, InOnePlace, QueuesOfStatus
  <1>3. QueuedIffWaiting /\ AnsweredAfterAsked
    BY DEF QueuedIffWaiting, AnsweredAfterAsked, Queued, Waiting
  <1> QED BY <1>1, <1>2, <1>3 DEF IInv

\* What a line of the host does to the queues, and whether it is answered.
Rejected(x) == UNCHANGED <<pending, inflight, toDaemon, serving>>
Pended(x)   == /\ status = "connecting" /\ pending' = pending \cup {x}
               /\ UNCHANGED <<inflight, toDaemon, serving>>
Forwarded(x) == /\ status = "ready" /\ Forward({x})
                /\ UNCHANGED <<pending, serving>>
Served(x)   == /\ status = "failed" /\ serving' = serving \cup Executed({x})
               /\ UNCHANGED <<pending, inflight, toDaemon>>
Unanswered  == replies' = replies
AnsweredBy(x) == replies' = [y \in Lines |-> IF y = x THEN replies[y] + 1 ELSE replies[y]]

\* The handler of process.stdin, as the seven things it may do.
LEMMA LineEffects ==
    ASSUME TypeOK, NEW x \in Lines, OnLine(x)
    PROVE  \/ Rejected(x) /\ AnsweredBy(x)
           \/ Pended(x) /\ Kind(x) = "initialize" /\ AnsweredBy(x)
           \/ Forwarded(x) /\ Kind(x) = "initialize" /\ AnsweredBy(x)
           \/ Served(x) /\ Kind(x) # "call" /\ AnsweredBy(x)
           \/ Pended(x) /\ Kind(x) # "initialize" /\ Unanswered
           \/ Forwarded(x) /\ Kind(x) # "initialize" /\ Unanswered
           \/ Served(x) /\ Kind(x) = "call" /\ Unanswered
  <1>1. CASE AnsweredAtOnce(x)
    <2>1. AnsweredBy(x)
      <3>1. {y \in {x} : AnsweredAtOnce(y)} = {x}
        BY <1>1
      <3>2. replies' = Replied({x})
        BY <3>1 DEF OnLine
      <3> QED BY <3>2 DEF Replied, AnsweredBy
    <2>2. CASE stale \/ Kind(x) = "list"
      <3>1. Rejected(x)
        BY <2>2, Zenon DEF OnLine, Rejected
      <3> QED BY <2>1, <3>1
    <2>3. CASE ~(stale \/ Kind(x) = "list")
      <3>1. RouteToDaemon(x)
        BY <2>3, Zenon DEF OnLine
      <3>2. Kind(x) = "initialize" \/ (status = "failed" /\ AnsweredNow({x}) # {})
        BY <1>1, <2>3, Zenon DEF AnsweredAtOnce
      <3>3. Pended(x) \/ Forwarded(x) \/ Served(x)
        BY <3>1 DEF TypeOK, RouteToDaemon, Pended, Forwarded, Served
      <3>4. status = "failed" /\ AnsweredNow({x}) # {} => Kind(x) # "call"
        BY DEF AnsweredNow
      <3> QED BY <2>1, <3>2, <3>3, <3>4 DEF Pended, Forwarded, Served
    <2> QED BY <2>2, <2>3
  <1>2. CASE ~AnsweredAtOnce(x)
    <2>1. Unanswered
      <3>1. {y \in {x} : AnsweredAtOnce(y)} = {}
        BY <1>2
      <3>2. replies' = Replied({})
        BY <3>1 DEF OnLine
      <3> QED BY <3>2 DEF Replied, Unanswered, TypeOK
    <2>2. ~(stale \/ Kind(x) = "list") /\ Kind(x) # "initialize"
      BY <1>2, Zenon DEF AnsweredAtOnce
    <2>3. ~(status = "failed" /\ AnsweredNow({x}) # {})
      BY <1>2, Zenon DEF AnsweredAtOnce
    <2>4. RouteToDaemon(x)
      BY <2>2, Zenon DEF OnLine
    <2>5. Pended(x) \/ Forwarded(x) \/ Served(x)
      BY <2>4 DEF TypeOK, RouteToDaemon, Pended, Forwarded, Served
    <2>6. status = "failed" => Kind(x) = "call"
      BY <2>2, <2>3 DEF AnsweredNow
    <2> QED BY <2>1, <2>2, <2>5, <2>6 DEF Pended, Forwarded, Served
  <1> QED BY <1>1, <1>2

\* A new request is queued, forwarded or answered.
LEMMA HostAsksKeeps ==
    ASSUME IInv, NEW i \in Ids, HostAsks(i)
    PROVE  IInv'
  <1>1. /\ i \in Lines /\ i \notin SrvIds
        /\ Kind(i) = KindOf[i] /\ KindOf[i] \in {"initialize", "list", "call", "other"}
    BY ProxyAssumption DEF Lines, Kind
  <1>2. /\ i \notin asked /\ asked' = asked \cup {i}
        /\ UNCHANGED <<up, stale, status, buffered, waitsFor, socket, toProxy,
                       working, srvAsked, owes>>
    BY DEF HostAsks
  <1>3. closing' \in BOOLEAN
    <2>1. closing \in BOOLEAN /\ stale \in BOOLEAN
      BY DEF IInv, TypeOK
    <2>2. closing' = (closing \/ stale)
      BY DEF HostAsks, OnLine
    <2> QED BY <2>1, <2>2, Zenon
  <1>4. /\ replies \in [Lines -> Nat] /\ replies[i] = 0 /\ ~Queued(i)
        /\ i \notin toDaemon \cup working \cup toProxy
    BY <1>2 DEF IInv, TypeOK, AnsweredAfterAsked
  <1>5. TypeOK'
    BY <1>1, <1>2, <1>3, <1>4, LineEffects, ProxyAssumption
       DEF IInv, TypeOK, HostAsks, Rejected, Pended, Forwarded, Served, Unanswered,
           AnsweredBy, Forward, Tracked, Executed
  <1>6. \/ Rejected(i) /\ AnsweredBy(i)
        \/ Pended(i) /\ KindOf[i] = "initialize" /\ AnsweredBy(i)
        \/ Forwarded(i) /\ KindOf[i] = "initialize" /\ AnsweredBy(i)
        \/ Served(i) /\ KindOf[i] # "call" /\ AnsweredBy(i)
        \/ Pended(i) /\ KindOf[i] # "initialize" /\ Unanswered
        \/ Forwarded(i) /\ KindOf[i] # "initialize" /\ Unanswered
        \/ Served(i) /\ KindOf[i] = "call" /\ Unanswered
    BY <1>1, LineEffects DEF IInv, HostAsks
  <1> USE <1>1, <1>2, <1>4, <1>6, ProxyAssumption
      DEF Rejected, Pended, Forwarded, Served, Unanswered, AnsweredBy, Forward,
          Tracked, Executed, Kind, Lines
  <1>7. Remembered'
    BY DEF IInv, TypeOK, Remembered, QueuesOfStatus
  <1>8. InOnePlace'
    BY DEF IInv, TypeOK, InOnePlace, QueuesOfStatus
  <1>9. QueuesOfStatus'
    BY DEF IInv, TypeOK, QueuesOfStatus
  <1>10. QueuedIffWaiting'
    BY DEF IInv, TypeOK, QueuesOfStatus, QueuedIffWaiting, AnsweredAfterAsked, Queued, Waiting
  <1>11. AnsweredAfterAsked'
    BY DEF IInv, TypeOK, QueuesOfStatus, QueuedIffWaiting, AnsweredAfterAsked, Queued, Waiting
  <1> QED BY <1>5, <1>7, <1>8, <1>9, <1>10, <1>11 DEF IInv

\* A line that answers the daemon changes no request.
LEMMA HostAnswersKeeps ==
    ASSUME IInv, NEW r \in SrvIds, HostAnswers(r)
    PROVE  IInv'
  <1>1. r \in Lines /\ r \notin Ids /\ Kind(r) = "answer"
    BY ProxyAssumption DEF Lines, Kind
  <1>2. /\ owes' = owes \ {r} /\ status # "connecting"
        /\ UNCHANGED <<up, stale, status, buffered, waitsFor, socket, toProxy,
                       working, srvAsked, asked>>
    BY DEF HostAnswers, IInv, QueuesOfStatus
  <1>3. closing' \in BOOLEAN
    <2>1. closing \in BOOLEAN /\ stale \in BOOLEAN
      BY DEF IInv, TypeOK
    <2>2. closing' = (closing \/ stale)
      BY DEF HostAnswers, OnLine
    <2> QED BY <2>1, <2>2, Zenon
  <1>4. Rejected(r) \/ Forwarded(r) \/ Served(r)
    BY <1>1, <1>2, LineEffects DEF IInv, HostAnswers, Pended
  <1>5. AnsweredBy(r) \/ Unanswered
    BY <1>1, LineEffects DEF IInv, HostAnswers
  <1>6. UNCHANGED <<pending, inflight, serving>>
    BY <1>1, <1>4 DEF Rejected, Forwarded, Served, Forward, Tracked, Executed, IInv, TypeOK
  <1>7. /\ toDaemon' = toDaemon \/ (socket = "open" /\ toDaemon' = toDaemon \cup {r})
    BY <1>4 DEF Rejected, Forwarded, Served, Forward
  <1>8. replies' \in [Lines -> Nat] /\ \A i \in Ids : replies'[i] = replies[i]
    BY <1>1, <1>5 DEF AnsweredBy, Unanswered, IInv, TypeOK, Lines
  <1> USE <1>1, <1>2, <1>3, <1>6, <1>7, <1>8
  <1>9. TypeOK'
    BY DEF IInv, TypeOK
  <1>10. Remembered' /\ InOnePlace' /\ QueuesOfStatus'
    BY DEF IInv, Remembered, InOnePlace, QueuesOfStatus
  <1>11. QueuedIffWaiting' /\ AnsweredAfterAsked'
    BY DEF IInv, QueuedIffWaiting, AnsweredAfterAsked, Queued, Waiting
  <1> QED BY <1>9, <1>10, <1>11 DEF IInv

\* What was pending is forwarded.
LEMMA ConnectKeeps ==
    ASSUME IInv, Connect
    PROVE  IInv'
  <1> USE ProxyAssumption DEF Lines, Connect, Tracked, Kind, host
  <1>1. TypeOK'
    BY DEF TypeOK, Remembered, QueuesOfStatus, IInv
  <1>2. Remembered'
    BY DEF IInv, TypeOK, Remembered, InOnePlace, QueuesOfStatus
  <1>3. InOnePlace'
    BY DEF IInv, TypeOK, Remembered, InOnePlace, QueuesOfStatus, AnsweredAfterAsked
  <1>4. QueuesOfStatus'
    BY DEF IInv, TypeOK, QueuesOfStatus
  <1>5. QueuedIffWaiting'
    BY DEF IInv, TypeOK, Remembered, QueuesOfStatus, QueuedIffWaiting, AnsweredAfterAsked, Queued, Waiting
  <1>6. AnsweredAfterAsked'
    BY DEF IInv, TypeOK, Remembered, InOnePlace, QueuesOfStatus, QueuedIffWaiting, AnsweredAfterAsked, Queued, Waiting
  <1> QED BY <1>1, <1>2, <1>3, <1>4, <1>5, <1>6 DEF IInv

\* What was pending is buffered.
LEMMA UnavailableKeeps ==
    ASSUME IInv, Unavailable
    PROVE  IInv'
  <1> USE ProxyAssumption DEF Lines, Unavailable, daemon, host
  <1>1. TypeOK'
    BY DEF TypeOK, Remembered, QueuesOfStatus, IInv
  <1>2. Remembered'
    BY DEF IInv, TypeOK, Remembered, InOnePlace, QueuesOfStatus
  <1>3. InOnePlace'
    BY DEF IInv, TypeOK, Remembered, InOnePlace, QueuesOfStatus, AnsweredAfterAsked
  <1>4. QueuesOfStatus'
    BY DEF IInv, TypeOK, QueuesOfStatus
  <1>5. QueuedIffWaiting'
    BY DEF IInv, TypeOK, Remembered, QueuesOfStatus, QueuedIffWaiting, AnsweredAfterAsked, Queued, Waiting
  <1>6. AnsweredAfterAsked'
    BY DEF IInv, TypeOK, Remembered, InOnePlace, QueuesOfStatus, QueuedIffWaiting, AnsweredAfterAsked, Queued, Waiting
  <1> QED BY <1>1, <1>2, <1>3, <1>4, <1>5, <1>6 DEF IInv

\* A buffered line is served in-process.
LEMMA ServeBufferedKeeps ==
    ASSUME IInv, NEW x \in Ids, ServeBuffered(x)
    PROVE  IInv'
  <1> USE ProxyAssumption DEF Lines, ServeBuffered, HandleLocally, Executed, AnsweredNow, Replied, Kind, daemon, host
  <1>1. TypeOK'
    BY DEF TypeOK, Remembered, QueuesOfStatus, IInv
  <1>2. Remembered'
    BY DEF IInv, TypeOK, Remembered, InOnePlace, QueuesOfStatus
  <1>3. InOnePlace'
    BY DEF IInv, TypeOK, Remembered, InOnePlace, QueuesOfStatus, AnsweredAfterAsked
  <1>4. QueuesOfStatus'
    BY DEF IInv, TypeOK, QueuesOfStatus
  <1>5. QueuedIffWaiting'
    BY DEF IInv, TypeOK, Remembered, QueuesOfStatus, QueuedIffWaiting, AnsweredAfterAsked, Queued, Waiting
  <1>6. AnsweredAfterAsked'
    BY DEF IInv, TypeOK, Remembered, InOnePlace, QueuesOfStatus, QueuedIffWaiting, AnsweredAfterAsked, Queued, Waiting
  <1> QED BY <1>1, <1>2, <1>3, <1>4, <1>5, <1>6 DEF IInv

\* A tool call served in-process ends.
LEMMA EngineAnswersKeeps ==
    ASSUME IInv, NEW x \in Ids, EngineAnswers(x)
    PROVE  IInv'
  <1> USE ProxyAssumption DEF Lines, EngineAnswers, Replied, daemon, host
  <1>1. TypeOK'
    BY DEF TypeOK, Remembered, QueuesOfStatus, IInv
  <1>2. Remembered'
    BY DEF IInv, TypeOK, Remembered, InOnePlace, QueuesOfStatus
  <1>3. InOnePlace'
    BY DEF IInv, TypeOK, Remembered, InOnePlace, QueuesOfStatus, AnsweredAfterAsked
  <1>4. QueuesOfStatus'
    BY DEF IInv, TypeOK, QueuesOfStatus
  <1>5. QueuedIffWaiting'
    BY DEF IInv, TypeOK, Remembered, QueuesOfStatus, QueuedIffWaiting, AnsweredAfterAsked, Queued, Waiting
  <1>6. AnsweredAfterAsked'
    BY DEF IInv, TypeOK, Remembered, InOnePlace, QueuesOfStatus, QueuedIffWaiting, AnsweredAfterAsked, Queued, Waiting
  <1> QED BY <1>1, <1>2, <1>3, <1>4, <1>5, <1>6 DEF IInv

\* A reply of the daemon is to a request in flight.
LEMMA OnSocketLineKeeps ==
    ASSUME IInv, NEW x \in Lines, OnSocketLine(x)
    PROVE  IInv'
  <1> USE ProxyAssumption DEF Lines, OnSocketLine, Suppressed, Replied, Kind
  <1>1. TypeOK'
    BY DEF TypeOK, Remembered, QueuesOfStatus, IInv
  <1>2. Remembered'
    BY DEF IInv, TypeOK, Remembered, InOnePlace, QueuesOfStatus
  <1>3. InOnePlace'
    BY DEF IInv, TypeOK, Remembered, InOnePlace, QueuesOfStatus, AnsweredAfterAsked
  <1>4. QueuesOfStatus'
    BY DEF IInv, TypeOK, QueuesOfStatus
  <1>5. QueuedIffWaiting'
    BY DEF IInv, TypeOK, Remembered, QueuesOfStatus, QueuedIffWaiting, AnsweredAfterAsked, Queued, Waiting
  <1>6. AnsweredAfterAsked'
    BY DEF IInv, TypeOK, Remembered, InOnePlace, QueuesOfStatus, QueuedIffWaiting, AnsweredAfterAsked, Queued, Waiting
  <1> QED BY <1>1, <1>2, <1>3, <1>4, <1>5, <1>6 DEF IInv

\* What was in flight is served in-process.
LEMMA OnDaemonLostKeeps ==
    ASSUME IInv, OnDaemonLost
    PROVE  IInv'
  <1> USE ProxyAssumption DEF Lines, OnDaemonLost, Orphaned, HandleLocally, Executed, AnsweredNow, Replied, Kind, daemon, host
  <1>1. TypeOK'
    BY DEF TypeOK, Remembered, QueuesOfStatus, IInv
  <1>2. Remembered'
    BY DEF IInv, TypeOK, Remembered, InOnePlace, QueuesOfStatus
  <1>3. InOnePlace'
    BY DEF IInv, TypeOK, Remembered, InOnePlace, QueuesOfStatus, AnsweredAfterAsked
  <1>4. QueuesOfStatus'
    BY DEF IInv, TypeOK, QueuesOfStatus
  <1>5. QueuedIffWaiting'
    BY DEF IInv, TypeOK, Remembered, QueuesOfStatus, QueuedIffWaiting, AnsweredAfterAsked, Queued, Waiting
  <1>6. AnsweredAfterAsked'
    BY DEF IInv, TypeOK, Remembered, InOnePlace, QueuesOfStatus, QueuedIffWaiting, AnsweredAfterAsked, Queued, Waiting
  <1> QED BY <1>1, <1>2, <1>3, <1>4, <1>5, <1>6 DEF IInv

\* The daemon's session reads a line.
LEMMA DaemonTakesKeeps ==
    ASSUME IInv, NEW x \in Lines, DaemonTakes(x)
    PROVE  IInv'
  <1> USE ProxyAssumption DEF Lines, DaemonTakes, host
  <1>1. TypeOK'
    BY DEF TypeOK, Remembered, QueuesOfStatus, IInv
  <1>2. Remembered'
    BY DEF IInv, TypeOK, Remembered, InOnePlace, QueuesOfStatus
  <1>3. InOnePlace'
    BY DEF IInv, TypeOK, Remembered, InOnePlace, QueuesOfStatus, AnsweredAfterAsked
  <1>4. QueuesOfStatus'
    BY DEF IInv, TypeOK, QueuesOfStatus
  <1>5. QueuedIffWaiting'
    BY DEF IInv, TypeOK, Remembered, QueuesOfStatus, QueuedIffWaiting, AnsweredAfterAsked, Queued, Waiting
  <1>6. AnsweredAfterAsked'
    BY DEF IInv, TypeOK, Remembered, InOnePlace, QueuesOfStatus, QueuedIffWaiting, AnsweredAfterAsked, Queued, Waiting
  <1> QED BY <1>1, <1>2, <1>3, <1>4, <1>5, <1>6 DEF IInv

\* The daemon's session answers.
LEMMA DaemonRepliesKeeps ==
    ASSUME IInv, NEW x \in Ids, DaemonReplies(x)
    PROVE  IInv'
  <1> USE ProxyAssumption DEF Lines, DaemonReplies, host
  <1>1. TypeOK'
    BY DEF TypeOK, Remembered, QueuesOfStatus, IInv
  <1>2. Remembered'
    BY DEF IInv, TypeOK, Remembered, InOnePlace, QueuesOfStatus
  <1>3. InOnePlace'
    BY DEF IInv, TypeOK, Remembered, InOnePlace, QueuesOfStatus, AnsweredAfterAsked
  <1>4. QueuesOfStatus'
    BY DEF IInv, TypeOK, QueuesOfStatus
  <1>5. QueuedIffWaiting'
    BY DEF IInv, TypeOK, Remembered, QueuesOfStatus, QueuedIffWaiting, AnsweredAfterAsked, Queued, Waiting
  <1>6. AnsweredAfterAsked'
    BY DEF IInv, TypeOK, Remembered, InOnePlace, QueuesOfStatus, QueuedIffWaiting, AnsweredAfterAsked, Queued, Waiting
  <1> QED BY <1>1, <1>2, <1>3, <1>4, <1>5, <1>6 DEF IInv

\* The daemon's session asks.
LEMMA DaemonAsksRootsKeeps ==
    ASSUME IInv, NEW r \in SrvIds, DaemonAsksRoots(r)
    PROVE  IInv'
  <1> USE ProxyAssumption DEF Lines, DaemonAsksRoots, host
  <1>1. TypeOK'
    BY DEF TypeOK, Remembered, QueuesOfStatus, IInv
  <1>2. Remembered'
    BY DEF IInv, TypeOK, Remembered, InOnePlace, QueuesOfStatus
  <1>3. InOnePlace'
    BY DEF IInv, TypeOK, Remembered, InOnePlace, QueuesOfStatus, AnsweredAfterAsked
  <1>4. QueuesOfStatus'
    BY DEF IInv, TypeOK, QueuesOfStatus
  <1>5. QueuedIffWaiting'
    BY DEF IInv, TypeOK, Remembered, QueuesOfStatus, QueuedIffWaiting, AnsweredAfterAsked, Queued, Waiting
  <1>6. AnsweredAfterAsked'
    BY DEF IInv, TypeOK, Remembered, InOnePlace, QueuesOfStatus, QueuedIffWaiting, AnsweredAfterAsked, Queued, Waiting
  <1> QED BY <1>1, <1>2, <1>3, <1>4, <1>5, <1>6 DEF IInv

\* What the daemon had is gone, or still arrives.
LEMMA DaemonDiesKeeps ==
    ASSUME IInv, DaemonDies
    PROVE  IInv'
  <1> USE ProxyAssumption DEF Lines, DaemonDies, host
  <1>1. TypeOK'
    BY DEF TypeOK, Remembered, QueuesOfStatus, IInv
  <1>2. Remembered'
    BY DEF IInv, TypeOK, Remembered, InOnePlace, QueuesOfStatus
  <1>3. InOnePlace'
    BY DEF IInv, TypeOK, Remembered, InOnePlace, QueuesOfStatus, AnsweredAfterAsked
  <1>4. QueuesOfStatus'
    BY DEF IInv, TypeOK, QueuesOfStatus
  <1>5. QueuedIffWaiting'
    BY DEF IInv, TypeOK, Remembered, QueuesOfStatus, QueuedIffWaiting, AnsweredAfterAsked, Queued, Waiting
  <1>6. AnsweredAfterAsked'
    BY DEF IInv, TypeOK, Remembered, InOnePlace, QueuesOfStatus, QueuedIffWaiting, AnsweredAfterAsked, Queued, Waiting
  <1> QED BY <1>1, <1>2, <1>3, <1>4, <1>5, <1>6 DEF IInv

\* Neither touches a queue.
LEMMA ShutdownKeeps ==
    ASSUME IInv, Shutdown \/ Upgrade
    PROVE  IInv'
  <1> USE ProxyAssumption DEF Lines, Shutdown, Upgrade, daemon, host
  <1>1. TypeOK'
    BY DEF TypeOK, Remembered, QueuesOfStatus, IInv
  <1>2. Remembered'
    BY DEF IInv, TypeOK, Remembered, InOnePlace, QueuesOfStatus
  <1>3. InOnePlace'
    BY DEF IInv, TypeOK, Remembered, InOnePlace, QueuesOfStatus, AnsweredAfterAsked
  <1>4. QueuesOfStatus'
    BY DEF IInv, TypeOK, QueuesOfStatus
  <1>5. QueuedIffWaiting'
    BY DEF IInv, TypeOK, Remembered, QueuesOfStatus, QueuedIffWaiting, AnsweredAfterAsked, Queued, Waiting
  <1>6. AnsweredAfterAsked'
    BY DEF IInv, TypeOK, Remembered, InOnePlace, QueuesOfStatus, QueuedIffWaiting, AnsweredAfterAsked, Queued, Waiting
  <1> QED BY <1>1, <1>2, <1>3, <1>4, <1>5, <1>6 DEF IInv

\* Every handler of the proxy and the daemon keeps the invariant.
LEMMA NextKeeps == IInv /\ [Next]_vars => IInv'
  <1> SUFFICES ASSUME IInv, [Next]_vars PROVE IInv'
    OBVIOUS
  <1>1. ASSUME NEW i \in Ids, HostAsks(i) PROVE IInv'
    BY <1>1, HostAsksKeeps
  <1>2. ASSUME NEW r \in SrvIds, HostAnswers(r) PROVE IInv'
    BY <1>2, HostAnswersKeeps
  <1>3. ASSUME NEW x \in Lines, OnSocketLine(x) PROVE IInv'
    BY <1>3, OnSocketLineKeeps
  <1>4. ASSUME NEW x \in Lines, DaemonTakes(x) PROVE IInv'
    BY <1>4, DaemonTakesKeeps
  <1>5. ASSUME NEW i \in Ids, ServeBuffered(i) \/ EngineAnswers(i) \/ DaemonReplies(i)
        PROVE IInv'
    BY <1>5, ServeBufferedKeeps, EngineAnswersKeeps, DaemonRepliesKeeps
  <1>6. ASSUME NEW r \in SrvIds, DaemonAsksRoots(r) PROVE IInv'
    BY <1>6, DaemonAsksRootsKeeps
  <1>7. CASE Upgrade \/ Shutdown
    BY <1>7, ShutdownKeeps
  <1>8. CASE Connect \/ Unavailable \/ OnDaemonLost \/ DaemonDies
    BY <1>8, ConnectKeeps, UnavailableKeeps, OnDaemonLostKeeps, DaemonDiesKeeps
  <1>9. CASE UNCHANGED vars
    BY <1>9 DEF vars, IInv, TypeOK, Remembered, InOnePlace, QueuesOfStatus,
                QueuedIffWaiting, AnsweredAfterAsked, Queued, Waiting
  <1> QED BY <1>1, <1>2, <1>3, <1>4, <1>5, <1>6, <1>7, <1>8, <1>9 DEF Next

\* The queues partition the unanswered requests at all times.
THEOREM Invariance == SafeSpec => []IInv
  BY InitHolds, NextKeeps, PTL DEF SafeSpec

----------------------------------------------------------------------------
(* The invariants of the runs. *)

\* The types hold for every set of ids.
THEOREM TypeCorrect == SafeSpec => []TypeOK
  <1>1. IInv => TypeOK
    BY DEF IInv
  <1> QED BY <1>1, Invariance, PTL

\* However the daemon comes and goes, a request without a reply is in exactly one
\* of the proxy's queues and one with a reply is in none: nothing that the host
\* asked is dropped and nothing is served twice.
THEOREM RequestsAreHeldOnce == SafeSpec => []EachRequestHeldOnce
  <1>1. IInv => EachRequestHeldOnce
    <2> SUFFICES ASSUME IInv, NEW i \in Ids, KindOf[i] # "initialize"
                 PROVE  IF i \in asked /\ replies[i] = 0
                        THEN \E q \in Holders(i) : Holders(i) = {q}
                        ELSE Holders(i) = {}
      BY DEF EachRequestHeldOnce, IdsOf
    <2>1. Queued(i) <=> (i \in asked /\ replies[i] = 0)
      BY DEF IInv, QueuedIffWaiting, Waiting
    <2>2. CASE ~Queued(i)
      BY <2>1, <2>2 DEF Queued, Holders
    <2>3. CASE i \in pending
      <3>1. Holders(i) = {"pending"}
        BY <2>3 DEF Holders, IInv, TypeOK, QueuesOfStatus
      <3> QED BY <2>1, <2>3, <3>1 DEF Queued
    <2>4. CASE i \in inflight
      <3>1. Holders(i) = {"inflight"}
        BY <2>4 DEF Holders, IInv, TypeOK, QueuesOfStatus
      <3> QED BY <2>1, <2>4, <3>1 DEF Queued
    <2>5. CASE i \in buffered
      <3>1. Holders(i) = {"buffered"}
        BY <2>5 DEF Holders, IInv, TypeOK, QueuesOfStatus, QueuedIffWaiting
      <3> QED BY <2>1, <2>5, <3>1 DEF Queued
    <2>6. CASE i \in serving
      <3>1. Holders(i) = {"serving"}
        BY <2>6 DEF Holders, IInv, TypeOK, QueuesOfStatus, QueuedIffWaiting
      <3> QED BY <2>1, <2>6, <3>1 DEF Queued
    <2> QED BY <2>2, <2>3, <2>4, <2>5, <2>6 DEF Queued
  <1> QED BY <1>1, Invariance, PTL

----------------------------------------------------------------------------
(* The proxy implements the safety part of SessionContract. *)

ReplyOf == [i \in Ids |-> replies[i]]

\* A step that gives no request a reply and asks nothing is a stutter.
LEMMA Stutters ==
    ASSUME UNCHANGED <<up, asked>>, \A i \in Ids : replies'[i] = replies[i]
    PROVE  UNCHANGED Contract!vars
  <1>1. [i \in Ids |-> replies'[i]] = [i \in Ids |-> replies[i]]
    OBVIOUS
  <1> QED BY <1>1 DEF Contract!vars

\* A step that gives exactly the requests of S, all of them waiting, their reply.
LEMMA AnswersAll ==
    ASSUME IInv, up, UNCHANGED <<up, asked>>, NEW S \in SUBSET Ids,
           \A i \in S : Waiting(i), replies' = Replied(S)
    PROVE  Contract!Next
  <1>1. S \subseteq asked /\ \A i \in S : ReplyOf[i] = 0
    BY DEF Waiting, ReplyOf
  <1>2. \A i \in Ids : replies'[i] = IF i \in S THEN 1 ELSE replies[i]
    BY DEF Replied, Waiting, Lines, IInv, TypeOK
  <1>3. [i \in Ids |-> replies'[i]] = [i \in Ids |-> IF i \in S THEN 1 ELSE ReplyOf[i]]
    BY <1>2 DEF ReplyOf
  <1>4. Contract!AnswerAll(S)
    BY <1>1, <1>3 DEF Contract!AnswerAll, ReplyOf
  <1> QED BY <1>4 DEF Contract!Next

\* A request of the host is answered at once, or only asked.
LEMMA AskStep ==
    ASSUME IInv, NEW i \in Ids, HostAsks(i)
    PROVE  Contract!Next
  <1>1. i \notin asked /\ asked' = asked \cup {i} /\ up' = up /\ i \in Lines
    BY DEF HostAsks, Lines
  <1>2. up
    BY Zenon DEF HostAsks
  <1>3. replies \in [Lines -> Nat] /\ replies[i] = 0
    BY <1>1 DEF IInv, TypeOK, AnsweredAfterAsked
  <1>4. CASE AnsweredBy(i)
    <2>1. [j \in Ids |-> replies'[j]] = [[j \in Ids |-> replies[j]] EXCEPT ![i] = 1]
      <3>1. \A j \in Ids : replies'[j] = IF j = i THEN 1 ELSE replies[j]
        BY <1>3, <1>4 DEF AnsweredBy, Lines
      <3> QED BY <3>1
    <2>2. Contract!AskAndAnswer(i)
      BY <1>1, <1>2, <1>3, <2>1 DEF Contract!AskAndAnswer
    <2> QED BY <2>2 DEF Contract!Next
  <1>5. CASE Unanswered
    <2>1. Contract!Ask(i)
      BY <1>1, <1>2, <1>5 DEF Contract!Ask, Unanswered
    <2> QED BY <2>1 DEF Contract!Next
  <1> QED BY <1>1, <1>4, <1>5, LineEffects DEF IInv, HostAsks

\* Every step of the proxy is a step of the contract or a stutter.
LEMMA StepImplements == IInv /\ [Next]_vars => [Contract!Next]_(Contract!vars)
  <1> SUFFICES ASSUME IInv, [Next]_vars PROVE [Contract!Next]_(Contract!vars)
    OBVIOUS
  <1> USE DEF host, daemon
  <1>1. ASSUME NEW i \in Ids, HostAsks(i) PROVE Contract!Next
    BY <1>1, AskStep
  <1>2. ASSUME NEW r \in SrvIds, HostAnswers(r) PROVE UNCHANGED Contract!vars
    <2>1. r \in Lines /\ r \notin Ids
      BY ProxyAssumption DEF Lines
    <2>2. \A i \in Ids : replies'[i] = replies[i]
      BY <1>2, <2>1, LineEffects DEF IInv, TypeOK, HostAnswers, AnsweredBy, Unanswered, Lines
    <2> QED BY <1>2, <2>2, Stutters DEF HostAnswers
  <1>3. ASSUME NEW x \in Lines, OnSocketLine(x) PROVE [Contract!Next]_(Contract!vars)
    <2>1. CASE x \in SrvIds \/ Suppressed(x)
      BY <1>3, <2>1, Stutters DEF OnSocketLine
    <2>2. CASE x \notin SrvIds /\ ~Suppressed(x)
      <3>1. x \in Ids /\ Waiting(x)
        BY <1>3, <2>2 DEF OnSocketLine, Lines, Suppressed, Kind, IInv, Remembered,
                          QueuedIffWaiting, Queued
      <3>2. up
        BY <1>3, Zenon DEF OnSocketLine
      <3>3. UNCHANGED <<up, asked>> /\ replies' = Replied({x})
        BY <1>3, <2>2 DEF OnSocketLine
      <3> QED BY <3>1, <3>2, <3>3, AnswersAll
    <2> QED BY <2>1, <2>2
  <1>4. ASSUME NEW x \in Ids, ServeBuffered(x) PROVE [Contract!Next]_(Contract!vars)
    <2>1. UNCHANGED <<up, asked>> /\ replies' = Replied(AnsweredNow({x})) /\ x \in buffered
      BY <1>4 DEF ServeBuffered, HandleLocally
    <2>2. up
      BY <1>4, Zenon DEF ServeBuffered
    <2>3. AnsweredNow({x}) \in SUBSET Ids /\ \A i \in AnsweredNow({x}) : Waiting(i)
      BY <2>1 DEF AnsweredNow, Kind, IInv, QueuedIffWaiting, Queued
    <2> QED BY <2>1, <2>2, <2>3, AnswersAll
  <1>5. ASSUME NEW x \in Ids, EngineAnswers(x) PROVE [Contract!Next]_(Contract!vars)
    <2>1. UNCHANGED <<up, asked>> /\ replies' = Replied({x}) /\ Waiting(x)
      BY <1>5 DEF EngineAnswers, IInv, QueuedIffWaiting, Queued
    <2>2. up
      BY <1>5, Zenon DEF EngineAnswers
    <2> QED BY <2>1, <2>2, AnswersAll
  <1>6. CASE OnDaemonLost
    <2> DEFINE S == AnsweredNow(inflight)
    <2>1. UNCHANGED <<up, asked>> /\ replies' = Replied(S)
      BY <1>6 DEF OnDaemonLost, HandleLocally, Orphaned
    <2>2. up
      BY <1>6, Zenon DEF OnDaemonLost
    <2>3. S \in SUBSET Ids /\ \A i \in S : Waiting(i)
      BY DEF AnsweredNow, Kind, IInv, TypeOK, QueuedIffWaiting, Queued
    <2> HIDE DEF S
    <2> QED BY <2>1, <2>2, <2>3, AnswersAll
  <1>7. CASE Shutdown
    <2>1. up /\ up' = FALSE
      BY <1>7, Zenon DEF Shutdown
    <2>2. UNCHANGED <<asked, replies>>
      BY <1>7 DEF Shutdown
    <2>3. Contract!Close
      BY <2>1, <2>2 DEF Contract!Close
    <2> QED BY <2>3 DEF Contract!Next
  <1>8. ASSUME NEW x \in Lines, DaemonTakes(x) PROVE UNCHANGED Contract!vars
    BY <1>8, Stutters DEF DaemonTakes
  <1>9. ASSUME NEW i \in Ids, DaemonReplies(i) PROVE UNCHANGED Contract!vars
    BY <1>9, Stutters DEF DaemonReplies
  <1>10. ASSUME NEW r \in SrvIds, DaemonAsksRoots(r) PROVE UNCHANGED Contract!vars
    BY <1>10, Stutters DEF DaemonAsksRoots
  <1>11. CASE Upgrade \/ Connect \/ Unavailable \/ DaemonDies \/ UNCHANGED vars
    BY <1>11, Stutters DEF Upgrade, Connect, Unavailable, DaemonDies, vars
  <1> QED BY <1>1, <1>2, <1>3, <1>4, <1>5, <1>6, <1>7, <1>8, <1>9, <1>10, <1>11 DEF Next

\* Whatever becomes of the daemon, the host never sees a second reply to a
\* request, a reply to a request it did not make, or one after the proxy is gone.
THEOREM ImplementsContract == SafeSpec => Contract!SafeSpec
  <1>1. Init => Contract!Init
    BY DEF Init, Contract!Init, Lines
  <1> QED BY <1>1, StepImplements, Invariance, PTL DEF SafeSpec, Contract!SafeSpec
=============================================================================
