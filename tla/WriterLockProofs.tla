-------------------------- MODULE WriterLockProofs --------------------------
(***************************************************************************)
(* For every number of processes, callers and kills: the mutex admits one  *)
(* call at a time and loses no wake-up, no idle process leaves its lock    *)
(* file behind, and, as long as no stale lock file is removed in a race,   *)
(* one call writes at a time.                                              *)
(***************************************************************************)
EXTENDS WriterLock, TLAPS

\* Who is in the queue of a mutex waits, and is there once.
Queued ==
    \A p \in Procs :
        /\ \A i \in 1..Len(waitQueue[p]) :
               Home[waitQueue[p][i]] = p /\ pc[waitQueue[p][i]] = "waiting"
        /\ \A i, j \in 1..Len(waitQueue[p]) : waitQueue[p][i] = waitQueue[p][j] => i = j

\* A process that died runs nothing.
DeadIdle == \A c \in Callers : closing[Home[c]] = "dead" => pc[c] \in {"idle", "dead"}

MutexInv == Queued /\ DeadIdle /\ MutexSound

\* The calls at these points do not hold the file lock.
NotHolding(c) == pc[c] \in Acquiring \cup {"leave"} \/ (pc[c] = "working" /\ c \in IndexFiles)

\* FileLock.held is set only while a call is past the mutex, and not by one that is still
\* to acquire the lock or has released it; who left a lock file with its pid knows.
HeldInside ==
    /\ \A p \in Procs : held[p] => locked[p]
    /\ \A c \in Callers : NotHolding(c) => ~held[Home[c]]
    /\ \A p \in Procs : lockfile = p /\ written /\ isProcessAlive(p) => held[p]

\* close() is between its two calls only when no call of the process is.
CloseAlone ==
    \A c \in Callers : closing[Home[c]] = "unlinkOwn" => pc[c] \notin Inside \/ pc[c] = "working"

\* A lock file that was read had something in it.
SeenSome == \A c \in Callers : pc[c] = "check" => seen[Home[c]] # None

Owned(p) == lockfile = p /\ written

\* Unless there was a race: who removes a stale lock file is alone in that, and it is
\* still the one of a dead process; who is about to unlink or to write a lock file of its
\* own, or works under one, finds it as it left it.
Orderly ==
    /\ \A c \in Callers : pc[c] # "unlinkAgain"
    /\ \A c \in Callers : pc[c] = "unlinkStale" =>
           lockfile # None /\ written /\ ~isProcessAlive(lockfile)
    /\ \A c, d \in Callers : pc[c] = "unlinkStale" /\ pc[d] = "unlinkStale" => c = d
    /\ \A c \in Callers : pc[c] = "unlinkOwn" => Owned(Home[c])
    /\ \A p \in Procs : closing[p] = "unlinkOwn" => Owned(p)
    /\ \A c \in Callers : pc[c] = "write" => lockfile = Home[c] /\ ~written
    /\ \A c \in Callers \ IndexFiles : Writes(c) => Owned(Home[c])

FileInv == CloseAlone /\ SeenSome /\ (~raced => Orderly)

IInv == TypeOK /\ MutexInv /\ HeldInside /\ FileInv

----------------------------------------------------------------------------
(* Types. *)

\* Nothing runs, and there may be a lock file of a dead process.
LEMMA TypesHold == Init => TypeOK
  <1> SUFFICES ASSUME Init PROVE TypeOK
    OBVIOUS
  <1> USE WriterLockAssumption DEF Init
  <1>1. pc \in [Callers -> States]
    BY DEF States
  <1>2. waitQueue \in [Procs -> Seq(Callers)]
    OBVIOUS
  <1>3. lockfile \in Procs \cup {None} /\ written \in BOOLEAN /\ (written => lockfile # None)
    OBVIOUS
  <1>4. locked \in [Procs -> BOOLEAN] /\ held \in [Procs -> BOOLEAN] /\ raced \in BOOLEAN
    OBVIOUS
  <1>5. seen \in [Procs -> Procs \cup {None, Empty}] /\ crashes \in 0..MaxCrashes
    OBVIOUS
  <1>6. closing \in [Procs -> {"open", "unlinkOwn", "closed", "dead"}]
    OBVIOUS
  <1> QED
    BY <1>1, <1>2, <1>3, <1>4, <1>5, <1>6 DEF TypeOK

\* Every call of every operation keeps the types.
LEMMA TypesKept == TypeOK /\ [Next]_vars => TypeOK'
  <1> SUFFICES ASSUME TypeOK, [Next]_vars PROVE TypeOK'
    OBVIOUS
  <1> USE WriterLockAssumption DEF TypeOK, States, Inside, Acquiring, mutexVars, fileVars, Goto
  <1>0. CASE UNCHANGED vars
    BY <1>0 DEF vars
  <1>1. ASSUME NEW c \in Callers, Call(c) PROVE TypeOK'
    BY <1>1 DEF Call
  <1>2. ASSUME NEW c \in Callers, Ask(c) PROVE TypeOK'
    BY <1>2 DEF Ask, MustWait
  <1>3. ASSUME NEW c \in Callers, Leave(c) PROVE TypeOK'
    <2>1. waitQueue' \in [Procs -> Seq(Callers)]
      BY <1>3 DEF Leave
    <2>2. pc' \in [Callers -> States]
      BY <1>3 DEF Leave
    <2> QED
      BY <1>3, <2>1, <2>2 DEF Leave
  <1>4. ASSUME NEW c \in Callers, Exists(c) PROVE TypeOK'
    BY <1>4 DEF Exists
  <1>5. ASSUME NEW c \in Callers, Read(c) PROVE TypeOK'
    BY <1>5 DEF Read, Content
  <1>6. ASSUME NEW c \in Callers, Check(c) PROVE TypeOK'
    <2>1. raced' \in BOOLEAN
      BY <1>6, Zenon DEF Check
    <2> QED
      BY <1>6, <2>1 DEF Check
  <1>7. ASSUME NEW c \in Callers, UnlinkStale(c) \/ UnlinkAgain(c) PROVE TypeOK'
    BY <1>7 DEF UnlinkStale, UnlinkAgain, Unlink
  <1>8. ASSUME NEW c \in Callers, Create(c) PROVE TypeOK'
    BY <1>8 DEF Create, CanCreate
  <1>9. ASSUME NEW c \in Callers, Write(c) PROVE TypeOK'
    BY <1>9 DEF Write, Unawaited, StillThere
  <1>10. ASSUME NEW c \in Callers, WriteFails(c) PROVE TypeOK'
    BY <1>10 DEF WriteFails
  <1>11. ASSUME NEW c \in Callers, Finish(c) PROVE TypeOK'
    BY <1>11 DEF Finish, Unawaited
  <1>12. ASSUME NEW c \in Callers, Reread(c) PROVE TypeOK'
    BY <1>12 DEF Reread, AfterRelease, Unawaited, Mine
  <1>13. ASSUME NEW c \in Callers, UnlinkOwn(c) PROVE TypeOK'
    BY <1>13 DEF UnlinkOwn, AfterRelease, Unawaited, Unlink
  <1>14. ASSUME NEW p \in Procs, Close(p) PROVE TypeOK'
    BY <1>14 DEF Close, Mine
  <1>15. ASSUME NEW p \in Procs, CloseUnlink(p) PROVE TypeOK'
    BY <1>15 DEF CloseUnlink, Unlink
  <1>16. ASSUME NEW p \in Procs, Crash(p) PROVE TypeOK'
    BY <1>16 DEF Crash, isProcessAlive
  <1> QED
    BY <1>0, <1>1, <1>2, <1>3, <1>4, <1>5, <1>6, <1>7, <1>8, <1>9, <1>10, <1>11, <1>12,
       <1>13, <1>14, <1>15, <1>16 DEF Next, Step, Acquire

----------------------------------------------------------------------------
(* The mutex. *)

LEMMA MutexInit == Init => MutexInv
  BY WriterLockAssumption
  DEF Init, MutexInv, Queued, DeadIdle, MutexSound, OneInside, NoLostWakeup, Inside, Acquiring

\* A call that is past the mutex and goes on.
LEMMA MovesInside ==
  ASSUME TypeOK, MutexInv, NEW c \in Callers, NEW to \in Inside,
         pc[c] \in Inside, pc' = [pc EXCEPT ![c] = to],
         Running(c), UNCHANGED <<locked, waitQueue, closing>>
  PROVE  MutexInv'
  <1> USE WriterLockAssumption DEF TypeOK, MutexInv
  <1>1. \A d \in Callers : pc'[d] \in Inside <=> pc[d] \in Inside
    OBVIOUS
  <1>2. \A d \in Callers : pc[d] \notin Inside => pc'[d] = pc[d]
    OBVIOUS
  <1>3. "waiting" \notin Inside /\ "asking" \notin Inside
    BY DEF Inside, Acquiring
  <1>4. Queued'
    BY <1>2, <1>3 DEF Queued
  <1>5. DeadIdle'
    BY DEF DeadIdle, Running
  <1>6. MutexSound'
    BY <1>1, <1>2, <1>3 DEF MutexSound, OneInside, NoLostWakeup
  <1> QED
    BY <1>4, <1>5, <1>6

\* The steps of a call between its entry and its last step.
LEMMA InsideSteps ==
  ASSUME TypeOK, NEW c \in Callers,
         \/ Acquire(c) \/ WriteFails(c)
         \/ Finish(c) \/ Reread(c) \/ UnlinkOwn(c)
  PROVE  /\ pc[c] \in Inside /\ Running(c)
         /\ \E to \in Inside : pc' = [pc EXCEPT ![c] = to]
         /\ UNCHANGED <<locked, waitQueue, closing>>
  <1> USE DEF Goto, Inside, Acquiring, mutexVars
  <1>1. CASE Exists(c) \/ Read(c) \/ UnlinkStale(c) \/ UnlinkAgain(c) \/ Create(c)
    BY <1>1 DEF Exists, Read, UnlinkStale, UnlinkAgain, Create
  <1>2. CASE Check(c)
    BY <1>2 DEF Check
  <1>3. CASE Write(c) \/ WriteFails(c) \/ Finish(c)
    BY <1>3 DEF Write, WriteFails, Finish
  <1>4. CASE Reread(c) \/ UnlinkOwn(c)
    BY <1>4 DEF Reread, UnlinkOwn, AfterRelease
  <1> QED
    BY <1>1, <1>2, <1>3, <1>4 DEF Acquire

\* Only Ask enters, only Leave wakes, and a kill takes queue and lock with it.
LEMMA MutexKept == TypeOK /\ MutexInv /\ [Next]_vars => MutexInv'
  <1> SUFFICES ASSUME TypeOK, MutexInv, [Next]_vars PROVE MutexInv'
    OBVIOUS
  <1> USE WriterLockAssumption
  <1>0. CASE UNCHANGED vars
    BY <1>0 DEF vars, mutexVars, MutexInv, Queued, DeadIdle, MutexSound, OneInside, NoLostWakeup
  <1>1. ASSUME NEW c \in Callers, Call(c) PROVE MutexInv'
    <2>1. /\ pc[c] = "idle" /\ pc' = [pc EXCEPT ![c] = "asking"] /\ Running(c)
          /\ UNCHANGED <<locked, waitQueue, closing>>
      BY <1>1 DEF Call, Goto, mutexVars
    <2>2. Queued' /\ DeadIdle'
      BY <2>1 DEF Queued, DeadIdle, Running, TypeOK, MutexInv
    <2>3. \A d \in Callers :
              /\ pc'[d] \in Inside <=> pc[d] \in Inside
              /\ pc[d] = "asking" => pc'[d] = "asking"
      BY <2>1 DEF TypeOK, Inside, Acquiring
    <2>4. MutexSound'
      BY <2>1, <2>3 DEF MutexInv, MutexSound, OneInside, NoLostWakeup
    <2> QED
      BY <2>2, <2>4 DEF MutexInv
  <1>2. ASSUME NEW c \in Callers, Ask(c) PROVE MutexInv'
    <2> DEFINE p == Home[c]
    <2>1. CASE locked[p]
      <3>1. /\ pc[c] = "asking" /\ pc' = [pc EXCEPT ![c] = "waiting"]
            /\ waitQueue' = [waitQueue EXCEPT ![p] = Append(@, c)]
            /\ locked' = locked /\ closing' = closing /\ Running(c)
        BY <1>2, <2>1 DEF Ask, Goto, MustWait, TypeOK
      <3>2. Queued'
        <4>1. ASSUME NEW q \in Procs, NEW i \in 1..Len(waitQueue'[q])
              PROVE  Home[waitQueue'[q][i]] = q /\ pc'[waitQueue'[q][i]] = "waiting"
          BY <3>1, <4>1 DEF TypeOK, MutexInv, Queued
        <4>2. ASSUME NEW q \in Procs,
                     NEW i \in 1..Len(waitQueue'[q]), NEW j \in 1..Len(waitQueue'[q]),
                     waitQueue'[q][i] = waitQueue'[q][j]
              PROVE  i = j
          BY <3>1, <4>2 DEF TypeOK, MutexInv, Queued
        <4> QED
          BY <4>1, <4>2 DEF Queued
      <3>3. DeadIdle'
        BY <3>1 DEF DeadIdle, Running, TypeOK, MutexInv
      <3>4. MutexSound'
        BY <2>1, <3>1 DEF MutexSound, OneInside, NoLostWakeup, TypeOK, MutexInv, Inside, Acquiring
      <3> QED
        BY <3>2, <3>3, <3>4 DEF MutexInv
    <2>2. CASE ~locked[p]
      <3>1. /\ pc[c] = "asking" /\ pc' = [pc EXCEPT ![c] = "exists"]
            /\ waitQueue' = waitQueue
            /\ locked' = [locked EXCEPT ![p] = TRUE] /\ closing' = closing /\ Running(c)
        BY <1>2, <2>2 DEF Ask, Goto, MustWait, TypeOK
      <3>2. Queued' /\ DeadIdle'
        BY <3>1 DEF Queued, DeadIdle, Running, TypeOK, MutexInv
      <3>3. \A d \in Callers : Home[d] = p => pc[d] \notin Inside
        BY <2>2 DEF MutexInv, MutexSound, OneInside, TypeOK
      <3>4. MutexSound'
        BY <3>1, <3>3 DEF MutexSound, OneInside, NoLostWakeup, TypeOK, MutexInv, Inside, Acquiring
      <3> QED
        BY <3>2, <3>4 DEF MutexInv
    <2> QED
      BY <2>1, <2>2
  <1>3. ASSUME NEW c \in Callers, Leave(c) PROVE MutexInv'
    <2> DEFINE p == Home[c]
    <2>1. /\ pc[c] = "leave" /\ Running(c) /\ closing' = closing
          /\ locked' = [locked EXCEPT ![p] = FALSE]
      BY <1>3 DEF Leave
    <2>2. \A d \in Callers : Home[d] = p /\ pc[d] \in Inside => d = c
      BY <2>1 DEF MutexInv, MutexSound, OneInside, Inside
    <2>3. CASE waitQueue[p] = <<>>
      <3>1. pc' = [pc EXCEPT ![c] = "done"] /\ waitQueue' = waitQueue
        BY <1>3, <2>3 DEF Leave, Woken, TypeOK
      <3>2. Queued' /\ DeadIdle'
        BY <2>1, <3>1 DEF Queued, DeadIdle, Running, TypeOK, MutexInv
      <3>3. MutexSound'
        BY <2>1, <2>2, <2>3, <3>1
        DEF MutexSound, OneInside, NoLostWakeup, TypeOK, MutexInv, Inside, Acquiring
      <3> QED
        BY <3>2, <3>3 DEF MutexInv
    <2>4. CASE waitQueue[p] # <<>>
      <3> DEFINE w == Head(waitQueue[p])
      <3>1. /\ w \in Callers /\ Home[w] = p /\ pc[w] = "waiting"
            /\ \A i \in 1..Len(Tail(waitQueue[p])) :
                   Tail(waitQueue[p])[i] = waitQueue[p][i + 1] /\ Tail(waitQueue[p])[i] # w
        BY <2>4 DEF TypeOK, MutexInv, Queued
      <3>2. /\ pc' = [[pc EXCEPT ![c] = "done"] EXCEPT ![w] = "asking"]
            /\ waitQueue' = [waitQueue EXCEPT ![p] = Tail(@)]
        BY <1>3, <2>1, <2>4, <3>1 DEF Leave, Woken, TypeOK
      <3>3. Queued'
        <4>1. ASSUME NEW q \in Procs, q # p
              PROVE  /\ \A i \in 1..Len(waitQueue'[q]) :
                            Home[waitQueue'[q][i]] = q /\ pc'[waitQueue'[q][i]] = "waiting"
                     /\ \A i, j \in 1..Len(waitQueue'[q]) :
                            waitQueue'[q][i] = waitQueue'[q][j] => i = j
          BY <2>1, <3>1, <3>2, <4>1 DEF TypeOK, MutexInv, Queued
        <4>2. Len(Tail(waitQueue[p])) = Len(waitQueue[p]) - 1 /\ Len(waitQueue[p]) \in Nat
          BY <2>4 DEF TypeOK
        <4>3. \A i \in 1..Len(waitQueue'[p]) :
                  /\ i + 1 \in 1..Len(waitQueue[p])
                  /\ waitQueue'[p][i] = waitQueue[p][i + 1] /\ waitQueue'[p][i] # w
          BY <3>1, <3>2, <4>2 DEF TypeOK
        <4>4. \A i \in 1..Len(waitQueue'[p]) :
                  Home[waitQueue'[p][i]] = p /\ pc'[waitQueue'[p][i]] = "waiting"
          BY <2>1, <3>2, <4>3 DEF TypeOK, MutexInv, Queued
        <4>5. ASSUME NEW i \in 1..Len(waitQueue'[p]), NEW j \in 1..Len(waitQueue'[p]),
                     waitQueue'[p][i] = waitQueue'[p][j]
              PROVE  i = j
          <5>1. waitQueue[p][i + 1] = waitQueue[p][j + 1]
            BY <4>3, <4>5
          <5>2. i + 1 = j + 1
            BY <4>3, <5>1 DEF MutexInv, Queued
          <5> QED
            BY <4>5, <5>2
        <4> QED
          BY <4>1, <4>4, <4>5 DEF Queued
      <3>4. DeadIdle'
        BY <2>1, <3>1, <3>2 DEF DeadIdle, Running, TypeOK, MutexInv
      <3>5. MutexSound'
        <4>1. \A d \in Callers : pc'[d] \in Inside <=> pc[d] \in Inside /\ d # c
          BY <2>1, <3>1, <3>2 DEF TypeOK, Inside, Acquiring
        <4>2. ASSUME NEW q \in Procs PROVE OneInside(q)'
          <5>1. locked[q] <=> \E d \in Callers : Home[d] = q /\ pc[d] \in Inside
            BY DEF MutexInv, MutexSound, OneInside
          <5>2. \A d, e \in Callers :
                   Home[d] = q /\ Home[e] = q /\ pc[d] \in Inside /\ pc[e] \in Inside => d = e
            BY DEF MutexInv, MutexSound, OneInside
          <5>3. q # p => locked'[q] = locked[q]
            BY <2>1 DEF TypeOK
          <5>4. q = p => ~locked'[q]
            BY <2>1 DEF TypeOK
          <5>5. locked'[q] <=> \E d \in Callers : Home[d] = q /\ pc'[d] \in Inside
            BY <2>2, <4>1, <5>1, <5>3, <5>4
          <5> QED
            BY <4>1, <5>2, <5>5 DEF OneInside
        <4>3. \A q \in Procs : NoLostWakeup(q)'
          BY <2>1, <2>2, <3>1, <3>2 DEF MutexSound, NoLostWakeup, TypeOK, MutexInv
        <4> QED
          BY <4>2, <4>3 DEF MutexSound
      <3> QED
        BY <3>3, <3>4, <3>5 DEF MutexInv
    <2> QED
      BY <2>3, <2>4
  <1>4. ASSUME NEW c \in Callers,
               \/ Acquire(c) \/ WriteFails(c)
               \/ Finish(c) \/ Reread(c) \/ UnlinkOwn(c)
        PROVE  MutexInv'
    BY <1>4, InsideSteps, MovesInside
  <1>5. ASSUME NEW p \in Procs, Close(p) \/ CloseUnlink(p) PROVE MutexInv'
    BY <1>5 DEF Close, CloseUnlink, mutexVars, TypeOK, MutexInv, Queued, DeadIdle, MutexSound,
                OneInside, NoLostWakeup
  <1>6. ASSUME NEW p \in Procs, Crash(p) PROVE MutexInv'
    <2>1. /\ closing' = [closing EXCEPT ![p] = "dead"]
          /\ pc' = [c \in Callers |-> IF Home[c] = p THEN "dead" ELSE pc[c]]
          /\ locked' = [locked EXCEPT ![p] = FALSE]
          /\ waitQueue' = [waitQueue EXCEPT ![p] = <<>>]
      BY <1>6 DEF Crash
    <2>2. Queued'
      BY <2>1 DEF Queued, TypeOK, MutexInv
    <2>3. DeadIdle' /\ MutexSound'
      BY <2>1 DEF DeadIdle, MutexSound, OneInside, NoLostWakeup, TypeOK, MutexInv, Inside, Acquiring
    <2> QED
      BY <2>2, <2>3 DEF MutexInv
  <1> QED
    BY <1>0, <1>1, <1>2, <1>3, <1>4, <1>5, <1>6 DEF Next, Step

----------------------------------------------------------------------------
(* FileLock.held and the pid in the lock file. *)

LEMMA HeldInit == Init => HeldInside
  BY WriterLockAssumption
  DEF Init, HeldInside, NotHolding, isProcessAlive, Acquiring

\* A caller enters while nobody holds the lock, gets it with its pid, and loses both
\* before it leaves; close() may take both away at any time.
LEMMA HeldKept == TypeOK /\ MutexInv /\ HeldInside /\ [Next]_vars => HeldInside'
  <1> SUFFICES ASSUME TypeOK, MutexInv, HeldInside, [Next]_vars PROVE HeldInside'
    OBVIOUS
  <1>a. \A c, d \in Callers :
            Home[c] = Home[d] /\ pc[c] \in Inside /\ pc[d] \in Inside => c = d
    BY WriterLockAssumption DEF MutexInv, MutexSound, OneInside
  <1>b. \A c \in Callers : pc[c] \in Inside => locked[Home[c]]
    BY WriterLockAssumption DEF MutexInv, MutexSound, OneInside
  <1> USE WriterLockAssumption
      DEF TypeOK, HeldInside, NotHolding, isProcessAlive, Inside, Acquiring, mutexVars, fileVars, Goto
  <1>0. CASE UNCHANGED vars
    BY <1>0 DEF vars
  <1>1. ASSUME NEW c \in Callers, Call(c) PROVE HeldInside'
    BY <1>1 DEF Call
  <1>2. ASSUME NEW c \in Callers, Ask(c) PROVE HeldInside'
    BY <1>2 DEF Ask, MustWait
  <1>3. ASSUME NEW c \in Callers, Leave(c) PROVE HeldInside'
    <2>1. ~held[Home[c]] /\ held' = held /\ locked' = [locked EXCEPT ![Home[c]] = FALSE]
      BY <1>3 DEF Leave
    <2>2. \A d \in Callers : NotHolding(d)' => NotHolding(d)
      BY <1>3 DEF Leave
    <2> QED
      BY <1>3, <2>1, <2>2 DEF Leave
  <1>4. ASSUME NEW c \in Callers, Exists(c) \/ Read(c) \/ Check(c) PROVE HeldInside'
    BY <1>4 DEF Exists, Read, Check
  <1>5. ASSUME NEW c \in Callers, UnlinkStale(c) \/ UnlinkAgain(c) PROVE HeldInside'
    BY <1>5 DEF UnlinkStale, UnlinkAgain, Unlink
  <1>6. ASSUME NEW c \in Callers, Create(c) \/ WriteFails(c) PROVE HeldInside'
    BY <1>6 DEF Create, CanCreate, WriteFails
  <1>7. ASSUME NEW c \in Callers, Write(c) PROVE HeldInside'
    <2>1. locked[Home[c]]
      BY <1>7, <1>b DEF Write
    <2>2. \A d \in Callers \ {c} : Home[d] = Home[c] => pc[d] \notin Inside
      BY <1>7, <1>a DEF Write
    <2> QED
      BY <1>7, <2>1, <2>2 DEF Write, Unawaited, StillThere
  <1>8. ASSUME NEW c \in Callers, Finish(c) PROVE HeldInside'
    BY <1>8 DEF Finish, Unawaited
  <1>9. ASSUME NEW c \in Callers, Reread(c) PROVE HeldInside'
    BY <1>9 DEF Reread, AfterRelease, Unawaited, Mine
  <1>10. ASSUME NEW c \in Callers, UnlinkOwn(c) PROVE HeldInside'
    BY <1>10 DEF UnlinkOwn, AfterRelease, Unawaited, Unlink
  <1>11. ASSUME NEW p \in Procs, Close(p) PROVE HeldInside'
    BY <1>11 DEF Close, Mine
  <1>12. ASSUME NEW p \in Procs, CloseUnlink(p) PROVE HeldInside'
    BY <1>12 DEF CloseUnlink, Unlink
  <1>13. ASSUME NEW p \in Procs, Crash(p) PROVE HeldInside'
    BY <1>13 DEF Crash
  <1> QED
    BY <1>0, <1>1, <1>2, <1>3, <1>4, <1>5, <1>6, <1>7, <1>8, <1>9, <1>10, <1>11, <1>12, <1>13
    DEF Next, Step, Acquire

----------------------------------------------------------------------------
(* The lock file. *)

LEMMA FileInit == Init => FileInv
  BY WriterLockAssumption
  DEF Init, FileInv, CloseAlone, SeenSome, Orderly, Writes, Inside, Acquiring

\* What the mutex gives: one call of a process is inside, and the process is alive.
LEMMA OneLiveCall ==
  ASSUME TypeOK, MutexInv
  PROVE  /\ \A c, d \in Callers :
                Home[c] = Home[d] /\ pc[c] \in Inside /\ pc[d] \in Inside => c = d
         /\ \A c \in Callers : pc[c] \in Inside => isProcessAlive(Home[c])
  BY WriterLockAssumption
  DEF MutexInv, MutexSound, OneInside, DeadIdle, isProcessAlive, Inside, Acquiring

\* What was read stays what it is until it was checked, and close() waits.
LEMMA CloseSeenKept ==
  TypeOK /\ MutexInv /\ CloseAlone /\ SeenSome /\ [Next]_vars => CloseAlone' /\ SeenSome'
  <1> SUFFICES ASSUME TypeOK, MutexInv, CloseAlone, SeenSome, [Next]_vars
               PROVE  CloseAlone' /\ SeenSome'
    OBVIOUS
  <1>a. \A c, d \in Callers :
            Home[c] = Home[d] /\ pc[c] \in Inside /\ pc[d] \in Inside => c = d
    BY OneLiveCall
  <1> USE WriterLockAssumption
      DEF TypeOK, CloseAlone, SeenSome, Inside, Acquiring, mutexVars, fileVars, Goto, Running
  <1>0. CASE UNCHANGED vars
    BY <1>0 DEF vars
  <1>1. ASSUME NEW c \in Callers, Call(c) \/ Ask(c) PROVE CloseAlone' /\ SeenSome'
    BY <1>1 DEF Call, Ask, MustWait
  <1>2. ASSUME NEW c \in Callers, Leave(c) PROVE CloseAlone' /\ SeenSome'
    BY <1>2 DEF Leave
  <1>3. ASSUME NEW c \in Callers, Exists(c) PROVE CloseAlone' /\ SeenSome'
    BY <1>3 DEF Exists
  <1>4. ASSUME NEW c \in Callers, Read(c) PROVE CloseAlone' /\ SeenSome'
    BY <1>4, <1>a DEF Read, Content
  <1>5. ASSUME NEW c \in Callers, Check(c) PROVE CloseAlone' /\ SeenSome'
    BY <1>5, <1>a DEF Check
  <1>6. ASSUME NEW c \in Callers, UnlinkStale(c) \/ UnlinkAgain(c) \/ Create(c)
        PROVE  CloseAlone' /\ SeenSome'
    BY <1>6 DEF UnlinkStale, UnlinkAgain, Create
  <1>7. ASSUME NEW c \in Callers, Write(c) \/ WriteFails(c) \/ Finish(c)
        PROVE  CloseAlone' /\ SeenSome'
    BY <1>7 DEF Write, WriteFails, Finish
  <1>8. ASSUME NEW c \in Callers, Reread(c) \/ UnlinkOwn(c) PROVE CloseAlone' /\ SeenSome'
    BY <1>8 DEF Reread, UnlinkOwn, AfterRelease
  <1>9. ASSUME NEW p \in Procs, Close(p) PROVE CloseAlone' /\ SeenSome'
    BY <1>9 DEF Close
  <1>10. ASSUME NEW p \in Procs, CloseUnlink(p) PROVE CloseAlone' /\ SeenSome'
    BY <1>10 DEF CloseUnlink
  <1>11. ASSUME NEW p \in Procs, Crash(p) PROVE CloseAlone' /\ SeenSome'
    BY <1>11 DEF Crash
  <1> QED
    BY <1>0, <1>1, <1>2, <1>3, <1>4, <1>5, <1>6, <1>7, <1>8, <1>9, <1>10, <1>11
    DEF Next, Step, Acquire

\* The lock file changes hands only between its owner's calls, or from a dead process to
\* the one call that found it stale.
LEMMA OrderlyKept ==
  TypeOK /\ MutexInv /\ FileInv /\ [Next]_vars => (~raced' => Orderly')
  <1> SUFFICES ASSUME TypeOK, MutexInv, FileInv, [Next]_vars, ~raced' PROVE Orderly'
    OBVIOUS
  <1>a. /\ \A c, d \in Callers :
               Home[c] = Home[d] /\ pc[c] \in Inside /\ pc[d] \in Inside => c = d
        /\ \A c \in Callers : pc[c] \in Inside => isProcessAlive(Home[c])
    BY OneLiveCall
  <1>b. CloseAlone /\ SeenSome
    BY DEF FileInv
  <1> USE WriterLockAssumption
      DEF TypeOK, Orderly, Owned, Writes, Running, isProcessAlive, Inside, Acquiring,
          mutexVars, fileVars, Goto
  <1>0. CASE UNCHANGED vars
    BY <1>0 DEF vars, FileInv
  <1>1. ASSUME NEW c \in Callers, Call(c) \/ Ask(c) PROVE Orderly'
    <2>1. Orderly /\ UNCHANGED <<closing, lockfile, written>>
      BY <1>1 DEF Call, Ask, FileInv
    <2>2. \E to \in {"asking", "waiting", "exists"} : pc' = [pc EXCEPT ![c] = to]
      BY <1>1 DEF Call, Ask
    <2> QED
      BY <2>1, <2>2
  <1>2. ASSUME NEW c \in Callers, Leave(c) PROVE Orderly'
    BY <1>2 DEF Leave, FileInv
  <1>3. ASSUME NEW c \in Callers, Exists(c) PROVE Orderly'
    BY <1>3 DEF Exists, FileInv
  <1>4. ASSUME NEW c \in Callers, Read(c) PROVE Orderly'
    BY <1>4 DEF Read, FileInv
  <1>5. ASSUME NEW c \in Callers, Check(c) PROVE Orderly'
    <2>1. Orderly
      BY <1>5 DEF Check, FileInv
    <2>2. CASE pc'[c] = "leave"
      BY <1>5, <2>1, <2>2 DEF Check
    <2>3. CASE pc'[c] = "unlinkStale"
      <3>1. /\ pc[c] = "check" /\ ~Contended(c)
            /\ ~(seen[Home[c]] \in Procs /\ isProcessAlive(seen[Home[c]]))
        BY <1>5, <2>3 DEF Check
      <3>2. seen[Home[c]] = Content /\ Content # Empty /\ Content # None
        BY <1>b, <3>1 DEF Contended, SeenSome
      <3>3. lockfile # None /\ written /\ ~isProcessAlive(lockfile)
        BY <3>1, <3>2 DEF Content
      <3>4. \A d \in Callers : pc[d] # "unlinkStale"
        BY <1>a, <3>1 DEF Contended
      <3> QED
        BY <1>5, <2>1, <2>3, <3>3, <3>4 DEF Check
    <2> QED
      BY <1>5, <2>2, <2>3 DEF Check
  <1>6. ASSUME NEW c \in Callers, UnlinkStale(c) \/ UnlinkAgain(c) PROVE Orderly'
    <2>1. Orderly
      BY <1>6 DEF UnlinkStale, UnlinkAgain, FileInv
    <2>2. UnlinkStale(c) /\ pc[c] = "unlinkStale"
      BY <1>6, <2>1 DEF UnlinkStale, UnlinkAgain
    <2>3. lockfile # None /\ written /\ ~isProcessAlive(lockfile)
      BY <2>1, <2>2
    <2>4. pc' = [pc EXCEPT ![c] = "create"] /\ closing' = closing
      BY <2>2, <2>3 DEF UnlinkStale
    <2>5. \A d \in Callers : pc[d] \notin {"unlinkOwn", "write"}
      BY <1>a, <2>1, <2>3
    <2>6. \A p \in Procs : closing[p] # "unlinkOwn"
      BY <2>1, <2>3
    <2>7. \A d \in Callers \ IndexFiles : ~Writes(d)
      BY <2>1, <2>3
    <2> QED
      BY <2>1, <2>2, <2>4, <2>5, <2>6, <2>7
  <1>7. ASSUME NEW c \in Callers, Create(c) PROVE Orderly'
    BY <1>7 DEF Create, CanCreate, FileInv
  <1>8. ASSUME NEW c \in Callers, Write(c) PROVE Orderly'
    BY <1>8, <1>a DEF Write, Unawaited, StillThere, FileInv
  <1>9. ASSUME NEW c \in Callers, WriteFails(c) \/ Finish(c) PROVE Orderly'
    <2>1. Orderly /\ UNCHANGED <<closing, lockfile, written>>
      BY <1>9 DEF WriteFails, Finish, FileInv
    <2>2. \E to \in {"leave", "reread"} : pc' = [pc EXCEPT ![c] = to]
      BY <1>9 DEF WriteFails, Finish
    <2> QED
      BY <2>1, <2>2
  <1>10. ASSUME NEW c \in Callers, Reread(c) PROVE Orderly'
    BY <1>10 DEF Reread, AfterRelease, Unawaited, Mine, FileInv
  <1>11. ASSUME NEW c \in Callers, UnlinkOwn(c) PROVE Orderly'
    <2>1. Orderly
      BY <1>11 DEF UnlinkOwn, FileInv
    <2>2. lockfile = Home[c] /\ written /\ pc[c] = "unlinkOwn" /\ isProcessAlive(Home[c])
      BY <1>11, <1>a, <2>1 DEF UnlinkOwn
    <2>3. \A d \in Callers \ {c} : Home[d] = Home[c] => pc[d] \notin Inside
      BY <1>a, <2>2
    <2>4. \A d \in Callers \ {c} : pc[d] \notin {"unlinkStale", "unlinkOwn", "write"}
      BY <2>1, <2>2, <2>3
    <2>5. \A p \in Procs : closing[p] # "unlinkOwn"
      BY <1>b, <2>1, <2>2 DEF CloseAlone
    <2>6. \A d \in Callers \ IndexFiles : ~Writes(d)
      BY <2>1, <2>2, <2>3
    <2>7. /\ closing' = closing /\ Unlink
          /\ pc' = [pc EXCEPT ![c] = IF c \in IndexFiles THEN "working" ELSE "leave"]
      BY <1>11 DEF UnlinkOwn, AfterRelease, Unawaited
    <2> QED
      BY <2>1, <2>4, <2>5, <2>6, <2>7 DEF Unlink
  <1>12. ASSUME NEW p \in Procs, Close(p) PROVE Orderly'
    BY <1>12 DEF Close, Mine, FileInv
  <1>13. ASSUME NEW p \in Procs, CloseUnlink(p) PROVE Orderly'
    <2>1. Orderly
      BY <1>13 DEF CloseUnlink, FileInv
    <2>2. lockfile = p /\ written /\ closing[p] = "unlinkOwn"
      BY <1>13, <2>1 DEF CloseUnlink
    <2>3. \A d \in Callers : Home[d] = p => pc[d] \notin Inside \/ pc[d] = "working"
      BY <1>b, <2>2 DEF CloseAlone
    <2>4. \A d \in Callers : pc[d] \notin {"unlinkStale", "unlinkOwn", "write"}
      BY <2>1, <2>2, <2>3
    <2>5. \A d \in Callers \ IndexFiles : ~Writes(d)
      BY <2>1, <2>2
    <2>6. \A q \in Procs \ {p} : closing[q] # "unlinkOwn"
      BY <2>1, <2>2
    <2>7. pc' = pc /\ closing' = [closing EXCEPT ![p] = "closed"]
      BY <1>13 DEF CloseUnlink
    <2> QED
      BY <2>1, <2>4, <2>5, <2>6, <2>7
  <1>14. ASSUME NEW p \in Procs, Crash(p) PROVE Orderly'
    BY <1>14 DEF Crash, FileInv
  <1> QED
    BY <1>0, <1>1, <1>2, <1>3, <1>4, <1>5, <1>6, <1>7, <1>8, <1>9, <1>10, <1>11, <1>12,
       <1>13, <1>14 DEF Next, Step, Acquire

\* Every step of every call, every close() and every kill keeps the invariant.
THEOREM Invariance == Spec => []IInv
  <1>1. Init => IInv
    BY TypesHold, MutexInit, HeldInit, FileInit DEF IInv
  <1>2. IInv /\ [Next]_vars => IInv'
    BY TypesKept, MutexKept, HeldKept, CloseSeenKept, OrderlyKept DEF IInv, FileInv
  <1> QED
    BY <1>1, <1>2, PTL DEF Spec

----------------------------------------------------------------------------
(* The theorems. *)

\* The types of mutex, lock file and calls hold for every number of them.
THEOREM TypeCorrect == Spec => []TypeOK
  <1>1. IInv => TypeOK
    BY DEF IInv
  <1> QED
    BY <1>1, Invariance, PTL

\* Mutex: for every number of callers, one is inside, and a queue that is not empty has
\* somebody who will wake its head.
THEOREM MutexIsSound == Spec => []MutexSound
  <1>1. IInv => MutexSound
    BY DEF IInv, MutexInv
  <1> QED
    BY <1>1, Invariance, PTL

\* FileLock with indexAll and sync: for every number of processes and kills, whoever
\* closes and whoever dies, one call writes unless a stale lock file was removed in a
\* race.
THEOREM OneWriterAtATime == Spec => []OneWriter
  <1>1. ASSUME IInv, ~raced,
               NEW c \in Callers \ IndexFiles, NEW d \in Callers \ IndexFiles,
               Writes(c), Writes(d)
        PROVE  c = d
    <2>1. Home[c] = lockfile /\ Home[d] = lockfile
      BY <1>1 DEF IInv, FileInv, Orderly, Owned
    <2>2. pc[c] \in Inside /\ pc[d] \in Inside
      BY <1>1 DEF Writes, Inside
    <2> QED
      BY <1>1, <2>1, <2>2, OneLiveCall DEF IInv
  <1>2. IInv => OneWriter
    BY <1>1 DEF OneWriter
  <1> QED
    BY <1>2, Invariance, PTL

\* FileLock.release and close(): for every number of processes, a live process at rest
\* leaves no lock file that would refuse the others.
THEOREM NothingIsLeftLocked == Spec => []NothingLeftLocked
  <1>1. IInv => NothingLeftLocked
    BY WriterLockAssumption DEF IInv, HeldInside, NothingLeftLocked, Content, TypeOK
  <1> QED
    BY <1>1, Invariance, PTL
=============================================================================
