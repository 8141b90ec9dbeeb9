-------------------------- MODULE LiveIndexProofs --------------------------
(***************************************************************************)
(* Proofs about LiveIndex: for every set of files and contents and every   *)
(* bound, in an environment without the two Hazards and with a CLI that    *)
(* runs `omniweave sync` only, the pre-filter is sound, no stale file      *)
(* looks fresh, and flags come off only by a sync that covered the file.   *)
(***************************************************************************)
EXTENDS LiveIndex, TLAPS

\* The CLI never runs `omniweave index`.
SyncOnlyCli == CliModes \subseteq {"sync"}

\* The environment in which the code keeps its promises.
CalmEnvironment == Hazards = {} /\ SyncOnlyCli

----------------------------------------------------------------------------
(* The inductive invariant, in parts. *)

OnlySync == mode = "sync"

Exclusion == \A c, d \in Callers : HoldsLock(c) /\ HoldsLock(d) => c = d

\* A server that is not running does nothing.
DownIsQuiet == ~up => /\ ~timer
                      /\ \A c \in Server : pc[c] = "idle"

\* No recorded time is younger than the youngest write.
StampBounds == /\ \A f \in Files : disk[f].mtime <= stamp
               /\ \A f \in Files : row[f].mtime <= stamp
               /\ work.mtime <= stamp

\* What is about to be stored is a pair the file really had.
WorkSound ==
    work.step = "store" /\ work.mtime = disk[work.file].mtime
        => work.content = disk[work.file].content

\* The row reflects the file, and no store in flight is going to spoil it.
Fresh(f) ==
    /\ Reflects(f)
    /\ work.file = f /\ work.step = "store" => work.content = disk[f].content

FreshInv ==
    up /\ baseline =>
        \A f \in Files : Fresh(f) \/ f \in pending \/ f \in undelivered

\* The run that holds the lock will leave f fresh.
InHand(f) ==
    \/ Fresh(f)
    \/ Present(f) /\ f \in work.todo
    \/ /\ Present(f) /\ f = work.file
       /\ work.step = "store" => work.content = disk[f].content

\* ... or f is in X, or an event is coming.
Covered(f, X) == InHand(f) \/ f \in X \/ f \in undelivered

WatchCovers ==
    pc["watch"] = "indexing" => ticked /\ \A f \in Files : Covered(f, late)

CatchupCovers ==
    pc["catchup"] = "indexing" => \A f \in Files : Covered(f, pending)

Control  == OnlySync /\ Exclusion /\ DownIsQuiet
Timing   == StampBounds /\ WorkSound /\ PrefilterSound
Coverage == FreshInv /\ WatchCovers /\ CatchupCovers

IInv == TypeOK /\ Control /\ Timing /\ Coverage

----------------------------------------------------------------------------
(* Types. *)

\* Every action, handler by handler, keeps the types.
LEMMA TypeStep == ASSUME TypeOK, Next PROVE TypeOK'
<1> USE LiveIndexAssumption DEF watchVars, runVars
<1>t. TreeTypes /\ RowTypes /\ WatchTypes /\ PcTypes /\ WorkTypes /\ ServerTypes
  BY DEF TypeOK
<1>1. ASSUME NEW f \in Files, Edit(f) PROVE TypeOK'
  <2>1. TreeTypes'
    BY <1>t, <1>1 DEF TreeTypes, Edit, DiskContents
  <2>2. WatchTypes'
    BY <1>t, <1>1 DEF WatchTypes, Edit
  <2>3. RowTypes' /\ PcTypes' /\ WorkTypes' /\ ServerTypes'
    BY <1>t, <1>1 DEF RowTypes, PcTypes, WorkTypes, ServerTypes, Edit
  <2> QED
    BY <2>1, <2>2, <2>3 DEF TypeOK
<1>2. ASSUME NEW f \in Files, HandleChange(f) PROVE TypeOK'
  <2>1. WatchTypes'
    BY <1>t, <1>2 DEF WatchTypes, HandleChange, Recorded
  <2>2. TreeTypes' /\ RowTypes' /\ PcTypes' /\ WorkTypes' /\ ServerTypes'
    BY <1>t, <1>2 DEF TreeTypes, RowTypes, PcTypes, WorkTypes, ServerTypes, HandleChange, Recorded
  <2> QED
    BY <2>1, <2>2 DEF TypeOK
<1>3. CASE ClockTick
  <2>1. WatchTypes'
    BY <1>t, <1>3 DEF WatchTypes, ClockTick
  <2>2. TreeTypes' /\ RowTypes' /\ PcTypes' /\ WorkTypes' /\ ServerTypes'
    BY <1>t, <1>3 DEF TreeTypes, RowTypes, PcTypes, WorkTypes, ServerTypes, ClockTick
  <2> QED
    BY <2>1, <2>2 DEF TypeOK
<1>4. CASE Start
  <2>1. PcTypes'
    BY <1>t, <1>4 DEF PcTypes, Start, PcStates, AllModes
  <2>2. ServerTypes'
    BY <1>t, <1>4 DEF ServerTypes, Start
  <2>3. TreeTypes' /\ RowTypes' /\ WatchTypes' /\ WorkTypes'
    BY <1>t, <1>4 DEF TreeTypes, RowTypes, WatchTypes, WorkTypes, Start
  <2> QED
    BY <2>1, <2>2, <2>3 DEF TypeOK
<1>5. CASE Flush
  <2>1. WatchTypes'
    BY <1>t, <1>5 DEF WatchTypes, Flush
  <2>2. PcTypes'
    BY <1>t, <1>5 DEF PcTypes, Flush, PcStates, AllModes
  <2>3. TreeTypes' /\ RowTypes' /\ WorkTypes' /\ ServerTypes'
    BY <1>t, <1>5 DEF TreeTypes, RowTypes, WorkTypes, ServerTypes, Flush
  <2> QED
    BY <2>1, <2>2, <2>3 DEF TypeOK
<1>6. ASSUME NEW c \in Callers, AcquireLock(c) PROVE TypeOK'
  <2>1. PcTypes'
    BY <1>t, <1>6 DEF PcTypes, AcquireLock, PcStates, AllModes
  <2>2. TreeTypes' /\ RowTypes' /\ WatchTypes' /\ WorkTypes' /\ ServerTypes'
    BY <1>t, <1>6 DEF TreeTypes, RowTypes, WatchTypes, WorkTypes, ServerTypes, AcquireLock
  <2> QED
    BY <2>1, <2>2 DEF TypeOK
<1>7. ASSUME NEW c \in Callers, LockUnavailable(c) PROVE TypeOK'
  <2>1. WatchTypes'
    BY <1>t, <1>7 DEF WatchTypes, LockUnavailable, GiveUp, FlushEnds, KeptOnFailure, Reschedules
  <2>2. PcTypes'
    BY <1>t, <1>7 DEF PcTypes, LockUnavailable, PcStates, AllModes, GiveUp, FlushEnds, KeptOnFailure, Reschedules
  <2>3. ServerTypes'
    BY <1>t, <1>7 DEF ServerTypes, LockUnavailable, GiveUp, FlushEnds, KeptOnFailure, Reschedules
  <2>4. TreeTypes' /\ RowTypes' /\ WorkTypes'
    BY <1>t, <1>7 DEF TreeTypes, RowTypes, WorkTypes, LockUnavailable, GiveUp, FlushEnds, KeptOnFailure, Reschedules
  <2> QED
    BY <2>1, <2>2, <2>3, <2>4 DEF TypeOK
<1>8. ASSUME NEW c \in Callers, Scan(c) PROVE TypeOK'
  <2>1. RowTypes'
    BY <1>t, <1>8 DEF RowTypes, Scan, DiskContents, Times, NoTime, NoRow
  <2>2. PcTypes'
    BY <1>t, <1>8 DEF PcTypes, Scan, PcStates, AllModes
  <2>3. WorkTypes'
    BY <1>t, <1>8 DEF WorkTypes, Scan, NoWork, Steps, DiskContents, Times, NoTime, TreeTypes, Present
  <2>4. TreeTypes' /\ WatchTypes' /\ ServerTypes'
    BY <1>t, <1>8 DEF TreeTypes, WatchTypes, ServerTypes, Scan
  <2> QED
    BY <2>1, <2>2, <2>3, <2>4 DEF TypeOK
<1>9. ASSUME NEW c \in Callers, BeginFile(c) PROVE TypeOK'
  <2>1. WorkTypes'
    BY <1>t, <1>9 DEF WorkTypes, BeginFile, NoWork, Steps, DiskContents, Times, NoTime, TreeTypes, Present
  <2>2. TreeTypes' /\ RowTypes' /\ WatchTypes' /\ PcTypes' /\ ServerTypes'
    BY <1>t, <1>9 DEF TreeTypes, RowTypes, WatchTypes, PcTypes, ServerTypes, BeginFile
  <2> QED
    BY <2>1, <2>2 DEF TypeOK
<1>10. ASSUME NEW c \in Callers, ReadFile(c) PROVE TypeOK'
  <2>1. WorkTypes'
    BY <1>t, <1>10 DEF WorkTypes, ReadFile, NoWork, Steps, DiskContents, Times, NoTime, TreeTypes, Present, NextFile
  <2>2. TreeTypes' /\ RowTypes' /\ WatchTypes' /\ PcTypes' /\ ServerTypes'
    BY <1>t, <1>10 DEF TreeTypes, RowTypes, WatchTypes, PcTypes, ServerTypes, ReadFile, NextFile
  <2> QED
    BY <2>1, <2>2 DEF TypeOK
<1>11. ASSUME NEW c \in Callers, StoreFile(c) PROVE TypeOK'
  <2>1. RowTypes'
    BY <1>t, <1>11 DEF RowTypes, StoreFile, DiskContents, Times, NoTime, NoRow, WorkTypes, NextFile
  <2>2. WorkTypes'
    BY <1>t, <1>11 DEF WorkTypes, StoreFile, NoWork, Steps, DiskContents, Times, NoTime, NextFile
  <2>3. TreeTypes' /\ WatchTypes' /\ PcTypes' /\ ServerTypes'
    BY <1>t, <1>11 DEF TreeTypes, WatchTypes, PcTypes, ServerTypes, StoreFile, NextFile
  <2> QED
    BY <2>1, <2>2, <2>3 DEF TypeOK
<1>12. ASSUME NEW c \in Callers, Finish(c) PROVE TypeOK'
  <2>1. WatchTypes'
    BY <1>t, <1>12 DEF WatchTypes, Finish, FlushEnds, SurvivesSync, Reschedules
  <2>2. PcTypes'
    BY <1>t, <1>12 DEF PcTypes, Finish, PcStates, AllModes, FlushEnds, SurvivesSync, Reschedules
  <2>3. WorkTypes'
    BY <1>t, <1>12 DEF WorkTypes, Finish, NoWork, Steps, DiskContents, Times, NoTime, FlushEnds, SurvivesSync, Reschedules
  <2>4. ServerTypes'
    BY <1>t, <1>12 DEF ServerTypes, Finish, FlushEnds, SurvivesSync, Reschedules
  <2>5. TreeTypes' /\ RowTypes'
    BY <1>t, <1>12 DEF TreeTypes, RowTypes, Finish, FlushEnds, SurvivesSync, Reschedules
  <2> QED
    BY <2>1, <2>2, <2>3, <2>4, <2>5 DEF TypeOK
<1>13. ASSUME NEW c \in Callers, SyncThrows(c) PROVE TypeOK'
  <2>1. WatchTypes'
    BY <1>t, <1>13 DEF WatchTypes, SyncThrows, GiveUp, FlushEnds, KeptOnFailure, Reschedules
  <2>2. PcTypes'
    BY <1>t, <1>13 DEF PcTypes, SyncThrows, PcStates, AllModes, GiveUp
  <2>3. WorkTypes'
    BY <1>t, <1>13 DEF WorkTypes, SyncThrows, NoWork, Steps, DiskContents, Times, NoTime
  <2>4. ServerTypes'
    BY <1>t, <1>13 DEF ServerTypes, SyncThrows, GiveUp
  <2>5. RowTypes'
    BY <1>t, <1>13 DEF RowTypes, SyncThrows, DiskContents, Times, NoTime, NoRow, WorkTypes, TornRows
  <2>6. TreeTypes'
    BY <1>t, <1>13 DEF TreeTypes, SyncThrows
  <2> QED
    BY <2>1, <2>2, <2>3, <2>4, <2>5, <2>6 DEF TypeOK
<1>14. CASE CliStart
  <2>1. PcTypes'
    BY <1>t, <1>14 DEF PcTypes, CliStart, PcStates, AllModes
  <2>2. ServerTypes'
    BY <1>t, <1>14 DEF ServerTypes, CliStart
  <2>3. TreeTypes' /\ RowTypes' /\ WatchTypes' /\ WorkTypes'
    BY <1>t, <1>14 DEF TreeTypes, RowTypes, WatchTypes, WorkTypes, CliStart
  <2> QED
    BY <2>1, <2>2, <2>3 DEF TypeOK
<1>15. CASE Crash
  <2>1. WatchTypes'
    BY <1>t, <1>15 DEF WatchTypes, Crash, TornRows
  <2>2. RowTypes'
    BY <1>t, <1>15 DEF RowTypes, Crash, DiskContents, Times, NoTime, NoRow, WorkTypes, TornRows
  <2>3. PcTypes'
    BY <1>t, <1>15 DEF PcTypes, Crash, PcStates, AllModes, TornRows
  <2>4. WorkTypes'
    <3>1. work' = NoWork \/ work' = work
      BY <1>15 DEF Crash
    <3> QED
      BY <1>t, <3>1 DEF WorkTypes, NoWork, Steps, DiskContents, Times, NoTime
  <2>5. ServerTypes'
    <3>1. up' \in BOOLEAN /\ baseline' \in BOOLEAN /\ gate' \in BOOLEAN
      BY <1>15, Zenon DEF Crash
    <3>2. faults' = faults + 1 /\ cliRuns' = cliRuns
      BY <1>15, Zenon DEF Crash, runVars
    <3>3. faults' \in Nat /\ cliRuns' \in Nat
      BY <1>t, <3>2 DEF ServerTypes
    <3> QED
      BY <3>1, <3>3 DEF ServerTypes
  <2>6. TreeTypes'
    BY <1>t, <1>15 DEF TreeTypes, Crash, TornRows
  <2> QED
    BY <2>1, <2>2, <2>3, <2>4, <2>5, <2>6 DEF TypeOK
<1>16. CASE CliDies
  <2>1. RowTypes'
    BY <1>t, <1>16 DEF RowTypes, CliDies, DiskContents, Times, NoTime, NoRow, WorkTypes, TornRows
  <2>2. PcTypes'
    BY <1>t, <1>16 DEF PcTypes, CliDies, PcStates, AllModes, TornRows
  <2>3. WorkTypes'
    BY <1>t, <1>16 DEF WorkTypes, CliDies, NoWork, Steps, DiskContents, Times, NoTime, TornRows
  <2>4. ServerTypes'
    BY <1>t, <1>16 DEF ServerTypes, CliDies, TornRows
  <2>5. TreeTypes' /\ WatchTypes'
    BY <1>t, <1>16 DEF TreeTypes, WatchTypes, CliDies, TornRows
  <2> QED
    BY <2>1, <2>2, <2>3, <2>4, <2>5 DEF TypeOK
<1> QED
  BY <1>1, <1>2, <1>3, <1>4, <1>5, <1>6, <1>7, <1>8, <1>9, <1>10, <1>11, <1>12, <1>13, <1>14, <1>15, <1>16 DEF Next, SyncStep

----------------------------------------------------------------------------
(* The lock, and the server process as a whole. *)

\* At most one caller holds the lock, and a server that is down holds none.
LEMMA ControlStep ==
    ASSUME TypeOK, Control, SyncOnlyCli, Next PROVE Control'
<1> USE DEF Control, OnlySync, Exclusion, DownIsQuiet, HoldsLock, watchVars, runVars
<1>t. pc \in [Callers -> PcStates]
  BY DEF TypeOK, PcTypes
<1>s. Server \subseteq Callers /\ "cli" \in Callers /\ "cli" \notin Server
      /\ "watch" \in Server /\ "catchup" \in Server
  BY DEF Callers, Server
<1>1. ASSUME NEW f \in Files, Edit(f) PROVE Control'
  BY <1>t, <1>s, <1>1 DEF Edit
<1>2. ASSUME NEW f \in Files, HandleChange(f) PROVE Control'
  BY <1>t, <1>s, <1>2 DEF HandleChange
<1>3. CASE ClockTick
  BY <1>t, <1>s, <1>3 DEF ClockTick
<1>4. CASE Start
  BY <1>t, <1>s, <1>4 DEF Start
<1>5. CASE Flush
  BY <1>t, <1>s, <1>5 DEF Flush
<1>6. ASSUME NEW c \in Callers, AcquireLock(c) PROVE Control'
  BY <1>t, <1>s, <1>6 DEF AcquireLock
<1>7. ASSUME NEW c \in Callers, LockUnavailable(c) PROVE Control'
  BY <1>t, <1>s, <1>7 DEF LockUnavailable, GiveUp, FlushEnds
<1>8. ASSUME NEW c \in Callers, Scan(c) PROVE Control'
  BY <1>t, <1>s, <1>8 DEF Scan
<1>9. ASSUME NEW c \in Callers, BeginFile(c) PROVE Control'
  BY <1>t, <1>s, <1>9 DEF BeginFile
<1>10. ASSUME NEW c \in Callers, ReadFile(c) PROVE Control'
  BY <1>t, <1>s, <1>10 DEF ReadFile
<1>11. ASSUME NEW c \in Callers, StoreFile(c) PROVE Control'
  BY <1>t, <1>s, <1>11 DEF StoreFile
<1>12. ASSUME NEW c \in Callers, Finish(c) PROVE Control'
  BY <1>t, <1>s, <1>12 DEF Finish, FlushEnds
<1>13. ASSUME NEW c \in Callers, SyncThrows(c) PROVE Control'
  BY <1>t, <1>s, <1>13 DEF SyncThrows, GiveUp, FlushEnds
<1>14. CASE CliStart
  BY <1>t, <1>s, <1>14 DEF CliStart, SyncOnlyCli
<1>15. CASE Crash
  BY <1>t, <1>s, <1>15 DEF Crash, TornRows
<1>16. CASE CliDies
  BY <1>t, <1>s, <1>16 DEF CliDies, TornRows
<1> QED
  BY <1>1, <1>2, <1>3, <1>4, <1>5, <1>6, <1>7, <1>8, <1>9, <1>10, <1>11, <1>12, <1>13, <1>14, <1>15, <1>16 DEF Next, SyncStep

----------------------------------------------------------------------------
(* Recorded times, and the pre-filter. *)

\* Every time that is recorded is the time of the content recorded with it.
LEMMA TimingStep ==
    ASSUME TypeOK, Control, Timing, Next PROVE Timing'
<1> USE LiveIndexAssumption DEF watchVars, runVars
<1>t. /\ disk \in [Files -> [content : DiskContents, mtime : Nat]]
      /\ stamp \in Nat
      /\ row \in [Files -> [hash : DiskContents, mtime : Times]]
      /\ work \in [todo : SUBSET Files, file : Files \cup {NoFile}, step : Steps,
                   content : DiskContents, mtime : Times]
      /\ work.step = "pick" <=> work.file = NoFile
      /\ mode = "sync"
  BY DEF TypeOK, TreeTypes, RowTypes, WorkTypes, Control, OnlySync
<1> USE <1>t DEF Timing, StampBounds, WorkSound, PrefilterSound, PrefilterSkips,
                 Reflects, Present, Times, NoTime, NoRow, DiskContents, Steps
<1>u. CASE UNCHANGED <<disk, stamp, row, work>>
  BY <1>u
<1>1. ASSUME NEW f \in Files, Edit(f) PROVE Timing'
  <2>1. /\ stamp' = stamp + 1 /\ row' = row /\ work' = work
        /\ disk'[f].mtime = stamp + 1
        /\ \A g \in Files \ {f} : disk'[g] = disk[g]
    BY <1>1 DEF Edit
  <2>2. StampBounds'
    BY <2>1
  <2>3. WorkSound'
    BY <2>1
  <2>4. PrefilterSound'
    BY <2>1
  <2> QED
    BY <2>2, <2>3, <2>4
<1>2. ASSUME NEW c \in Callers, Scan(c) PROVE Timing'
  <2>1. /\ disk' = disk /\ stamp' = stamp
        /\ row' = [f \in Files |-> IF Present(f) THEN row[f] ELSE NoRow]
        /\ work'.step = "pick" /\ work'.mtime = NoTime
    BY <1>2 DEF Scan, NoWork
  <2> QED
    BY <2>1
<1>3. ASSUME NEW c \in Callers, BeginFile(c) PROVE Timing'
  <2>1. disk' = disk /\ stamp' = stamp /\ row' = row
    BY <1>3 DEF BeginFile
  <2>2. work'.step # "store" /\ work'.mtime <= stamp
    BY <1>3 DEF BeginFile, ReadsFirst
  <2> QED
    BY <2>1, <2>2
<1>4. ASSUME NEW c \in Callers, ReadFile(c) PROVE Timing'
  <2>1. disk' = disk /\ stamp' = stamp /\ row' = row
    BY <1>4 DEF ReadFile
  <2>2. \/ work'.step = "pick" /\ work'.mtime = NoTime
        \/ /\ work'.file = work.file /\ work'.mtime = work.mtime
           /\ work'.content = disk[work.file].content
    BY <1>4 DEF ReadFile, NextFile, NoWork, ReadsFirst
  <2> QED
    BY <2>1, <2>2
<1>5. ASSUME NEW c \in Callers, StoreFile(c) PROVE Timing'
  <2>1. /\ disk' = disk /\ stamp' = stamp
        /\ work'.step = "pick" /\ work'.mtime = NoTime
        /\ work.step = "store" /\ work.file \in Files
    BY <1>5 DEF StoreFile, NextFile, NoWork
  <2>2. \/ row' = row
        \/ row' = [row EXCEPT ![work.file] =
                      [hash |-> work.content, mtime |-> work.mtime]]
    BY <1>5 DEF StoreFile
  <2>3. \A f \in Files :
           \/ row'[f] = row[f]
           \/ /\ f = work.file
              /\ row'[f].hash = work.content /\ row'[f].mtime = work.mtime
    BY <2>1, <2>2
  <2>4. PrefilterSound'
    <3> SUFFICES ASSUME NEW f \in Files, PrefilterSkips(f)'
                 PROVE  row'[f].hash = disk'[f].content
      OBVIOUS
    <3> QED
      BY <2>1, <2>3
  <2> QED
    BY <2>1, <2>3, <2>4
<1>6. ASSUME work' = NoWork, row' \in TornRows, UNCHANGED <<disk, stamp>>
      PROVE  Timing'
  <2>1. \/ row' = row
        \/ work.file \in Files /\ row' = [row EXCEPT ![work.file] = NoRow]
    BY <1>6 DEF TornRows
  <2>2. \A f \in Files : row'[f] = row[f] \/ row'[f] = NoRow
    BY <2>1
  <2>3. work'.step = "pick" /\ work'.mtime = NoTime
    BY <1>6 DEF NoWork
  <2> QED
    BY <1>6, <2>2, <2>3
<1>7. ASSUME NEW c \in Callers, Finish(c) \/ SyncThrows(c) PROVE Timing'
  BY <1>6, <1>7 DEF Finish, SyncThrows, TornRows
<1>8. CASE Crash
  BY <1>u, <1>6, <1>8 DEF Crash
<1>9. CASE CliDies
  BY <1>6, <1>9 DEF CliDies
<1>10. ASSUME NEW f \in Files, HandleChange(f) PROVE Timing'
  BY <1>u, <1>10 DEF HandleChange
<1>11. ASSUME NEW c \in Callers, AcquireLock(c) \/ LockUnavailable(c) PROVE Timing'
  BY <1>u, <1>11 DEF AcquireLock, LockUnavailable
<1>12. CASE ClockTick \/ Start \/ Flush \/ CliStart
  BY <1>u, <1>12 DEF ClockTick, Start, Flush, CliStart
<1> QED
  BY <1>1, <1>2, <1>3, <1>4, <1>5, <1>7, <1>8, <1>9, <1>10, <1>11, <1>12
     DEF Next, SyncStep

----------------------------------------------------------------------------
(* Coverage: what is stale is flagged, or in the hands of a sync. *)

\* Only a write takes a file's freshness away, and it raises an event.
LEMMA FreshKept ==
    ASSUME TypeOK, Control, Next, up', NEW f \in Files, Fresh(f)
    PROVE  Fresh(f)' \/ f \in undelivered'
<1> USE LiveIndexAssumption DEF watchVars, runVars
<1>t. /\ disk \in [Files -> [content : DiskContents, mtime : Nat]]
      /\ row \in [Files -> [hash : DiskContents, mtime : Times]]
      /\ work \in [todo : SUBSET Files, file : Files \cup {NoFile}, step : Steps,
                   content : DiskContents, mtime : Times]
      /\ work.step = "pick" <=> work.file = NoFile
      /\ mode = "sync"
  BY DEF TypeOK, TreeTypes, RowTypes, WorkTypes, Control, OnlySync
<1>f. /\ row[f].hash = disk[f].content
      /\ work.file = f /\ work.step = "store" => work.content = disk[f].content
  BY DEF Fresh, Reflects
<1> USE <1>t, <1>f DEF Fresh, Reflects, Present
<1>u. CASE UNCHANGED <<disk, row, work>>
  BY <1>u
<1>1. ASSUME NEW g \in Files, Edit(g) PROVE Fresh(f)' \/ f \in undelivered'
  <2>1. CASE g = f
    BY <1>1, <2>1 DEF Edit
  <2>2. CASE g # f
    <3>1. disk'[f] = disk[f] /\ row' = row /\ work' = work
      BY <1>1, <2>2 DEF Edit
    <3> QED
      BY <3>1
  <2> QED
    BY <2>1, <2>2
<1>2. ASSUME NEW c \in Callers, Scan(c) PROVE Fresh(f)'
  <2>1. /\ disk' = disk /\ work'.file = NoFile
        /\ row' = [g \in Files |-> IF Present(g) THEN row[g] ELSE NoRow]
    BY <1>2 DEF Scan, NoWork
  <2> QED
    BY <2>1 DEF NoRow
<1>3. ASSUME NEW c \in Callers, BeginFile(c) PROVE Fresh(f)'
  <2>1. disk' = disk /\ row' = row /\ work'.step # "store"
    BY <1>3 DEF BeginFile
  <2> QED
    BY <2>1
<1>4. ASSUME NEW c \in Callers, ReadFile(c) PROVE Fresh(f)'
  <2>1. disk' = disk /\ row' = row
    BY <1>4 DEF ReadFile
  <2>2. \/ work'.step = "pick"
        \/ work'.file = work.file /\ work'.content = disk[work.file].content
    BY <1>4 DEF ReadFile, NextFile, NoWork, ReadsFirst
  <2> QED
    BY <2>1, <2>2
<1>5. ASSUME NEW c \in Callers, StoreFile(c) PROVE Fresh(f)'
  <2>1. disk' = disk /\ work'.file = NoFile /\ work.step = "store"
    BY <1>5 DEF StoreFile, NextFile, NoWork
  <2>2. \/ row' = row
        \/ row' = [row EXCEPT ![work.file] =
                      [hash |-> work.content, mtime |-> work.mtime]]
    BY <1>5 DEF StoreFile
  <2>3. CASE f = work.file
    <3>1. row'[f] = row[f] \/ row'[f].hash = work.content
      BY <2>2, <2>3
    <3> QED
      BY <2>1, <2>3, <3>1
  <2>4. CASE f # work.file
    <3>1. row'[f] = row[f]
      BY <2>2, <2>4
    <3> QED
      BY <2>1, <3>1
  <2> QED
    BY <2>3, <2>4
<1>6. ASSUME work' = NoWork, row' \in TornRows, disk' = disk PROVE Fresh(f)'
  <2>1. row'[f] = row[f]
    BY <1>6 DEF TornRows
  <2> QED
    BY <1>6, <2>1 DEF NoWork
<1>7. ASSUME NEW c \in Callers, Finish(c) \/ SyncThrows(c) PROVE Fresh(f)'
  BY <1>6, <1>7 DEF Finish, SyncThrows, TornRows
<1>8. CASE Crash
  BY <1>8 DEF Crash
<1>9. CASE CliDies
  BY <1>6, <1>9 DEF CliDies
<1>10. ASSUME NEW g \in Files, HandleChange(g) PROVE Fresh(f)'
  BY <1>u, <1>10 DEF HandleChange
<1>11. ASSUME NEW c \in Callers, AcquireLock(c) \/ LockUnavailable(c) PROVE Fresh(f)'
  BY <1>u, <1>11 DEF AcquireLock, LockUnavailable
<1>12. CASE ClockTick \/ Start \/ Flush \/ CliStart
  BY <1>u, <1>12 DEF ClockTick, Start, Flush, CliStart
<1> QED
  BY <1>1, <1>2, <1>3, <1>4, <1>5, <1>7, <1>8, <1>9, <1>10, <1>11, <1>12
     DEF Next, SyncStep

\* A scan without unreadable files leaves nothing out of hand.
LEMMA ScanCovers ==
    ASSUME TypeOK, Control, Timing, CalmEnvironment,
           NEW c \in Callers, Scan(c), NEW f \in Files
    PROVE  InHand(f)'
<1>1. /\ disk' = disk /\ work'.file = NoFile
      /\ row' = [g \in Files |-> IF Present(g) THEN row[g] ELSE NoRow]
  BY DEF Scan, NoWork
<1>2. work'.todo = {g \in Files : NeedsIndex(g)}
  BY DEF Scan, NoWork, Unreadable, CalmEnvironment, ReadsFirst, Control, OnlySync
<1>3. CASE ~Present(f)
  BY <1>1, <1>3, LiveIndexAssumption DEF InHand, Fresh, Reflects, Present, NoRow
<1>4. CASE NeedsIndex(f)
  BY <1>1, <1>2, <1>4 DEF InHand, NeedsIndex, Present
<1>5. CASE Present(f) /\ ~NeedsIndex(f)
  <2>1. row[f].hash = disk[f].content
    BY <1>5 DEF NeedsIndex, Timing, PrefilterSound, Reflects
  <2> QED
    BY <1>1, <1>5, <2>1, LiveIndexAssumption DEF InHand, Fresh, Reflects, Present
<1> QED
  BY <1>3, <1>4, <1>5

\* While a run goes on, only a write takes a file out of its hands.
LEMMA InHandKept ==
    ASSUME TypeOK, Control, CalmEnvironment, Next, up', NEW d \in Callers,
           pc[d] = "indexing", pc'[d] = "indexing", NEW f \in Files, InHand(f)
    PROVE  InHand(f)' \/ f \in undelivered'
<1> USE LiveIndexAssumption DEF watchVars, runVars
<1>t. /\ disk \in [Files -> [content : DiskContents, mtime : Nat]]
      /\ row \in [Files -> [hash : DiskContents, mtime : Times]]
      /\ pc \in [Callers -> PcStates]
      /\ work \in [todo : SUBSET Files, file : Files \cup {NoFile}, step : Steps,
                   content : DiskContents, mtime : Times]
      /\ work.step = "pick" <=> work.file = NoFile
      /\ mode = "sync"
      /\ \A c \in Callers : HoldsLock(c) => c = d
  BY DEF TypeOK, TreeTypes, RowTypes, PcTypes, WorkTypes, Control, OnlySync,
         Exclusion, HoldsLock
<1> USE <1>t
<1>0. CASE Fresh(f)
  BY <1>0, FreshKept DEF InHand
<1> SUFFICES ASSUME ~Fresh(f) PROVE InHand(f)' \/ f \in undelivered'
  BY <1>0
<1>h. /\ Present(f)
      /\ \/ f \in work.todo
         \/ /\ f = work.file
            /\ work.step = "store" => work.content = disk[f].content
  BY DEF InHand
<1>u. CASE UNCHANGED <<disk, row, work>>
  BY <1>h, <1>u DEF InHand, Present
<1>1. ASSUME NEW g \in Files, Edit(g) PROVE InHand(f)' \/ f \in undelivered'
  <2>1. CASE g = f
    BY <1>1, <2>1 DEF Edit
  <2>2. CASE g # f
    <3>1. disk'[f] = disk[f] /\ work' = work
      BY <1>1, <2>2 DEF Edit
    <3> QED
      BY <1>h, <3>1 DEF InHand, Present
  <2> QED
    BY <2>1, <2>2
<1>2. ASSUME NEW c \in Callers, BeginFile(c) PROVE InHand(f)'
  <2>1. disk' = disk /\ work.step = "pick"
    BY <1>2 DEF BeginFile
  <2>2. f \in work.todo
    BY <1>h, <2>1
  <2>3. PICK g \in work.todo :
           work' = IF Present(g)
                   THEN [todo |-> work.todo \ {g}, file |-> g, step |-> "second",
                         content |-> Absent, mtime |-> disk[g].mtime]
                   ELSE [work EXCEPT !.todo = work.todo \ {g}]
    BY <1>2 DEF BeginFile, ReadsFirst
  <2>4. CASE g = f
    BY <1>h, <2>1, <2>3, <2>4 DEF InHand, Present
  <2>5. CASE g # f
    <3>1. f \in work'.todo
      BY <2>2, <2>3, <2>5
    <3> QED
      BY <1>h, <2>1, <3>1 DEF InHand, Present
  <2> QED
    BY <2>4, <2>5
<1>3. ASSUME NEW c \in Callers, ReadFile(c) PROVE InHand(f)'
  <2>1. disk' = disk /\ work'.todo = work.todo
    BY <1>3 DEF ReadFile, NextFile, NoWork
  <2>2. CASE f \in work.todo
    BY <1>h, <2>1, <2>2 DEF InHand, Present
  <2>3. CASE f = work.file
    <3>1. \/ /\ work'.file = f /\ work'.content = disk[f].content
          \/ f \in Unreadable
      BY <1>3, <1>h, <2>3 DEF ReadFile, ReadsFirst, Present
    <3> QED
      BY <1>h, <2>1, <3>1 DEF InHand, Present, Unreadable, CalmEnvironment
  <2> QED
    BY <1>h, <2>2, <2>3
<1>4. ASSUME NEW c \in Callers, StoreFile(c) PROVE InHand(f)'
  <2>1. /\ disk' = disk /\ work'.todo = work.todo /\ work'.file = NoFile
        /\ work.step = "store"
    BY <1>4 DEF StoreFile, NextFile, NoWork
  <2>2. CASE f \in work.todo
    BY <1>h, <2>1, <2>2 DEF InHand, Present
  <2>3. CASE f = work.file /\ work.content = disk[f].content
    <3>1. \/ row' = row /\ row[f].hash = work.content
          \/ row' = [row EXCEPT ![f] =
                        [hash |-> work.content, mtime |-> work.mtime]]
      BY <1>4, <2>3 DEF StoreFile
    <3>2. row'[f].hash = work.content
      BY <3>1
    <3> QED
      BY <1>h, <2>1, <2>3, <3>2 DEF InHand, Fresh, Reflects
  <2> QED
    BY <1>h, <2>1, <2>2, <2>3
<1>5. ASSUME NEW c \in Callers, Scan(c) \/ Finish(c) \/ SyncThrows(c) PROVE FALSE
  <2>1. c = d
    BY <1>5 DEF Scan, Finish, SyncThrows, HoldsLock
  <2> QED
    BY <1>5, <2>1 DEF Scan, Finish, SyncThrows, GiveUp
<1>6. CASE Crash
  BY <1>6 DEF Crash
<1>7. CASE CliDies
  BY <1>7 DEF CliDies, Callers
<1>8. ASSUME NEW g \in Files, HandleChange(g) PROVE InHand(f)'
  BY <1>u, <1>8 DEF HandleChange, InHand, Fresh, Reflects, Present
<1>9. ASSUME NEW c \in Callers, AcquireLock(c) \/ LockUnavailable(c) PROVE InHand(f)'
  <2>1. UNCHANGED <<disk, row, work>>
    BY <1>9 DEF AcquireLock, LockUnavailable
  <2> QED
    BY <1>h, <2>1 DEF InHand, Present
<1>10. CASE ClockTick \/ Start \/ Flush \/ CliStart
  BY <1>u, <1>10 DEF ClockTick, Start, Flush, CliStart
<1> QED
  BY <1>1, <1>2, <1>3, <1>4, <1>5, <1>6, <1>7, <1>8, <1>9, <1>10
     DEF Next, SyncStep

\* Only a successful sync of the watcher takes a flag off.
LEMMA FlagKept ==
    ASSUME Next, up', ~Finish("watch"), NEW f \in Files,
           f \in pending \/ f \in undelivered
    PROVE  f \in pending' \/ f \in undelivered'
<1> USE DEF watchVars, runVars
<1>1. ASSUME NEW c \in Callers, SyncStep(c) \/ SyncThrows(c)
      PROVE  pending' = pending /\ undelivered' = undelivered
  BY <1>1 DEF SyncStep, AcquireLock, LockUnavailable, Scan, BeginFile, ReadFile,
     StoreFile, Finish, SyncThrows, GiveUp, FlushEnds, KeptOnFailure
<1>2. CASE \E g \in Files : Edit(g) \/ HandleChange(g)
  BY <1>2 DEF Edit, HandleChange, Recorded
<1>3. CASE ClockTick \/ Start \/ Flush \/ CliStart \/ CliDies
  BY <1>3 DEF ClockTick, Start, Flush, CliStart, CliDies
<1>4. CASE Crash
  BY <1>4 DEF Crash
<1> QED
  BY <1>1, <1>2, <1>3, <1>4 DEF Next

\* While the watcher's sync runs, an event that came after its start is not
\* forgotten, and a new one counts as younger than that start.
LEMMA LateKept ==
    ASSUME TypeOK, Next, up', pc["watch"] = "indexing", pc'["watch"] = "indexing", ticked
    PROVE  /\ ticked'
           /\ \A f \in Files : f \in late \/ f \in undelivered
                             => f \in late' \/ f \in undelivered'
<1> USE DEF watchVars, runVars
<1>1. ASSUME NEW c \in Callers, SyncStep(c) \/ SyncThrows(c)
      PROVE  ticked' = ticked /\ late' = late /\ undelivered' = undelivered
  <2>1. ASSUME c = "watch"
        PROVE  ~(LockUnavailable(c) \/ Finish(c) \/ SyncThrows(c))
    BY <2>1 DEF TypeOK, PcTypes, Callers, Server, LockUnavailable, Finish,
                SyncThrows, GiveUp
  <2> QED
    BY <1>1, <2>1 DEF SyncStep, AcquireLock, LockUnavailable, Scan, BeginFile,
       ReadFile, StoreFile, Finish, SyncThrows, GiveUp
<1>2. CASE \E g \in Files : Edit(g) \/ HandleChange(g)
  BY <1>2 DEF Edit, HandleChange, ArrivesLate
<1>3. CASE ClockTick \/ Start \/ Flush \/ CliStart \/ CliDies
  BY <1>3 DEF ClockTick, Start, Flush, CliStart, CliDies
<1>4. CASE Crash
  BY <1>4 DEF Crash
<1> QED
  BY <1>1, <1>2, <1>3, <1>4 DEF Next

\* A caller is indexing after a step only if it was, or has just scanned.
LEMMA IndexingBegins ==
    ASSUME TypeOK, Next, NEW d \in Callers, pc'[d] = "indexing"
    PROVE  pc[d] = "indexing" \/ Scan(d)
<1> USE DEF watchVars, runVars
<1>t. pc \in [Callers -> PcStates]
  BY DEF TypeOK, PcTypes
<1>1. ASSUME NEW c \in Callers, SyncStep(c) \/ SyncThrows(c)
      PROVE  pc[d] = "indexing" \/ Scan(d)
  BY <1>1, <1>t DEF SyncStep, AcquireLock, LockUnavailable, Scan, BeginFile,
     ReadFile, StoreFile, Finish, SyncThrows, GiveUp
<1>2. CASE \E g \in Files : Edit(g) \/ HandleChange(g)
  BY <1>2 DEF Edit, HandleChange
<1>3. CASE ClockTick \/ Start \/ Flush \/ CliStart \/ CliDies \/ Crash
  BY <1>3, <1>t DEF ClockTick, Start, Flush, CliStart, CliDies, Crash
<1> QED
  BY <1>1, <1>2, <1>3 DEF Next

\* The watcher's sync covers every file but those with an event in sight.
LEMMA WatchStep ==
    ASSUME IInv, CalmEnvironment, Next PROVE WatchCovers'
<1> SUFFICES ASSUME pc'["watch"] = "indexing"
             PROVE  ticked' /\ \A f \in Files : Covered(f, late)'
  BY DEF WatchCovers
<1>s. "watch" \in Callers /\ "watch" \in Server
  BY DEF Callers, Server
<1>u. up'
  BY <1>s, ControlStep DEF IInv, Control, DownIsQuiet, CalmEnvironment
<1>1. CASE Scan("watch")
  <2>1. ticked'
    BY <1>1 DEF Scan, CalmEnvironment, watchVars
  <2> QED
    BY <1>1, <1>s, <2>1, ScanCovers DEF IInv, Covered
<1>2. CASE pc["watch"] = "indexing"
  <2>1. ticked /\ \A f \in Files : Covered(f, late)
    BY <1>2 DEF IInv, Coverage, WatchCovers
  <2>2. \A f \in Files : InHand(f) => InHand(f)' \/ f \in undelivered'
    BY <1>2, <1>s, <1>u, InHandKept DEF IInv
  <2>3. /\ ticked'
        /\ \A f \in Files : f \in late \/ f \in undelivered
                          => f \in late' \/ f \in undelivered'
    BY <1>2, <1>u, <2>1, LateKept DEF IInv
  <2> QED
    BY <2>1, <2>2, <2>3 DEF Covered
<1> QED
  BY <1>1, <1>2, <1>s, IndexingBegins DEF IInv

\* The catch-up covers every file but the flagged ones.
LEMMA CatchupStep ==
    ASSUME IInv, CalmEnvironment, Next PROVE CatchupCovers'
<1> SUFFICES ASSUME pc'["catchup"] = "indexing", NEW f \in Files
             PROVE  Covered(f, pending)'
  BY DEF CatchupCovers
<1>s. /\ "watch" \in Callers /\ "catchup" \in Callers
      /\ "watch" # "catchup" /\ "catchup" \in Server
  BY DEF Callers, Server
<1>u. up'
  BY <1>s, ControlStep DEF IInv, Control, DownIsQuiet, CalmEnvironment
<1>1. CASE Scan("catchup")
  BY <1>1, <1>s, ScanCovers DEF IInv, Covered
<1>2. CASE pc["catchup"] = "indexing"
  <2>1. Covered(f, pending)
    BY <1>2 DEF IInv, Coverage, CatchupCovers
  <2>2. InHand(f) => InHand(f)' \/ f \in undelivered'
    BY <1>2, <1>s, <1>u, InHandKept DEF IInv
  <2>3. ~Finish("watch")
    BY <1>2, <1>s DEF IInv, Control, Exclusion, HoldsLock, Finish
  <2> QED
    BY <1>u, <2>1, <2>2, <2>3, FlagKept DEF Covered
<1> QED
  BY <1>1, <1>2, <1>s, IndexingBegins DEF IInv

\* When a sync of the server ends, what it does not leave flagged is fresh.
LEMMA FinishFresh ==
    ASSUME IInv, up, NEW c \in Server, Finish(c), NEW f \in Files
    PROVE  Fresh(f)' \/ f \in pending' \/ f \in undelivered'
<1>1. /\ disk' = disk /\ row' = row /\ work' = NoWork
      /\ undelivered' = undelivered
      /\ work.todo = {} /\ work.file = NoFile
      /\ pc[c] = "indexing"
  BY DEF Finish, IInv, TypeOK, WorkTypes
<1>2. Fresh(f) => Fresh(f)'
  BY <1>1, LiveIndexAssumption DEF Fresh, Reflects, NoWork
<1>3. InHand(f) => Fresh(f)
  BY <1>1, LiveIndexAssumption DEF InHand
<1>4. CASE c = "watch"
  <2>1. Covered(f, late)
    BY <1>1, <1>4 DEF IInv, Coverage, WatchCovers
  <2>2. pending' = pending \cap late /\ late \subseteq pending
    BY <1>4 DEF Finish, FlushEnds, SurvivesSync, IInv, TypeOK, WatchTypes
  <2> QED
    BY <1>1, <1>2, <1>3, <2>1, <2>2 DEF Covered
<1>5. CASE c = "catchup"
  <2>1. Covered(f, pending)
    BY <1>1, <1>5 DEF IInv, Coverage, CatchupCovers
  <2>2. pending' = pending
    BY <1>5 DEF Finish
  <2> QED
    BY <1>1, <1>2, <1>3, <2>1, <2>2 DEF Covered
<1> QED
  BY <1>4, <1>5 DEF Server

\* Once a sync of the server has completed, what is stale is flagged for good.
LEMMA FreshStep ==
    ASSUME IInv, CalmEnvironment, Next PROVE FreshInv'
<1> SUFFICES ASSUME up', baseline', NEW f \in Files
             PROVE  Fresh(f)' \/ f \in pending' \/ f \in undelivered'
  BY DEF FreshInv
<1>1. CASE \E c \in Server : Finish(c)
  <2>1. up
    BY <1>1 DEF Finish
  <2> QED
    BY <1>1, <2>1, FinishFresh
<1>2. CASE ~\E c \in Server : Finish(c)
  <2>1. up /\ baseline
    <3> USE DEF watchVars, runVars
    <3>1. ASSUME NEW c \in Callers, SyncStep(c) \/ SyncThrows(c)
          PROVE  up /\ baseline
      BY <1>2, <3>1 DEF SyncStep, AcquireLock, LockUnavailable, Scan, BeginFile,
         ReadFile, StoreFile, Finish, SyncThrows, Callers, Server
    <3>2. CASE \E g \in Files : Edit(g) \/ HandleChange(g)
      BY <3>2 DEF Edit, HandleChange
    <3>3. CASE ClockTick \/ Flush \/ CliStart \/ CliDies
      BY <3>3 DEF ClockTick, Flush, CliStart, CliDies
    <3>4. CASE Start \/ Crash
      BY <3>4 DEF Start, Crash
    <3> QED
      BY <3>1, <3>2, <3>3, <3>4 DEF Next
  <2>2. Fresh(f) \/ f \in pending \/ f \in undelivered
    BY <2>1 DEF IInv, Coverage, FreshInv
  <2>3. ~Finish("watch")
    BY <1>2 DEF Server
  <2> QED
    BY <2>2, <2>3, FreshKept, FlagKept DEF IInv
<1> QED
  BY <1>1, <1>2

----------------------------------------------------------------------------
(* The theorems. *)

\* The invariant holds initially ...
LEMMA InitIInv == Init => IInv
<1> SUFFICES ASSUME Init PROVE IInv
  OBVIOUS
<1> USE LiveIndexAssumption DEF Init
<1>1. TypeOK
  <2>1. TreeTypes /\ RowTypes
    BY DEF TreeTypes, RowTypes, DiskContents, Times, NoTime, NoRow
  <2>2. PcTypes /\ WorkTypes
    BY DEF PcTypes, PcStates, AllModes, WorkTypes, NoWork, Steps, DiskContents,
           Times, NoTime
  <2>3. WatchTypes /\ ServerTypes
    BY DEF WatchTypes, ServerTypes
  <2> QED
    BY <2>1, <2>2, <2>3 DEF TypeOK
<1>2. Control
  BY DEF Control, OnlySync, Exclusion, DownIsQuiet, HoldsLock, Server, Callers
<1>3. Timing
  BY DEF Timing, StampBounds, WorkSound, PrefilterSound, PrefilterSkips, Reflects,
         NoRow, NoWork, NoTime
<1>4. Coverage
  BY DEF Coverage, FreshInv, WatchCovers, CatchupCovers, Callers, Server
<1> QED
  BY <1>1, <1>2, <1>3, <1>4 DEF IInv

\* ... and is kept by every step.
LEMMA NextIInv ==
    ASSUME IInv, CalmEnvironment, [Next]_vars PROVE IInv'
<1>1. CASE Next
  <2>1. TypeOK' /\ Control'
    BY <1>1, TypeStep, ControlStep DEF IInv, CalmEnvironment
  <2>2. Timing'
    BY <1>1, TimingStep DEF IInv
  <2>3. Coverage'
    BY <1>1, FreshStep, WatchStep, CatchupStep DEF Coverage
  <2> QED
    BY <2>1, <2>2, <2>3 DEF IInv
<1>2. CASE UNCHANGED vars
  BY <1>2 DEF vars, IInv, TypeOK, TreeTypes, RowTypes, WatchTypes, PcTypes,
     WorkTypes, ServerTypes, Control, OnlySync, Exclusion, DownIsQuiet, HoldsLock,
     Timing, StampBounds, WorkSound, PrefilterSound, PrefilterSkips, Reflects,
     Coverage, FreshInv, WatchCovers, CatchupCovers, Covered, InHand, Fresh, Present
<1> QED
  BY <1>1, <1>2

\* The inductive invariant is an invariant.
THEOREM Invariance == CalmEnvironment => (Spec => []IInv)
<1> SUFFICES ASSUME CalmEnvironment PROVE Spec => []IInv
  OBVIOUS
<1>1. Init => IInv
  BY InitIInv
<1>2. IInv /\ [Next]_vars => IInv'
  BY NextIInv
<1> QED
  BY <1>1, <1>2, PTL DEF Spec

\* Whatever the environment does, the variables keep their types.
THEOREM TypeCorrect == Spec => []TypeOK
<1>1. Init => TypeOK
  BY InitIInv DEF IInv
<1>2. TypeOK /\ [Next]_vars => TypeOK'
  <2> SUFFICES ASSUME TypeOK, [Next]_vars PROVE TypeOK'
    OBVIOUS
  <2>1. CASE Next
    BY <2>1, TypeStep
  <2>2. CASE UNCHANGED vars
    BY <2>2 DEF vars, TypeOK, TreeTypes, RowTypes, WatchTypes, PcTypes,
       WorkTypes, ServerTypes
  <2> QED
    BY <2>1, <2>2
<1> QED
  BY <1>1, <1>2, PTL DEF Spec

\* The (size, mtime) pre-filter of sync() never hides a change, unreadable
\* files and syncs within one millisecond included.
THEOREM PrefilterIsSound == SyncOnlyCli => (Spec => []PrefilterSound)
<1> SUFFICES ASSUME SyncOnlyCli PROVE Spec => []PrefilterSound
  OBVIOUS
<1> DEFINE Inv == TypeOK /\ Control /\ Timing
<1>1. Init => Inv
  BY InitIInv DEF IInv
<1>2. Inv /\ [Next]_vars => Inv'
  <2> SUFFICES ASSUME Inv, [Next]_vars PROVE Inv'
    OBVIOUS
  <2>1. CASE Next
    BY <2>1, TypeStep, ControlStep, TimingStep
  <2>2. CASE UNCHANGED vars
    BY <2>2 DEF vars, TypeOK, TreeTypes, RowTypes, WatchTypes, PcTypes, WorkTypes,
       ServerTypes, Control, OnlySync, Exclusion, DownIsQuiet, HoldsLock, Timing,
       StampBounds, WorkSound, PrefilterSound, PrefilterSkips, Reflects
  <2> QED
    BY <2>1, <2>2
<1>3. Inv => PrefilterSound
  BY DEF Timing
<1> QED
  BY <1>1, <1>2, <1>3, PTL DEF Spec

\* A file that looks fresh to the staleness banner is fresh.
THEOREM StaleFilesAreFlagged == CalmEnvironment => (Spec => []FreshOrFlagged)
<1>1. IInv => FreshOrFlagged
  BY DEF IInv, Coverage, FreshInv, FreshOrFlagged, Fresh
<1> QED
  BY <1>1, Invariance, PTL

\* PendingFile.indexing is TRUE only for a file the sync in flight covers.
THEOREM IndexingFlagIsHonest == CalmEnvironment => (Spec => []IndexingFlagHonest)
<1>1. IInv => IndexingFlagHonest
  BY DEF IInv, TypeOK, WatchTypes, Coverage, WatchCovers, Covered, InHand, Fresh,
         IndexingFlagHonest
<1> QED
  BY <1>1, Invariance, PTL

\* The watcher takes its flag off a file only if its sync covered the file.
THEOREM FlagsComeOffLate == CalmEnvironment => (Spec => FlagClearedByCoveringSync)
<1> SUFFICES ASSUME CalmEnvironment PROVE Spec => FlagClearedByCoveringSync
  OBVIOUS
<1> DEFINE Clears == \A f \in Files : f \in pending /\ f \notin pending' /\ up'
                        => Reflects(f)' \/ f \in undelivered'
<1>1. IInv /\ [Next]_vars => [Clears]_vars
  <2> SUFFICES ASSUME IInv, Next, NEW f \in Files,
                      f \in pending, f \notin pending', up'
               PROVE  Reflects(f)' \/ f \in undelivered'
    BY DEF vars
  <2>1. CASE Finish("watch")
    BY <2>1, FinishFresh DEF Server, Finish, Fresh
  <2>2. CASE ~Finish("watch")
    BY <2>2, FlagKept
  <2> QED
    BY <2>1, <2>2
<1> QED
  BY <1>1, Invariance, PTL DEF Spec, FlagClearedByCoveringSync

----------------------------------------------------------------------------
(* No flag is forgotten. *)

\* As long as a file is flagged, the debounce timer is set or a flush() is under way.
FlagsAreActedOn == pending # {} => timer \/ pc["watch"] # "idle"

\* A file whose row is stale has an event to come, or a flush() is due or under way.
StaleIsActedOn ==
    up /\ baseline =>
        \A f \in Files : Reflects(f) \/ f \in undelivered \/ timer \/ pc["watch"] # "idle"

\* Whichever way flush() ends, it sets the timer again if it leaves a flag.
LEMMA FlushEndsActs == ASSUME NEW p, FlushEnds(p) PROVE pending' # {} => timer'
  BY DEF FlushEnds, Reschedules

LEMMA ActedOnKept == ASSUME TypeOK, FlagsAreActedOn, [Next]_vars PROVE FlagsAreActedOn'
<1> USE DEF FlagsAreActedOn, watchVars, runVars
<1>t. pc \in [Callers -> PcStates] /\ "watch" \in Callers
  BY DEF TypeOK, PcTypes, Callers, Server
<1>0. CASE UNCHANGED <<pending, timer, pc>>
  BY <1>0
<1>1. ASSUME NEW f \in Files, HandleChange(f) PROVE FlagsAreActedOn'
  BY <1>1 DEF HandleChange
<1>2. CASE Flush
  BY <1>t, <1>2 DEF Flush
<1>3. ASSUME NEW c \in Callers, GiveUp(c), pc[c] # "idle" PROVE FlagsAreActedOn'
  <2>1. CASE c = "watch"
    BY <1>3, <2>1, FlushEndsActs DEF GiveUp
  <2>2. CASE c # "watch"
    BY <1>t, <1>3, <2>2 DEF GiveUp
  <2> QED
    BY <2>1, <2>2
<1>4. ASSUME NEW c \in Callers, Finish(c) PROVE FlagsAreActedOn'
  <2>1. CASE c = "watch"
    BY <1>4, <2>1, FlushEndsActs DEF Finish
  <2>2. CASE c # "watch"
    BY <1>t, <1>4, <2>2 DEF Finish
  <2> QED
    BY <2>1, <2>2
<1>5. ASSUME NEW c \in Callers, SyncStep(c) \/ SyncThrows(c) PROVE FlagsAreActedOn'
  <2>1. CASE AcquireLock(c) \/ Scan(c)
    BY <1>t, <2>1 DEF AcquireLock, Scan
  <2>2. CASE BeginFile(c) \/ ReadFile(c) \/ StoreFile(c)
    BY <1>0, <2>2 DEF BeginFile, ReadFile, StoreFile
  <2>3. CASE LockUnavailable(c) \/ SyncThrows(c)
    BY <1>3, <2>3 DEF LockUnavailable, SyncThrows, HoldsLock
  <2> QED
    BY <1>4, <1>5, <2>1, <2>2, <2>3 DEF SyncStep
<1>6. CASE (\E f \in Files : Edit(f)) \/ ClockTick
  BY <1>0, <1>6 DEF Edit, ClockTick
<1>7. CASE Start \/ CliStart \/ CliDies
  BY <1>t, <1>7 DEF Start, CliStart, CliDies
<1>8. CASE Crash
  BY <1>8 DEF Crash
<1> QED
  BY <1>0, <1>1, <1>2, <1>5, <1>6, <1>7, <1>8 DEF Next, vars

\* FileWatcher.flush: whatever the environment does - locks held elsewhere, syncs that
\* throw, events during a sync - no flag is left without a flush() to come.
THEOREM FlagsAreRetried == Spec => []FlagsAreActedOn
<1>1. Init => FlagsAreActedOn
  BY DEF Init, FlagsAreActedOn
<1>2. TypeOK /\ FlagsAreActedOn /\ [Next]_vars => FlagsAreActedOn'
  BY ActedOnKept
<1> QED
  BY <1>1, <1>2, TypeCorrect, PTL DEF Spec

\* The safety half of Convergence: a running server never settles on a stale index.
THEOREM StaleIsNeverSettled == CalmEnvironment => (Spec => []StaleIsActedOn)
<1>1. IInv /\ FlagsAreActedOn => StaleIsActedOn
  BY DEF IInv, Coverage, FreshInv, Fresh, FlagsAreActedOn, StaleIsActedOn
<1> QED
  BY <1>1, Invariance, FlagsAreRetried, PTL
============================================================================
