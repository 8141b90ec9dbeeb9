--------------------------- MODULE WatchTreeProofs ---------------------------
(* For every tree, however it changes during the walks: once nothing is left to do, every directory that is there is  *)
(* watched, and every change of a file is known, unless the watcher has given up on it.                               *)
EXTENDS WatchTree, FiniteSetTheorems, TLAPS

Task == [dir: Dirs, mark: BOOLEAN, at: 1..2]

\* What is still on the walk's stack, and what is still to be handled.
Tasks == ToSet(walk)
Reported == ToSet(events)

\* The walk is to watch the directory itself, or somebody reported it.
ToWatch(d) == \/ \E task \in Tasks : task.dir = d /\ task.at = 1
              \/ [what |-> "dir", dir |-> d] \in Reported

\* The walk has watched the directory, and is to list it.
ToList(d) == \E task \in Tasks : task.dir = d /\ task.at = 2

\* When it does, the file is recorded as changed.
ToMark(d) == \E task \in Tasks : task.dir = d /\ task.at = 2 /\ task.mark

\* A directory is there only in the directory above it, and a watch works only as long as its directory is there.
TreeGrounded == /\ Root \in present
                /\ \A d \in present \ {Root} : Parent[d] \in present
                /\ \A d \in Dirs : watch[d] = "live" => d \in present
                /\ \A d \in Dirs \ present : content[d] = Absent

\* What is reported of a directory is reported by the directory above.
EventsGrounded == \A e \in Reported : e.what = "dir" => e.dir # Root

\* Only the walk of start() does not mark, and the catch-up waits for it.
UnmarkedCaughtUp == \A task \in Tasks : task.mark \/ catchup

\* The directory above is not watched, is given up on, or is still to be listed.
AboveFirst(d) == d # Root /\ \/ watch[Parent[d]] # "live"
                             \/ Parent[d] \in refused
                             \/ ToList(Parent[d])

\* A directory that is there has a watch, or one to come, or its turn comes after the directory above.
WatchComes == \A d \in present : \/ watch[d] \in {"live", "dead"}
                                 \/ d \in refused
                                 \/ ToWatch(d)
                                 \/ AboveFirst(d)

\* A file that differs from the index is on its way to it, or its directory is not watched yet, or not any more.
ChangeComes == \A d \in Dirs : \/ content[d] = synced[d]
                               \/ d \in pending
                               \/ catchup
                               \/ [what |-> "file", dir |-> d] \in Reported
                               \/ IF content[d] = Absent THEN d \in unseen
                                  ELSE watch[d] # "live" \/ d \in refused \/ ToMark(d)

Grounded == TreeGrounded /\ EventsGrounded /\ UnmarkedCaughtUp

IInv == TypeOK /\ Grounded /\ WatchComes /\ ChangeComes

-----------------------------------------------------------------------------
(* Sequences, by what is in them. *)

\* Head and Tail divide what is in a sequence.
LEMMA HeadAndTail ==
  ASSUME NEW T, NEW s \in Seq(T), s # <<>>
  PROVE  /\ Head(s) \in T /\ Tail(s) \in Seq(T)
         /\ ToSet(s) = {Head(s)} \cup ToSet(Tail(s))
  <1>1. Head(s) \in T /\ Tail(s) \in Seq(T) /\ Len(Tail(s)) = Len(s) - 1
    OBVIOUS
  <1>2. Len(s) \in Nat \ {0} /\ DOMAIN s = 1..Len(s) /\ Head(s) = s[1]
    OBVIOUS
  <1>3. DOMAIN Tail(s) = 1..(Len(s) - 1) /\ \A i \in 1..(Len(s) - 1) : Tail(s)[i] = s[i + 1]
    BY <1>1
  <1>4. ASSUME NEW x \in ToSet(s) PROVE x = Head(s) \/ x \in ToSet(Tail(s))
    <2>1. PICK i \in 1..Len(s) : x = s[i]
      BY <1>2, <1>4 DEF ToSet
    <2>2. CASE i # 1
      <3>1. i - 1 \in DOMAIN Tail(s) /\ Tail(s)[i - 1] = s[i]
        BY <1>2, <1>3, <2>1, <2>2
      <3> QED
        BY <2>1, <3>1 DEF ToSet
    <2> QED
      BY <1>2, <2>1, <2>2
  <1>5. ASSUME NEW x \in ToSet(Tail(s)) PROVE x \in ToSet(s)
    <2>1. PICK i \in 1..(Len(s) - 1) : x = Tail(s)[i]
      BY <1>3, <1>5 DEF ToSet
    <2>2. i + 1 \in DOMAIN s /\ s[i + 1] = x
      BY <1>2, <1>3, <2>1
    <2> QED
      BY <2>2 DEF ToSet
  <1>6. Head(s) \in ToSet(s)
    BY <1>2 DEF ToSet
  <1> QED
    BY <1>1, <1>4, <1>5, <1>6

\* Append adds one.
LEMMA Appended ==
  ASSUME NEW T, NEW s \in Seq(T), NEW e \in T
  PROVE  /\ Append(s, e) \in Seq(T)
         /\ ToSet(Append(s, e)) = ToSet(s) \cup {e}
  <1>1. Append(s, e) \in Seq(T) /\ Len(Append(s, e)) = Len(s) + 1 /\ Len(s) \in Nat
    OBVIOUS
  <1>2. DOMAIN s = 1..Len(s) /\ DOMAIN Append(s, e) = 1..(Len(s) + 1)
    BY <1>1
  <1>3. \A i \in 1..(Len(s) + 1) : Append(s, e)[i] = IF i = Len(s) + 1 THEN e ELSE s[i]
    BY <1>1
  <1>4. ASSUME NEW x \in ToSet(Append(s, e)) PROVE x = e \/ x \in ToSet(s)
    BY <1>1, <1>2, <1>3, <1>4 DEF ToSet
  <1>5. e \in ToSet(Append(s, e))
    BY <1>1, <1>2, <1>3 DEF ToSet
  <1>6. ASSUME NEW x \in ToSet(s) PROVE x \in ToSet(Append(s, e))
    BY <1>1, <1>2, <1>3, <1>6 DEF ToSet
  <1> QED
    BY <1>1, <1>4, <1>5, <1>6

\* What is in one sequence after another.
LEMMA Concatenated ==
  ASSUME NEW T, NEW s \in Seq(T), NEW t \in Seq(T)
  PROVE  s \o t \in Seq(T) /\ ToSet(s \o t) = ToSet(s) \cup ToSet(t)
  <1>1. s \o t \in Seq(T) /\ Len(s \o t) = Len(s) + Len(t) /\ Len(s) \in Nat /\ Len(t) \in Nat
    OBVIOUS
  <1>2. DOMAIN s = 1..Len(s) /\ DOMAIN t = 1..Len(t) /\ DOMAIN (s \o t) = 1..(Len(s) + Len(t))
    BY <1>1
  <1>3. \A i \in 1..(Len(s) + Len(t)) : (s \o t)[i] = IF i <= Len(s) THEN s[i] ELSE t[i - Len(s)]
    BY <1>1
  <1>4. ASSUME NEW x \in ToSet(s \o t) PROVE x \in ToSet(s) \cup ToSet(t)
    <2>1. PICK i \in 1..(Len(s) + Len(t)) : x = (s \o t)[i]
      BY <1>2, <1>4 DEF ToSet
    <2>2. CASE i <= Len(s)
      <3>1. i \in DOMAIN s /\ x = s[i]
        BY <1>1, <1>2, <1>3, <2>1, <2>2
      <3> QED
        BY <3>1 DEF ToSet
    <2>3. CASE ~(i <= Len(s))
      <3>1. i - Len(s) \in DOMAIN t /\ x = t[i - Len(s)]
        BY <1>1, <1>2, <1>3, <2>1, <2>3
      <3> QED
        BY <3>1 DEF ToSet
    <2> QED
      BY <2>2, <2>3
  <1>5. ASSUME NEW x \in ToSet(s) PROVE x \in ToSet(s \o t)
    <2>1. PICK i \in 1..Len(s) : x = s[i]
      BY <1>2, <1>5 DEF ToSet
    <2>2. i \in DOMAIN (s \o t) /\ (s \o t)[i] = x
      BY <1>1, <1>2, <1>3, <2>1
    <2> QED
      BY <2>2 DEF ToSet
  <1>6. ASSUME NEW x \in ToSet(t) PROVE x \in ToSet(s \o t)
    <2>1. PICK i \in 1..Len(t) : x = t[i]
      BY <1>2, <1>6 DEF ToSet
    <2>2. i + Len(s) \in DOMAIN (s \o t) /\ (s \o t)[i + Len(s)] = t[i]
      BY <1>1, <1>2, <1>3, <2>1
    <2> QED
      BY <2>1, <2>2 DEF ToSet
  <1> QED
    BY <1>1, <1>4, <1>5, <1>6

\* The empty sequence and a sequence of one.
LEMMA ShortSequences ==
  ASSUME NEW T, NEW e \in T
  PROVE  /\ <<>> \in Seq(T) /\ ToSet(<<>>) = {}
         /\ <<e>> \in Seq(T) /\ ToSet(<<e>>) = {e}
  BY DEF ToSet

\* What readdir returns, in any order, comes on the stack as tasks: all of it.
LEMMA Listed ==
  ASSUME NEW K \in SUBSET Dirs, NEW kids \in SetToSeqs(K), NEW mark \in BOOLEAN,
         NEW s, s = [i \in DOMAIN kids |-> [dir |-> kids[i], mark |-> mark, at |-> 1]]
  PROVE  s \in Seq(Task) /\ ToSet(s) = {[dir |-> k, mark |-> mark, at |-> 1] : k \in K}
  <1> DEFINE n == Cardinality(K)
  <1>1. IsFiniteSet(K) /\ n \in Nat
    BY TreeAssumption, FS_Subset, FS_CardinalityType
  <1>2. IsFiniteSet(1..n) /\ Cardinality(1..n) = n
    BY <1>1, FS_Interval
  <1>3. kids \in [1..n -> K] /\ \A i, j \in 1..n : i # j => kids[i] # kids[j]
    BY DEF SetToSeqs
  <1>4. kids \in Injection(1..n, K)
    BY <1>3 DEF Injection, IsInjective
  <1>5. kids \in Surjection(1..n, K)
    BY <1>1, <1>2, <1>4, FS_Injection
  <1>6. \A k \in K : \E i \in 1..n : kids[i] = k
    BY <1>5 DEF Surjection
  <1> HIDE DEF n
  <1>7. DOMAIN s = 1..n /\ \A i \in 1..n : s[i] = [dir |-> kids[i], mark |-> mark, at |-> 1]
    BY <1>3
  <1>8. s \in [1..n -> Task]
    BY <1>3, <1>7 DEF Task
  <1>9. s \in Seq(Task)
    BY <1>1, <1>8
  <1> QED
    BY <1>3, <1>6, <1>7, <1>9 DEF ToSet

\* When a watch is closed, its events are lost, and the others stay.
LEMMA Closed ==
  ASSUME NEW d, NEW s \in Seq(Event), NEW r,
         r = [i \in DOMAIN s |-> IF d = Reporter(s[i]) THEN [what |-> "lost", dir |-> s[i].dir] ELSE s[i]]
  PROVE  /\ r \in Seq(Event)
         /\ \A e \in ToSet(r) : e \in ToSet(s) \/ e.what = "lost"
         /\ \A e \in ToSet(s) : d # Reporter(e) => e \in ToSet(r)
         /\ [what |-> "file", dir |-> d] \notin ToSet(r)
  <1>1. Len(s) \in Nat /\ DOMAIN s = 1..Len(s) /\ \A i \in 1..Len(s) : s[i] \in Event
    OBVIOUS
  <1>2. \A e \in Event : [what |-> "lost", dir |-> e.dir] \in Event
    BY DEF Event
  <1>3. r \in [1..Len(s) -> Event]
    BY <1>1, <1>2
  <1>4. r \in Seq(Event)
    BY <1>1, <1>3
  <1>5. \A e \in ToSet(r) : e \in ToSet(s) \/ e.what = "lost"
    BY <1>1, <1>2 DEF ToSet
  <1>6. \A e \in ToSet(s) : d # Reporter(e) => e \in ToSet(r)
    BY <1>1 DEF ToSet
  <1>7. ASSUME [what |-> "file", dir |-> d] \in ToSet(r) PROVE FALSE
    <2>1. PICK i \in 1..Len(s) : [what |-> "file", dir |-> d] = r[i]
      BY <1>1, <1>3, <1>7 DEF ToSet
    <2>2. CASE d = Reporter(s[i])
      BY <1>1, <1>2, <2>1, <2>2
    <2>3. CASE d # Reporter(s[i])
      BY <1>1, <2>1, <2>3 DEF Reporter
    <2> QED
      BY <2>2, <2>3
  <1> QED
    BY <1>4, <1>5, <1>6, <1>7

-----------------------------------------------------------------------------
(* The tree. *)

\* What is below a directory: itself, the children of what is below it, and no more than in any such set.
LEMMA BelowIsLeast ==
  ASSUME NEW d \in Dirs
  PROVE  /\ Below[d] \subseteq Dirs /\ d \in Below[d]
         /\ \A e \in Below[d] : Kids(e) \subseteq Below[d]
         /\ \A S \in SUBSET Dirs : d \in S /\ (\A e \in S : Kids(e) \subseteq S) => Below[d] \subseteq S
  BY DEF Below, Kids

\* What holds at the root, and of a directory if it does of the one above, holds everywhere.
LEMMA TreeInduction ==
  ASSUME NEW S \in SUBSET Dirs, Root \in S, \A d \in Dirs \ {Root} : Parent[d] \in S => d \in S
  PROVE  S = Dirs
  <1>1. \A e \in S : Kids(e) \subseteq S
    BY DEF Kids
  <1> QED
    BY <1>1, BelowIsLeast, TreeAssumption

\* Nothing is below a directory that is not there.
LEMMA NothingBelow ==
  ASSUME TypeOK, TreeGrounded, NEW d \in Dirs \ present
  PROVE  Below[d] \cap present = {}
  <1>1. Dirs \ present \in SUBSET Dirs /\ d \in Dirs \ present
    OBVIOUS
  <1>2. \A e \in Dirs \ present : Kids(e) \subseteq Dirs \ present
    BY DEF Kids, TreeGrounded
  <1>3. Below[d] \subseteq Dirs \ present
    BY <1>1, <1>2, BelowIsLeast
  <1> QED
    BY <1>3

-----------------------------------------------------------------------------
(* The walk's stack and the queue of events, after each step, by what is in them. *)

\* What the walk is at, and what is left of it when a step is done.
LEMMA WalkGoesOn ==
  ASSUME TypeOK, walk # <<>>
  PROVE  /\ Head(walk) \in Task /\ Head(walk) \in Tasks
         /\ Abandoned \in Seq(Task) /\ ToSet(Abandoned) \subseteq Tasks
         /\ Tasks = {Head(walk)} \cup ToSet(Abandoned)
         /\ Doing("watch") <=> Head(walk).at = 1
         /\ Doing("list") <=> Head(walk).at = 2
         /\ Head(walk).at = 2 => Continued = Abandoned
         /\ Head(walk).at = 1 => /\ Continued \in Seq(Task)
                                 /\ ToSet(Continued) = {[Head(walk) EXCEPT !.at = 2]} \cup ToSet(Abandoned)
  <1>1. walk \in Seq(Task)
    BY DEF TypeOK, Task
  <1>2. /\ Head(walk) \in Task /\ Abandoned \in Seq(Task)
        /\ Tasks = {Head(walk)} \cup ToSet(Abandoned)
    BY <1>1, HeadAndTail DEF Tasks, Abandoned
  <1>3. Head(walk).at \in {1, 2}
    BY <1>2 DEF Task
  <1>4. /\ Doing("watch") <=> Head(walk).at = 1
        /\ Doing("list") <=> Head(walk).at = 2
    BY <1>3 DEF Doing, Order
  <1>5. Head(walk).at = 2 => Continued = Abandoned
    BY DEF Continued, Abandoned
  <1>6. ASSUME Head(walk).at = 1
        PROVE  /\ Continued \in Seq(Task)
               /\ ToSet(Continued) = {[Head(walk) EXCEPT !.at = 2]} \cup ToSet(Abandoned)
    <2>1. [Head(walk) EXCEPT !.at = 2] \in Task
      BY <1>2 DEF Task
    <2>2. Continued = <<[Head(walk) EXCEPT !.at = 2]>> \o Abandoned
      BY <1>6 DEF Continued, Abandoned
    <2> DEFINE next == [Head(walk) EXCEPT !.at = 2]
    <2>3. next \in Task /\ Continued = <<next>> \o Abandoned
      BY <2>1, <2>2
    <2> HIDE DEF next
    <2>4. <<next>> \in Seq(Task) /\ ToSet(<<next>>) = {next}
      BY <2>3, ShortSequences
    <2> DEFINE one == <<next>>
    <2> HIDE DEF one
    <2>5. one \in Seq(Task) /\ ToSet(one) = {next} /\ Continued = one \o Abandoned
      BY <2>3, <2>4 DEF one
    <2>6. Continued \in Seq(Task) /\ ToSet(Continued) = {next} \cup ToSet(Abandoned)
      BY <1>2, <2>5, Concatenated
    <2> QED
      BY <2>6 DEF next
  <1> QED
    BY <1>2, <1>4, <1>5, <1>6

\* A change is reported if the directory is watched.
LEMMA Reports ==
  ASSUME TypeOK, NEW d \in Dirs, NEW e \in Event, events' = Report(d, e)
  PROVE  /\ events' \in Seq(Event)
         /\ Reported' = IF watch[d] = "live" THEN Reported \cup {e} ELSE Reported
  <1>1. events \in Seq(Event)
    BY DEF TypeOK
  <1>2. Append(events, e) \in Seq(Event) /\ ToSet(Append(events, e)) = ToSet(events) \cup {e}
    BY <1>1, Appended
  <1>3. Reported' = ToSet(events')
    BY DEF Reported, ToSet
  <1> QED
    BY <1>1, <1>2, <1>3 DEF Report, Reported

-----------------------------------------------------------------------------
(* Types. *)

\* The watches are not more than before, or one more if there may be.
LEMMA FewWatches ==
  ASSUME TypeOK,
         \/ Watched' \subseteq Watched
         \/ ~AtCap /\ \E d \in Dirs : Watched' = Watched \cup {d}
  PROVE  Cardinality(Watched') <= MaxWatches
  <1>1. IsFiniteSet(Watched) /\ Cardinality(Watched) \in Nat
    BY TreeAssumption, FS_Subset, FS_CardinalityType DEF Watched
  <1>2. MaxWatches \in Nat /\ Cardinality(Watched) <= MaxWatches
    BY TreeAssumption DEF TypeOK, Watched
  <1>3. CASE Watched' \subseteq Watched
    <2>1. IsFiniteSet(Watched') /\ Cardinality(Watched') <= Cardinality(Watched)
      BY <1>1, <1>3, FS_Subset
    <2> QED
      BY <1>1, <1>2, <2>1, FS_CardinalityType
  <1>4. CASE ~AtCap /\ \E d \in Dirs : Watched' = Watched \cup {d}
    <2>0. PICK d \in Dirs : Watched' = Watched \cup {d}
      BY <1>4
    <2>1. Cardinality(Watched') = IF d \in Watched THEN Cardinality(Watched) ELSE Cardinality(Watched) + 1
      BY <1>1, <2>0, FS_AddElement
    <2>2. Cardinality(Watched) < MaxWatches
      BY <1>1, <1>2, <1>4 DEF AtCap
    <2> QED
      BY <1>1, <1>2, <2>1, <2>2
  <1> QED
    BY <1>3, <1>4

\* start(): nothing is watched, and the root is to be walked.
LEMMA TypesInit == Init => TypeOK
  <1> SUFFICES ASSUME Init PROVE TypeOK
    OBVIOUS
  <1>1. walk \in Seq(Task)
    <2>1. [dir |-> Root, mark |-> FALSE, at |-> 1] \in Task
      BY TreeAssumption DEF Task
    <2> QED
      BY <2>1, ShortSequences DEF Init
  <1>2. events \in Seq(Event)
    BY DEF Init
  <1>3. Cardinality({d \in Dirs : watch[d] # "none"}) <= MaxWatches
    <2>1. {d \in Dirs : watch[d] # "none"} = {}
      BY DEF Init
    <2> QED
      BY <2>1, FS_EmptySet, TreeAssumption
  <1>4. edits \in 0..MaxEdits /\ faults \in 0..MaxFaults
    BY TreeAssumption DEF Init
  <1>5. timer \in BOOLEAN /\ catchup \in BOOLEAN
    BY DEF Init
  <1> QED
    BY <1>1, <1>2, <1>3, <1>4, <1>5 DEF Init, TypeOK, Task

\* What other processes do keeps the types.
LEMMA TypesOfEnvironment ==
  ASSUME TypeOK, NEW d \in Dirs, (\E c \in Contents \cup {Absent} : Write(d, c)) \/ Appear(d) \/ Disappear(d)
  PROVE  TypeOK'
  <1>0. edits' \in 0..MaxEdits
    BY TreeAssumption DEF TypeOK, Write, Appear, Disappear
  <1>1. ASSUME NEW c \in Contents \cup {Absent}, Write(d, c) PROVE TypeOK'
    <2>1. events' \in Seq(Event)
      BY <1>1, Reports DEF Write, Event
    <2>2. Watched' = Watched /\ Cardinality(Watched') <= MaxWatches
      BY <1>1, FewWatches DEF Write, Watched
    <2> QED
      BY <1>0, <1>1, <2>1, <2>2 DEF TypeOK, Write, Watched, queue
  <1>2. CASE Appear(d)
    <2>1. Parent[d] \in Dirs
      BY <1>2, TreeAssumption DEF Appear
    <2>2. events' \in Seq(Event)
      BY <1>2, <2>1, Reports DEF Appear, Event
    <2>3. Watched' = Watched /\ Cardinality(Watched') <= MaxWatches
      BY <1>2, FewWatches DEF Appear, Watched
    <2>4. present' \subseteq Dirs /\ content' \in [Dirs -> Contents \cup {Absent}]
      BY <1>2, BelowIsLeast DEF Appear, TypeOK
    <2> QED
      BY <1>0, <1>2, <2>2, <2>3, <2>4 DEF TypeOK, Appear, Watched, queue
  <1>3. CASE Disappear(d)
    <2>1. Parent[d] \in Dirs
      BY <1>3, TreeAssumption DEF Disappear
    <2>2. events' \in Seq(Event)
      BY <1>3, <2>1, Reports DEF Disappear, Event
    <2>3. watch' \in [Dirs -> {"none", "live", "dead"}]
      BY <1>3 DEF Disappear, TypeOK
    <2>4. Watched' = Watched
      BY <1>3 DEF Disappear, TypeOK, Watched
    <2>5. Cardinality(Watched') <= MaxWatches
      BY <2>4, FewWatches
    <2>6. present' \subseteq Dirs /\ content' \in [Dirs -> Contents \cup {Absent}] /\ unseen' \subseteq Dirs
      BY <1>3, BelowIsLeast DEF Disappear, TypeOK
    <2> QED
      BY <1>0, <1>3, <2>2, <2>3, <2>5, <2>6 DEF TypeOK, Disappear, Watched, queue
  <1> QED
    BY <1>1, <1>2, <1>3

\* The steps of the walk keep the types.
LEMMA TypesOfWalk ==
  ASSUME TypeOK, Walk \/ CallFails
  PROVE  TypeOK'
  <1>1. walk # <<>> /\ Head(walk).dir \in Dirs /\ Head(walk).mark \in BOOLEAN
    BY WalkGoesOn DEF Walk, WatchDir, WatchSkipped, ListDir, CallFails, Doing, Task
  <1> DEFINE d == Head(walk).dir
  <1>2. /\ Abandoned \in Seq(Task) /\ Continued \in Seq(Task)
        /\ Doing("list") => Continued = Abandoned
    BY <1>1, WalkGoesOn DEF Task
  <1>3. CASE WatchDir
    <2>1. walk' \in Seq(Task)
      BY <1>2, <1>3 DEF WatchDir
    <2>2. watch' = [watch EXCEPT ![d] = "live"] /\ ~AtCap
      BY <1>3 DEF WatchDir
    <2>3. Watched' = Watched \cup {d}
      BY <1>1, <2>2 DEF Watched, TypeOK
    <2>4. Cardinality(Watched') <= MaxWatches
      BY <1>1, <2>2, <2>3, FewWatches
    <2> QED
      BY <1>1, <1>3, <2>1, <2>2, <2>4 DEF WatchDir, TypeOK, Task, Watched, env, tree, queue
  <1>4. CASE WatchSkipped
    <2>1. walk' \in Seq(Task) /\ refused' \subseteq Dirs
      BY <1>1, <1>2, <1>4 DEF WatchSkipped, TypeOK
    <2>2. Watched' = Watched /\ Cardinality(Watched') <= MaxWatches
      BY <1>4, FewWatches DEF WatchSkipped, Watched
    <2> QED
      BY <1>4, <2>1, <2>2 DEF WatchSkipped, TypeOK, Task, Watched, env, tree, queue
  <1>5. CASE CallFails
    <2>1. walk' \in Seq(Task) /\ refused' \subseteq Dirs /\ faults' \in 0..MaxFaults
      BY <1>1, <1>2, <1>5, TreeAssumption DEF CallFails, TypeOK
    <2>2. Watched' = Watched /\ Cardinality(Watched') <= MaxWatches
      BY <1>5, FewWatches DEF CallFails, Watched
    <2> QED
      BY <1>5, <2>1, <2>2 DEF CallFails, TypeOK, Task, Watched, env, tree, queue
  <1>6. CASE ListDir
    <2>1. PICK kids \in SetToSeqs(Kids(d) \cap present) :
             walk' = [i \in DOMAIN kids |-> [dir |-> kids[i], mark |-> Head(walk).mark, at |-> 1]] \o Continued
      BY <1>6 DEF ListDir
    <2>2. walk' \in Seq(Task)
      <3> DEFINE K == Kids(d) \cap present
                 s == [i \in DOMAIN kids |-> [dir |-> kids[i], mark |-> Head(walk).mark, at |-> 1]]
      <3>1. K \in SUBSET Dirs /\ kids \in SetToSeqs(K)
        BY DEF Kids
      <3> HIDE DEF K
      <3>2. s \in Seq(Task)
        BY <1>1, <3>1, Listed
      <3> HIDE DEF s
      <3>3. s \o Continued \in Seq(Task)
        BY <1>2, <3>2, Concatenated
      <3> QED
        BY <2>1, <3>3 DEF s
    <2>3. Marked(Head(walk)) \subseteq Dirs
      BY <1>1 DEF Marked
    <2>4. pending' \subseteq Dirs /\ timer' \in BOOLEAN
      BY <1>6, <2>3 DEF ListDir, HandleChange, Scheduled, TypeOK
    <2>5. Watched' = Watched /\ Cardinality(Watched') <= MaxWatches
      BY <1>6, FewWatches DEF ListDir, Watched
    <2> QED
      BY <1>6, <2>2, <2>4, <2>5 DEF ListDir, TypeOK, Task, Watched, env, tree
  <1> QED
    BY <1>3, <1>4, <1>5, <1>6 DEF Walk

\* The handlers of events, timers and errors keep the types.
LEMMA TypesOfHandlers ==
  ASSUME TypeOK, HandleDirEvent \/ (\E d \in Dirs : WatchError(d)) \/ Flush \/ CatchUp \/ Restart
  PROVE  TypeOK'
  <1>1. CASE HandleDirEvent
    <2>1. Head(events) \in Event /\ Tail(events) \in Seq(Event)
      BY <1>1, HeadAndTail DEF HandleDirEvent, TypeOK
    <2>2. walk' \in Seq(Task)
      <3>1. CASE walk' = <<>>
        BY <3>1
      <3>2. CASE walk' = <<[dir |-> Head(events).dir, mark |-> TRUE, at |-> 1]>>
        <4>1. [dir |-> Head(events).dir, mark |-> TRUE, at |-> 1] \in Task
          BY <2>1 DEF Event, Task
        <4> QED
          BY <3>2, <4>1, ShortSequences
      <3> QED
        BY <1>1, <3>1, <3>2 DEF HandleDirEvent
    <2>3. pending' \subseteq Dirs /\ timer' \in BOOLEAN
      BY <1>1, <2>1 DEF HandleDirEvent, HandleChange, Scheduled, TypeOK, Event
    <2>4. Watched' = Watched /\ Cardinality(Watched') <= MaxWatches
      BY <1>1, FewWatches DEF HandleDirEvent, Watched
    <2> QED
      BY <1>1, <2>1, <2>2, <2>3, <2>4 DEF HandleDirEvent, TypeOK, Task, Watched, env, tree
  <1>2. ASSUME NEW d \in Dirs, WatchError(d) PROVE TypeOK'
    <2>1. events' \in Seq(Event)
      BY <1>2, Closed DEF WatchError, TypeOK
    <2>2. watch' = [watch EXCEPT ![d] = "none"]
      BY <1>2 DEF WatchError
    <2>3. Watched' \subseteq Watched
      BY <2>2 DEF Watched, TypeOK
    <2>4. Cardinality(Watched') <= MaxWatches
      BY <2>3, FewWatches
    <2>5. refused' \subseteq Dirs /\ unseen' \subseteq Dirs /\ faults' \in 0..MaxFaults
      BY <1>2, TreeAssumption DEF WatchError, TypeOK
    <2> QED
      BY <1>2, <2>1, <2>2, <2>4, <2>5 DEF WatchError, TypeOK, Watched, env, tree, queue
  <1>3. CASE Flush \/ CatchUp
    <2>1. Watched' = Watched /\ Cardinality(Watched') <= MaxWatches
      BY <1>3, FewWatches DEF Flush, CatchUp, Sync, Watched
    <2> QED
      BY <1>3, <2>1 DEF Flush, CatchUp, Sync, TypeOK, Watched, env, tree, queue
  <1>4. CASE Restart
    <2>1. walk' \in Seq(Task) /\ events' \in Seq(Event)
      <3>1. [dir |-> Root, mark |-> FALSE, at |-> 1] \in Task
        BY TreeAssumption DEF Task
      <3> QED
        BY <1>4, <3>1, ShortSequences DEF Restart
    <2>2. Watched' = {}
      BY <1>4 DEF Restart, Watched
    <2>3. Cardinality(Watched') <= MaxWatches
      BY <2>2, FewWatches
    <2>4. faults' \in 0..MaxFaults
      BY <1>4, TreeAssumption DEF Restart, TypeOK
    <2> QED
      BY <1>4, <2>1, <2>2, <2>3, <2>4 DEF Restart, TypeOK, Task, Watched, env, tree
  <1> QED
    BY <1>1, <1>2, <1>3, <1>4

\* Every step is one of those.
LEMMA Steps ==
  ASSUME [Next]_vars
  PROVE  \/ UNCHANGED vars
         \/ \E d \in Dirs : (\E c \in Contents \cup {Absent} : Write(d, c)) \/ Appear(d) \/ Disappear(d)
         \/ Walk \/ CallFails
         \/ HandleDirEvent \/ (\E d \in Dirs : WatchError(d)) \/ Flush \/ CatchUp \/ Restart
  BY DEF Next

\* Every step keeps the types: of the watches there are never more than maxDirWatches.
LEMMA TypesKept == TypeOK /\ [Next]_vars => TypeOK'
  <1> SUFFICES ASSUME TypeOK, [Next]_vars PROVE TypeOK'
    OBVIOUS
  <1>1. CASE UNCHANGED vars
    BY <1>1 DEF vars, env, tree, queue, TypeOK
  <1> QED
    BY <1>1, Steps, TypesOfEnvironment, TypesOfWalk, TypesOfHandlers

\* The types hold for every tree, limit of watches and number of changes and faults.
THEOREM TypeCorrect == Spec => []TypeOK
  BY TypesInit, TypesKept, PTL DEF Spec

-----------------------------------------------------------------------------
(* What the stack and the queue hold after each step. *)

\* Other processes do not touch the stack, and what they do is reported to the watch of the directory it was done in.
LEMMA EnvironmentSets ==
  ASSUME TypeOK, NEW d \in Dirs
  PROVE  /\ \A c : Write(d, c) => /\ Tasks' = Tasks
                                  /\ Reported' = IF watch[d] = "live"
                                                 THEN Reported \cup {[what |-> "file", dir |-> d]} ELSE Reported
         /\ Appear(d) \/ Disappear(d) =>
               /\ Tasks' = Tasks
               /\ Reported' = IF watch[Parent[d]] = "live"
                              THEN Reported \cup {[what |-> "dir", dir |-> d]} ELSE Reported
  <1>1. [what |-> "file", dir |-> d] \in Event /\ [what |-> "dir", dir |-> d] \in Event
    BY DEF Event
  <1>2. ASSUME NEW c, Write(d, c)
        PROVE  /\ Tasks' = Tasks
               /\ Reported' = IF watch[d] = "live"
                              THEN Reported \cup {[what |-> "file", dir |-> d]} ELSE Reported
    <2>1. events' = Report(d, [what |-> "file", dir |-> d]) /\ walk' = walk
      BY <1>2 DEF Write
    <2> QED
      BY <1>1, <2>1, Reports DEF Tasks, ToSet
  <1>3. ASSUME Appear(d) \/ Disappear(d)
        PROVE  /\ Tasks' = Tasks
               /\ Reported' = IF watch[Parent[d]] = "live"
                              THEN Reported \cup {[what |-> "dir", dir |-> d]} ELSE Reported
    <2>1. events' = Report(Parent[d], [what |-> "dir", dir |-> d]) /\ walk' = walk
      BY <1>3 DEF Appear, Disappear
    <2>2. Parent[d] \in Dirs
      BY <1>3, TreeAssumption DEF Appear, Disappear
    <2> QED
      BY <1>1, <2>1, <2>2, Reports DEF Tasks, ToSet
  <1> QED
    BY <1>2, <1>3

\* A step of the walk replaces the task it is at by what comes of it.
LEMMA WalkSets ==
  ASSUME TypeOK, Walk \/ CallFails
  PROVE  /\ Head(walk) \in Task
         /\ Tasks = {Head(walk)} \cup ToSet(Abandoned)
         /\ Reported' = Reported
         /\ WatchDir => Head(walk).at = 1 /\ Tasks' = {[Head(walk) EXCEPT !.at = 2]} \cup ToSet(Abandoned)
         /\ WatchSkipped => Head(walk).at = 1 /\ Tasks' = ToSet(Abandoned)
         /\ CallFails => Tasks' = ToSet(Abandoned)
         /\ ListDir => /\ Head(walk).at = 2
                       /\ Tasks' = {[dir |-> k, mark |-> Head(walk).mark, at |-> 1] :
                                       k \in Kids(Head(walk).dir) \cap present} \cup ToSet(Abandoned)
  <1>1. walk # <<>>
    BY DEF Walk, WatchDir, WatchSkipped, ListDir, CallFails, Doing
  <1>2. Reported' = Reported
    BY DEF Walk, WatchDir, WatchSkipped, ListDir, CallFails, Reported, ToSet
  <1>3. Tasks' = ToSet(walk')
    BY DEF Tasks, ToSet
  <1>4. ASSUME WatchDir
        PROVE Head(walk).at = 1 /\ Tasks' = {[Head(walk) EXCEPT !.at = 2]} \cup ToSet(Abandoned)
    BY <1>1, <1>3, <1>4, WalkGoesOn DEF WatchDir
  <1>5. WatchSkipped => Head(walk).at = 1 /\ Tasks' = ToSet(Abandoned)
    BY <1>1, <1>3, WalkGoesOn DEF WatchSkipped
  <1>6. CallFails => Tasks' = ToSet(Abandoned)
    BY <1>3 DEF CallFails
  <1>7. ASSUME ListDir
        PROVE  /\ Head(walk).at = 2
               /\ Tasks' = {[dir |-> k, mark |-> Head(walk).mark, at |-> 1] :
                               k \in Kids(Head(walk).dir) \cap present} \cup ToSet(Abandoned)
    <2>1. Head(walk).at = 2 /\ Continued = Abandoned /\ Abandoned \in Seq(Task) /\ Head(walk).mark \in BOOLEAN
      BY <1>1, <1>7, WalkGoesOn DEF ListDir, Task
    <2> DEFINE K == Kids(Head(walk).dir) \cap present
    <2>2. PICK kids \in SetToSeqs(K) :
             walk' = [i \in DOMAIN kids |-> [dir |-> kids[i], mark |-> Head(walk).mark, at |-> 1]] \o Continued
      BY <1>7 DEF ListDir
    <2>3. K \in SUBSET Dirs
      BY DEF Kids
    <2> HIDE DEF K
    <2> DEFINE s == [i \in DOMAIN kids |-> [dir |-> kids[i], mark |-> Head(walk).mark, at |-> 1]]
    <2>4. s \in Seq(Task) /\ ToSet(s) = {[dir |-> k, mark |-> Head(walk).mark, at |-> 1] : k \in K}
      BY <2>1, <2>3, Listed
    <2> HIDE DEF s
    <2>5. ToSet(s \o Abandoned) = ToSet(s) \cup ToSet(Abandoned)
      BY <2>1, <2>4, Concatenated
    <2>6. Tasks' = ToSet(s) \cup ToSet(Abandoned)
      BY <1>3, <2>1, <2>2, <2>5 DEF s
    <2> QED
      BY <2>1, <2>4, <2>6 DEF K
  <1> QED
    BY <1>1, <1>2, <1>4, <1>5, <1>6, <1>7, WalkGoesOn

\* The other handlers run when the stack is empty.
LEMMA HandlerSets ==
  ASSUME TypeOK
  PROVE  /\ HandleDirEvent =>
               /\ Head(events) \in Event
               /\ Reported = {Head(events)} \cup Reported'
               /\ Tasks = {}
               /\ Tasks' = IF Head(events).what = "dir" /\ Head(events).dir \in present
                           THEN {[dir |-> Head(events).dir, mark |-> TRUE, at |-> 1]} ELSE {}
         /\ \A d \in Dirs : WatchError(d) =>
               /\ Tasks = {} /\ Tasks' = {}
               /\ \A e \in Reported' : e \in Reported \/ e.what = "lost"
               /\ \A e \in Reported : d # Reporter(e) => e \in Reported'
               /\ [what |-> "file", dir |-> d] \notin Reported'
         /\ Flush \/ CatchUp => Tasks = {} /\ Tasks' = {} /\ Reported' = Reported
         /\ Restart => Reported' = {} /\ Tasks' = {[dir |-> Root, mark |-> FALSE, at |-> 1]}
  <1>1. events \in Seq(Event) /\ ToSet(<<>>) = {}
    BY DEF TypeOK, ToSet
  <1>2. Tasks' = ToSet(walk') /\ Reported' = ToSet(events')
    BY DEF Tasks, Reported, ToSet
  <1>3. ASSUME HandleDirEvent
        PROVE  /\ Head(events) \in Event
               /\ Reported = {Head(events)} \cup Reported'
               /\ Tasks = {}
               /\ Tasks' = IF Head(events).what = "dir" /\ Head(events).dir \in present
                           THEN {[dir |-> Head(events).dir, mark |-> TRUE, at |-> 1]} ELSE {}
    <2>1. Head(events) \in Event /\ ToSet(events) = {Head(events)} \cup ToSet(Tail(events))
      BY <1>1, <1>3, HeadAndTail DEF HandleDirEvent
    <2>2. Reported = {Head(events)} \cup Reported' /\ Tasks = {}
      BY <1>1, <1>2, <1>3, <2>1 DEF HandleDirEvent, Reported, Tasks
    <2>3. CASE Head(events).what = "dir" /\ Head(events).dir \in present
      <3>1. [dir |-> Head(events).dir, mark |-> TRUE, at |-> 1] \in Task
        BY <2>1 DEF Event, Task
      <3>2. walk' = <<[dir |-> Head(events).dir, mark |-> TRUE, at |-> 1]>>
        BY <1>3, <2>3 DEF HandleDirEvent
      <3>3. ToSet(walk') = {[dir |-> Head(events).dir, mark |-> TRUE, at |-> 1]}
        BY <3>1, <3>2, ShortSequences
      <3> QED
        BY <1>2, <2>1, <2>2, <2>3, <3>3
    <2>4. CASE ~(Head(events).what = "dir" /\ Head(events).dir \in present)
      <3>1. walk' = <<>>
        BY <1>3, <2>4 DEF HandleDirEvent
      <3> QED
        BY <1>1, <1>2, <2>1, <2>2, <2>4, <3>1
    <2> QED
      BY <2>3, <2>4
  <1>4. ASSUME NEW d \in Dirs, WatchError(d)
        PROVE  /\ Tasks = {} /\ Tasks' = {}
               /\ \A e \in Reported' : e \in Reported \/ e.what = "lost"
               /\ \A e \in Reported : d # Reporter(e) => e \in Reported'
               /\ [what |-> "file", dir |-> d] \notin Reported'
    <2>1. Tasks = {} /\ Tasks' = {}
      BY <1>1, <1>2, <1>4 DEF WatchError, Tasks
    <2>2. events' = [i \in DOMAIN events |-> IF d = Reporter(events[i])
                                             THEN [what |-> "lost", dir |-> events[i].dir] ELSE events[i]]
      BY <1>4 DEF WatchError
    <2>3. /\ \A e \in ToSet(events') : e \in ToSet(events) \/ e.what = "lost"
          /\ \A e \in ToSet(events) : d # Reporter(e) => e \in ToSet(events')
          /\ [what |-> "file", dir |-> d] \notin ToSet(events')
      BY <1>1, <2>2, Closed
    <2> QED
      BY <1>2, <2>1, <2>3 DEF Reported
  <1>5. Flush \/ CatchUp => Tasks = {} /\ Tasks' = {} /\ Reported' = Reported
    BY <1>1, <1>2 DEF Flush, CatchUp, Sync, Tasks, Reported
  <1>6. ASSUME Restart PROVE Reported' = {} /\ Tasks' = {[dir |-> Root, mark |-> FALSE, at |-> 1]}
    <2>1. [dir |-> Root, mark |-> FALSE, at |-> 1] \in Task
      BY TreeAssumption DEF Task
    <2> QED
      BY <1>1, <1>2, <1>6, <2>1, ShortSequences DEF Restart
  <1> QED
    BY <1>3, <1>4, <1>5, <1>6

-----------------------------------------------------------------------------
(* The tree and its watches, the events and the marks. *)

\* The root is below no other directory.
LEMMA RootIsAbove == ASSUME NEW d \in Dirs \ {Root} PROVE Root \notin Below[d]
  <1>1. \A e \in Dirs \ {Root} : Kids(e) \subseteq Dirs \ {Root}
    BY DEF Kids
  <1> QED
    BY <1>1, BelowIsLeast

\* start() has watched and reported nothing.
LEMMA GroundedInit == Init => Grounded
  <1> SUFFICES ASSUME Init PROVE Grounded
    OBVIOUS
  <1>1. Reported = {}
    BY DEF Init, Reported, ToSet
  <1>2. catchup
    BY DEF Init
  <1>3. TreeGrounded
    BY DEF Init, TreeGrounded
  <1> QED
    BY <1>1, <1>2, <1>3 DEF Grounded, EventsGrounded, UnmarkedCaughtUp

\* Directories come into directories that are there, and go with all that is below them and its watches.
LEMMA TreeGroundedKept ==
  ASSUME TypeOK, TreeGrounded, [Next]_vars
  PROVE  TreeGrounded'
  <1>0. CASE UNCHANGED vars
    BY <1>0 DEF vars, env, tree, TreeGrounded
  <1>1. ASSUME NEW d \in Dirs, NEW c \in Contents \cup {Absent}, Write(d, c) PROVE TreeGrounded'
    BY <1>1 DEF Write, TreeGrounded, TypeOK
  <1>2. ASSUME NEW d \in Dirs, Appear(d) PROVE TreeGrounded'
    <2>1. d \notin present /\ d # Root /\ Parent[d] \in present /\ watch' = watch
      BY <1>2 DEF Appear
    <2>2. PICK with \in SUBSET Below[d] :
             /\ d \in with /\ \A c \in with \ {d} : Parent[c] \in with
             /\ present' = present \cup with
             /\ content' \in {f \in [Dirs -> Contents \cup {Absent}] : \A c \in Dirs \ with : f[c] = content[c]}
      BY <1>2 DEF Appear
    <2>3. \A c \in Dirs \ present' : content'[c] = Absent
      BY <2>2 DEF TreeGrounded
    <2>4. \A c \in present' \ {Root} : Parent[c] \in present'
      BY <2>1, <2>2 DEF TreeGrounded
    <2> QED
      BY <2>1, <2>2, <2>3, <2>4 DEF TreeGrounded
  <1>3. ASSUME NEW d \in Dirs, Disappear(d) PROVE TreeGrounded'
    <2>1. /\ d # Root
          /\ present' = present \ Below[d]
          /\ content' = [c \in Dirs |-> IF c \in Below[d] THEN Absent ELSE content[c]]
          /\ watch' = [c \in Dirs |-> IF c \in Below[d] /\ watch[c] = "live" THEN "dead" ELSE watch[c]]
      BY <1>3 DEF Disappear
    <2>2. Root \notin Below[d]
      BY <2>1, RootIsAbove
    <2>3. ASSUME NEW c \in present' \ {Root} PROVE Parent[c] \notin Below[d]
      <3>1. c \in Kids(Parent[c])
        BY <2>1, <2>3 DEF Kids, TypeOK
      <3> QED
        BY <2>1, <2>3, <3>1, BelowIsLeast
    <2>4. \A c \in Dirs : watch'[c] = "live" => c \in present'
      BY <2>1 DEF TreeGrounded
    <2>5. \A c \in Dirs \ present' : content'[c] = Absent
      BY <2>1 DEF TreeGrounded
    <2> QED
      BY <2>1, <2>2, <2>3, <2>4, <2>5 DEF TreeGrounded
  <1>4. CASE WatchDir
    <2>1. Head(walk).dir \in present /\ watch' = [watch EXCEPT ![Head(walk).dir] = "live"]
      BY <1>4 DEF WatchDir
    <2>2. UNCHANGED <<present, content>>
      BY <1>4 DEF WatchDir, env, tree
    <2> QED
      BY <2>1, <2>2 DEF TreeGrounded, TypeOK
  <1>5. CASE WatchSkipped \/ ListDir \/ CallFails \/ HandleDirEvent \/ Flush \/ CatchUp
    <2>1. UNCHANGED <<present, content, watch>>
      BY <1>5 DEF WatchSkipped, ListDir, CallFails, HandleDirEvent, Flush, CatchUp, Sync, env, tree
    <2> QED
      BY <2>1 DEF TreeGrounded
  <1>6. ASSUME NEW d \in Dirs, WatchError(d) PROVE TreeGrounded'
    <2>1. UNCHANGED <<present, content>> /\ watch' = [watch EXCEPT ![d] = "none"]
      BY <1>6 DEF WatchError, env, tree
    <2> QED
      BY <2>1 DEF TreeGrounded, TypeOK
  <1>7. CASE Restart
    <2>1. UNCHANGED <<present, content>> /\ watch' = [d \in Dirs |-> "none"]
      BY <1>7 DEF Restart, env, tree
    <2> QED
      BY <2>1 DEF TreeGrounded
  <1> QED
    BY <1>0, <1>1, <1>2, <1>3, <1>4, <1>5, <1>6, <1>7, Steps DEF Walk

\* The root does not come or go.
LEMMA EventsGroundedKept ==
  ASSUME TypeOK, EventsGrounded, [Next]_vars
  PROVE  EventsGrounded'
  <1>0. CASE UNCHANGED vars
    BY <1>0 DEF vars, EventsGrounded, Reported, ToSet
  <1>1. ASSUME NEW d \in Dirs, NEW c \in Contents \cup {Absent}, Write(d, c) PROVE EventsGrounded'
    BY <1>1, EnvironmentSets DEF EventsGrounded
  <1>2. ASSUME NEW d \in Dirs, Appear(d) \/ Disappear(d) PROVE EventsGrounded'
    <2>1. d # Root
      BY <1>2 DEF Appear, Disappear
    <2> QED
      BY <1>2, <2>1, EnvironmentSets DEF EventsGrounded
  <1>3. CASE Walk \/ CallFails
    BY <1>3, WalkSets DEF EventsGrounded
  <1>4. CASE HandleDirEvent \/ Flush \/ CatchUp \/ Restart \/ \E d \in Dirs : WatchError(d)
    BY <1>4, HandlerSets DEF EventsGrounded
  <1> QED
    BY <1>0, <1>1, <1>2, <1>3, <1>4, Steps

\* The catch-up does not come before the walk of start() is over.
LEMMA UnmarkedKept ==
  ASSUME TypeOK, UnmarkedCaughtUp, [Next]_vars
  PROVE  UnmarkedCaughtUp'
  <1>0. CASE UNCHANGED vars
    BY <1>0 DEF vars, UnmarkedCaughtUp, Tasks, ToSet
  <1>1. ASSUME NEW d \in Dirs, (\E c \in Contents \cup {Absent} : Write(d, c)) \/ Appear(d) \/ Disappear(d)
        PROVE  UnmarkedCaughtUp'
    <2>1. catchup' = catchup
      BY <1>1 DEF Write, Appear, Disappear
    <2> QED
      BY <1>1, <2>1, EnvironmentSets DEF UnmarkedCaughtUp
  <1>2. CASE Walk \/ CallFails
    <2>1. catchup' = catchup
      BY <1>2 DEF Walk, WatchDir, WatchSkipped, ListDir, CallFails
    <2>2. Head(walk).mark \/ catchup
      BY <1>2, WalkSets DEF UnmarkedCaughtUp
    <2>3. \A task \in ToSet(Abandoned) : task.mark \/ catchup
      BY <1>2, WalkSets DEF UnmarkedCaughtUp
    <2>4. [Head(walk) EXCEPT !.at = 2].mark = Head(walk).mark
      BY <1>2, WalkSets DEF Task
    <2>5. ASSUME NEW task \in Tasks' PROVE task.mark \/ catchup
      <3>1. CASE task \in ToSet(Abandoned)
        BY <2>3, <3>1
      <3>2. CASE task = [Head(walk) EXCEPT !.at = 2]
        BY <2>2, <2>4, <3>2
      <3>3. CASE task \in {[dir |-> k, mark |-> Head(walk).mark, at |-> 1] : k \in Kids(Head(walk).dir) \cap present}
        BY <2>2, <3>3
      <3> QED
        BY <1>2, <2>5, <3>1, <3>2, <3>3, WalkSets DEF Walk
    <2> QED
      BY <2>1, <2>5 DEF UnmarkedCaughtUp
  <1>3. CASE HandleDirEvent
    BY <1>3, HandlerSets DEF UnmarkedCaughtUp
  <1>5. CASE Flush \/ CatchUp \/ \E d \in Dirs : WatchError(d)
    <2>1. Tasks' = {}
      BY <1>5, HandlerSets
    <2> QED
      BY <2>1 DEF UnmarkedCaughtUp
  <1>4. CASE Restart
    BY <1>4 DEF Restart, UnmarkedCaughtUp
  <1> QED
    BY <1>0, <1>1, <1>2, <1>3, <1>4, <1>5, Steps

-----------------------------------------------------------------------------
(* The inductive invariant. *)

\* What a step of the walk promised to do is done, or promised on.
LEMMA WalkPromises ==
  ASSUME TypeOK, Walk \/ CallFails, NEW d, d = Head(walk).dir
  PROVE  /\ d \in Dirs
         /\ \A c \in Dirs :
              /\ ToWatch(c) => ToWatch(c)' \/ (d = c /\ Head(walk).at = 1)
              /\ ToList(c) => ToList(c)' \/ (d = c /\ Head(walk).at = 2)
              /\ ToMark(c) => ToMark(c)' \/ (d = c /\ Head(walk).at = 2 /\ Head(walk).mark)
         /\ WatchDir => ToList(d)' /\ (Head(walk).mark => ToMark(d)')
         /\ ListDir => \A k \in Kids(d) \cap present : ToWatch(k)'
  <1>1. /\ Head(walk) \in Task /\ Tasks = {Head(walk)} \cup ToSet(Abandoned)
        /\ Reported' = Reported /\ ToSet(Abandoned) \subseteq Tasks'
    BY WalkSets DEF Walk
  <1>2. ASSUME NEW c \in Dirs, ToWatch(c)
        PROVE  ToWatch(c)' \/ (d = c /\ Head(walk).at = 1)
    BY <1>1, <1>2 DEF ToWatch
  <1>3. ASSUME NEW c \in Dirs, ToList(c)
        PROVE  ToList(c)' \/ (d = c /\ Head(walk).at = 2)
    BY <1>1, <1>3 DEF ToList
  <1>4. ASSUME NEW c \in Dirs, ToMark(c)
        PROVE  ToMark(c)' \/ (d = c /\ Head(walk).at = 2 /\ Head(walk).mark)
    BY <1>1, <1>4 DEF ToMark
  <1>5. ASSUME WatchDir PROVE ToList(d)' /\ (Head(walk).mark => ToMark(d)')
    <2> DEFINE next == [Head(walk) EXCEPT !.at = 2]
    <2>1. next \in Tasks'
      BY <1>5, WalkSets
    <2>2. next.dir = Head(walk).dir /\ next.at = 2 /\ next.mark = Head(walk).mark
      BY <1>1 DEF Task
    <2> HIDE DEF next
    <2> QED
      BY <2>1, <2>2 DEF ToList, ToMark
  <1>6. ASSUME ListDir, NEW k \in Kids(d) \cap present PROVE ToWatch(k)'
    <2>1. [dir |-> k, mark |-> Head(walk).mark, at |-> 1] \in Tasks'
      BY <1>6, WalkSets
    <2> QED
      BY <2>1 DEF ToWatch
  <1> QED
    BY <1>1, <1>2, <1>3, <1>4, <1>5, <1>6 DEF Task

\* start(): the root is to be watched, and everything else comes after it.
LEMMA ComesInit == Init => WatchComes /\ ChangeComes
  <1> SUFFICES ASSUME Init PROVE WatchComes /\ ChangeComes
    OBVIOUS
  <1>1. ToWatch(Root)
    <2>1. [dir |-> Root, mark |-> FALSE, at |-> 1] \in Task
      BY TreeAssumption DEF Task
    <2>2. [dir |-> Root, mark |-> FALSE, at |-> 1] \in Tasks
      BY <2>1, ShortSequences DEF Init, Tasks
    <2> QED
      BY <2>2 DEF ToWatch
  <1>2. \A d \in present \ {Root} : AboveFirst(d)
    <2>1. \A d \in present \ {Root} : watch[Parent[d]] # "live"
      BY TreeAssumption DEF Init
    <2> QED
      BY <2>1 DEF AboveFirst
  <1>3. catchup
    BY DEF Init
  <1> QED
    BY <1>1, <1>2, <1>3 DEF WatchComes, ChangeComes

\* Who is reported or on the stack stays so while other processes are at work.
LEMMA EnvironmentPromises ==
  ASSUME TypeOK, NEW d \in Dirs, (\E c \in Contents \cup {Absent} : Write(d, c)) \/ Appear(d) \/ Disappear(d)
  PROVE  \A c : /\ ToWatch(c) => ToWatch(c)'
                /\ ToList(c) => ToList(c)'
                /\ ToMark(c) => ToMark(c)'
                /\ [what |-> "file", dir |-> c] \in Reported => [what |-> "file", dir |-> c] \in Reported'
  <1>1. Tasks' = Tasks /\ Reported \subseteq Reported'
    BY EnvironmentSets
  <1> QED
    BY <1>1 DEF ToWatch, ToList, ToMark

\* What is there and not watched stays on the way to a watch, whatever comes, goes or fails.
LEMMA WatchComesKept ==
  ASSUME TypeOK, Grounded, WatchComes, [Next]_vars
  PROVE  WatchComes'
  <1> USE DEF AboveFirst
  <1>0. CASE UNCHANGED vars
    BY <1>0 DEF vars, env, tree, queue, WatchComes, ToWatch, ToList, Tasks, Reported, ToSet
  <1>1. ASSUME NEW d \in Dirs, NEW c \in Contents \cup {Absent}, Write(d, c) PROVE WatchComes'
    <2>1. UNCHANGED <<present, watch, refused>>
      BY <1>1 DEF Write
    <2> QED
      BY <1>1, <2>1, EnvironmentPromises DEF WatchComes
  <1>2. ASSUME NEW d \in Dirs, Appear(d) PROVE WatchComes'
    <2>1. /\ d \notin present /\ d # Root /\ Parent[d] \in present /\ Parent[d] \in Dirs
          /\ UNCHANGED <<watch, refused>>
      BY <1>2, TreeAssumption DEF Appear
    <2>2. PICK with \in SUBSET Below[d] :
             d \in with /\ (\A c \in with \ {d} : Parent[c] \in with) /\ present' = present \cup with
      BY <1>2 DEF Appear
    <2>3. watch[Parent[d]] = "live" => ToWatch(d)'
      BY <1>2, EnvironmentSets DEF ToWatch
    <2>4. ASSUME NEW c \in with \ {d} PROVE c # Root /\ watch[Parent[c]] # "live"
      <3>1. Parent[c] \notin present
        BY <2>1, <2>2, <2>4, NothingBelow DEF Grounded
      <3>2. Parent[c] \in Dirs /\ c # Root
        BY <2>1, <2>2, <2>4, BelowIsLeast, RootIsAbove
      <3> QED
        BY <3>1, <3>2 DEF Grounded, TreeGrounded
    <2>5. ASSUME NEW c \in present PROVE watch[c] \in {"live", "dead"} \/ c \in refused \/ ToWatch(c)' \/ AboveFirst(c)'
      BY <1>2, <2>1, <2>5, EnvironmentPromises DEF WatchComes
    <2> QED
      BY <2>1, <2>2, <2>3, <2>4, <2>5 DEF WatchComes
  <1>3. ASSUME NEW d \in Dirs, Disappear(d) PROVE WatchComes'
    <2>1. /\ present' = present \ Below[d] /\ refused' = refused
          /\ watch' = [c \in Dirs |-> IF c \in Below[d] /\ watch[c] = "live" THEN "dead" ELSE watch[c]]
      BY <1>3 DEF Disappear
    <2>2. ASSUME NEW c \in present'
          PROVE  watch'[c] \in {"live", "dead"} \/ c \in refused' \/ ToWatch(c)' \/ AboveFirst(c)'
      <3>1. c \in Dirs /\ watch'[c] = watch[c]
        BY <2>1, <2>2 DEF TypeOK
      <3>2. c # Root /\ watch[Parent[c]] # "live" => watch'[Parent[c]] # "live"
        BY <2>1, <3>1, TreeAssumption
      <3> QED
        BY <1>3, <2>1, <2>2, <3>1, <3>2, EnvironmentPromises DEF WatchComes
    <2> QED
      BY <2>2 DEF WatchComes
  <1>4. CASE WatchDir
    <2> DEFINE d == Head(walk).dir
    <2>1. /\ watch' = [watch EXCEPT ![d] = "live"] /\ refused' = refused \ {d} /\ present' = present
      BY <1>4 DEF WatchDir, env, tree
    <2>2. PICK h \in Dirs : h = Head(walk).dir /\ ToList(h)'
      BY <1>4, WalkPromises DEF Walk
    <2> HIDE DEF d
    <2>3. ASSUME NEW c \in present
          PROVE  watch'[c] \in {"live", "dead"} \/ c \in refused' \/ ToWatch(c)' \/ AboveFirst(c)'
      <3>1. CASE c = h
        BY <2>1, <2>2, <3>1 DEF TypeOK, d
      <3>2. CASE c # h
        <4>1. c \in Dirs /\ watch'[c] = watch[c] /\ (c \in refused => c \in refused')
          BY <2>1, <2>2, <3>2 DEF TypeOK, d
        <4>2. ToWatch(c) => ToWatch(c)'
          BY <1>4, <2>2, <3>2, <4>1, WalkPromises DEF Walk
        <4>3. ASSUME AboveFirst(c), Parent[c] # h PROVE AboveFirst(c)'
          <5>1. Parent[c] \in Dirs
            BY <4>1, <4>3, TreeAssumption
          <5>2. ToList(Parent[c]) => ToList(Parent[c])'
            BY <1>4, <2>2, <4>3, <5>1, WalkPromises DEF Walk
          <5> QED
            BY <2>1, <2>2, <4>3, <5>1, <5>2 DEF TypeOK, d
        <4>4. AboveFirst(c) /\ Parent[c] = h => AboveFirst(c)'
          BY <2>2
        <4> QED
          BY <2>3, <4>1, <4>2, <4>3, <4>4 DEF WatchComes
      <3> QED
        BY <3>1, <3>2
    <2> QED
      BY <2>1, <2>3 DEF WatchComes
  <1>5. CASE WatchSkipped \/ CallFails \/ ListDir
    <2> DEFINE d == Head(walk).dir
    <2>1. watch' = watch /\ refused \subseteq refused' /\ present' = present
      BY <1>5 DEF WatchSkipped, CallFails, ListDir, env, tree
    <2>2. d \in Dirs
      BY <1>5, WalkPromises DEF Walk
    <2>3. \/ d \in refused' \/ (WatchSkipped /\ Head(walk).at = 1 /\ (d \in present => watch[d] \in {"live", "dead"}))
          \/ ListDir /\ Head(walk).at = 2
      <3>1. (WatchSkipped => Head(walk).at = 1) /\ (ListDir => Head(walk).at = 2)
        BY WalkSets DEF Walk
      <3>2. CallFails => d \in refused'
        BY DEF CallFails
      <3>3. WatchSkipped => d \in refused' \/ (d \in present => watch[d] \in {"live", "dead"})
        BY <2>2 DEF WatchSkipped, Watched, TypeOK
      <3> QED
        BY <1>5, <3>1, <3>2, <3>3
    <2>4. ListDir => \A k \in Kids(d) \cap present : ToWatch(k)'
      BY WalkPromises DEF Walk
    <2> HIDE DEF d
    <2>5. ASSUME NEW c \in present
          PROVE  watch[c] \in {"live", "dead"} \/ c \in refused' \/ ToWatch(c)' \/ AboveFirst(c)'
      <3>1. c \in Dirs
        BY <2>5 DEF TypeOK
      <3>2. CASE ToWatch(c)
        BY <1>5, <2>1, <2>3, <2>5, <3>1, <3>2, WalkPromises DEF Walk, d
      <3>3. CASE AboveFirst(c)
        <4>1. Parent[c] \in Dirs /\ c # Root /\ c \in Kids(Parent[c])
          BY <3>1, <3>3, TreeAssumption DEF Kids
        <4>2. ToList(Parent[c]) => ToList(Parent[c])' \/ (Parent[c] = d /\ Head(walk).at = 2)
          BY <1>5, <4>1, WalkPromises DEF Walk, d
        <4>3. Parent[c] = d /\ Head(walk).at = 2 => d \in refused' \/ ToWatch(c)'
          BY <2>3, <2>4, <2>5, <4>1
        <4> QED
          BY <2>1, <3>3, <4>1, <4>2, <4>3
      <3> QED
        BY <2>1, <2>5, <3>2, <3>3 DEF WatchComes
    <2> QED
      BY <2>1, <2>5 DEF WatchComes
  <1>6. CASE HandleDirEvent
    <2>1. UNCHANGED <<present, watch, refused>>
      BY <1>6 DEF HandleDirEvent, env, tree
    <2>2. ASSUME NEW c \in present, ToWatch(c) PROVE ToWatch(c)'
      <3>1. [what |-> "dir", dir |-> c] \in Reported /\ ~(\E task \in Tasks : TRUE)
        BY <1>6, <2>2, HandlerSets DEF ToWatch
      <3>2. CASE Head(events) = [what |-> "dir", dir |-> c]
        <4>1. [dir |-> c, mark |-> TRUE, at |-> 1] \in Tasks'
          BY <1>6, <2>2, <3>2, HandlerSets
        <4> QED
          BY <4>1 DEF ToWatch
      <3>3. CASE Head(events) # [what |-> "dir", dir |-> c]
        BY <1>6, <3>1, <3>3, HandlerSets DEF ToWatch
      <3> QED
        BY <3>2, <3>3
    <2>3. \A c : ~ToList(c)
      BY <1>6, HandlerSets DEF ToList
    <2> QED
      BY <2>1, <2>2, <2>3 DEF WatchComes
  <1>7. ASSUME NEW d \in Dirs, WatchError(d) PROVE WatchComes'
    <2>1. /\ watch' = [watch EXCEPT ![d] = "none"] /\ refused' = refused \cup {d} /\ present' = present
      BY <1>7 DEF WatchError, env, tree
    <2>2. ASSUME NEW c \in present
          PROVE  watch'[c] \in {"live", "dead"} \/ c \in refused' \/ ToWatch(c)' \/ AboveFirst(c)'
      <3>1. c \in Dirs /\ (c # d => watch'[c] = watch[c]) /\ ~ToList(c)
        BY <1>7, <2>1, <2>2, HandlerSets DEF TypeOK, ToList
      <3>2. CASE ToWatch(c)
        <4>1. [what |-> "dir", dir |-> c] \in Reported
          BY <1>7, <3>2, HandlerSets DEF ToWatch
        <4>2. c # Root /\ Parent[c] \in Dirs
          BY <3>1, <4>1, TreeAssumption DEF Grounded, EventsGrounded
        <4>3. CASE Parent[c] = d
          BY <2>1, <4>2, <4>3 DEF TypeOK
        <4>4. CASE Parent[c] # d
          BY <1>7, <4>1, <4>4, HandlerSets DEF Reporter, ToWatch
        <4> QED
          BY <4>3, <4>4
      <3>3. CASE AboveFirst(c)
        <4>1. Parent[c] \in Dirs
          BY <3>1, <3>3, TreeAssumption
        <4>2. ~ToList(Parent[c])
          BY <1>7, HandlerSets DEF ToList
        <4> QED
          BY <2>1, <3>3, <4>1, <4>2 DEF TypeOK
      <3> QED
        BY <2>1, <2>2, <3>1, <3>2, <3>3 DEF WatchComes
    <2> QED
      BY <2>1, <2>2 DEF WatchComes
  <1>8. CASE Flush \/ CatchUp
    <2>1. UNCHANGED <<present, watch, refused>> /\ Tasks' = Tasks /\ Reported' = Reported
      BY <1>8, HandlerSets DEF Flush, CatchUp, Sync, env, tree
    <2> QED
      BY <2>1 DEF WatchComes, ToWatch, ToList
  <1>9. CASE Restart
    <2>1. present' = present /\ watch' = [d \in Dirs |-> "none"]
      BY <1>9 DEF Restart, env, tree
    <2>2. ToWatch(Root)'
      <3>1. [dir |-> Root, mark |-> FALSE, at |-> 1] \in Tasks'
        BY <1>9, HandlerSets
      <3> QED
        BY <3>1 DEF ToWatch
    <2>3. \A c \in present \ {Root} : watch'[Parent[c]] # "live"
      BY <2>1, TreeAssumption DEF TypeOK
    <2> QED
      BY <2>1, <2>2, <2>3 DEF WatchComes
  <1> QED
    BY <1>0, <1>1, <1>2, <1>3, <1>4, <1>5, <1>6, <1>7, <1>8, <1>9, Steps DEF Walk

\* What differs from the index stays on the way to it, unless nobody could see it go.
LEMMA ChangeComesKept ==
  ASSUME TypeOK, Grounded, ChangeComes, [Next]_vars
  PROVE  ChangeComes'
  <1> DEFINE Comes(c) == \/ content[c] = synced[c]
                         \/ c \in pending
                         \/ catchup
                         \/ [what |-> "file", dir |-> c] \in Reported
                         \/ IF content[c] = Absent THEN c \in unseen
                            ELSE watch[c] # "live" \/ c \in refused \/ ToMark(c)
  <1>0. CASE UNCHANGED vars
    BY <1>0 DEF vars, env, tree, queue, ChangeComes, ToMark, Tasks, Reported, ToSet
  <1>1. ASSUME NEW d \in Dirs, NEW c \in Contents \cup {Absent}, Write(d, c) PROVE ChangeComes'
    <2>1. /\ UNCHANGED <<synced, pending, catchup, watch, refused>>
          /\ content' = [content EXCEPT ![d] = c]
          /\ unseen' = IF c = Absent /\ watch[d] # "live" THEN unseen \cup {d} ELSE unseen
      BY <1>1 DEF Write, queue
    <2>2. watch[d] = "live" => [what |-> "file", dir |-> d] \in Reported'
      BY <1>1, EnvironmentSets
    <2>3. ASSUME NEW e \in Dirs PROVE Comes(e)'
      <3>1. CASE e = d
        BY <2>1, <2>2, <3>1 DEF TypeOK
      <3>2. CASE e # d
        <4>1. content'[e] = content[e] /\ unseen \subseteq unseen'
          BY <2>1, <2>3, <3>2 DEF TypeOK
        <4>2. Comes(e)
          BY DEF ChangeComes
        <4> QED
          BY <1>1, <2>1, <4>1, <4>2, EnvironmentPromises
      <3> QED
        BY <3>1, <3>2
    <2> QED
      BY <2>3 DEF ChangeComes
  <1>2. ASSUME NEW d \in Dirs, Appear(d) PROVE ChangeComes'
    <2>1. d \notin present /\ UNCHANGED <<synced, pending, catchup, watch, refused, unseen>>
      BY <1>2 DEF Appear, queue
    <2>2. PICK with \in SUBSET Below[d] : \A c \in Dirs \ with : content'[c] = content[c]
      BY <1>2 DEF Appear
    <2>3. ASSUME NEW e \in Dirs PROVE Comes(e)'
      <3>1. Comes(e)
        BY DEF ChangeComes
      <3>2. CASE e \in with
        <4>1. watch[e] # "live" /\ content[e] = Absent
          BY <2>1, <2>2, <3>2, NothingBelow DEF Grounded, TreeGrounded
        <4> QED
          BY <1>2, <2>1, <3>1, <4>1, EnvironmentPromises
      <3>3. CASE e \notin with
        BY <1>2, <2>1, <2>2, <3>1, <3>3, EnvironmentPromises
      <3> QED
        BY <3>2, <3>3
    <2> QED
      BY <2>3 DEF ChangeComes
  <1>3. ASSUME NEW d \in Dirs, Disappear(d) PROVE ChangeComes'
    <2>1. /\ UNCHANGED <<synced, pending, catchup, refused>>
          /\ content' = [c \in Dirs |-> IF c \in Below[d] THEN Absent ELSE content[c]]
          /\ watch' = [c \in Dirs |-> IF c \in Below[d] /\ watch[c] = "live" THEN "dead" ELSE watch[c]]
          /\ unseen' = unseen \cup {c \in Below[d] : content[c] # Absent}
      BY <1>3 DEF Disappear, queue
    <2>2. ASSUME NEW e \in Dirs PROVE Comes(e)'
      <3>1. Comes(e)
        BY DEF ChangeComes
      <3>2. CASE e \in Below[d]
        BY <1>3, <2>1, <3>1, <3>2, EnvironmentPromises
      <3>3. CASE e \notin Below[d]
        BY <1>3, <2>1, <3>1, <3>3, EnvironmentPromises
      <3> QED
        BY <3>2, <3>3
    <2> QED
      BY <2>2 DEF ChangeComes
  <1>4. CASE WatchDir
    <2>1. PICK h \in Dirs : h = Head(walk).dir /\ (Head(walk).mark => ToMark(h)')
      BY <1>4, WalkPromises DEF Walk
    <2>2. /\ UNCHANGED <<content, synced, pending, catchup, unseen>>
          /\ watch' = [watch EXCEPT ![h] = "live"] /\ refused' = refused \ {h}
      BY <1>4, <2>1 DEF WatchDir, env, tree, queue
    <2>3. Head(walk).mark \/ catchup
      BY <1>4, WalkSets DEF Walk, Grounded, UnmarkedCaughtUp
    <2>4. Reported' = Reported /\ Head(walk).at = 1
      BY <1>4, WalkSets DEF Walk
    <2>5. ASSUME NEW e \in Dirs PROVE Comes(e)'
      <3>1. Comes(e)
        BY DEF ChangeComes
      <3>2. CASE e = h
        BY <2>1, <2>2, <2>3, <2>4, <3>1, <3>2
      <3>3. CASE e # h
        <4>1. ToMark(e) => ToMark(e)'
          BY <1>4, <2>1, <2>4, WalkPromises DEF Walk
        <4>2. watch'[e] = watch[e]
          BY <2>2, <3>3 DEF TypeOK
        <4> QED
          BY <2>2, <2>4, <3>1, <3>3, <4>1, <4>2
      <3> QED
        BY <3>2, <3>3
    <2> QED
      BY <2>5 DEF ChangeComes
  <1>5. CASE WatchSkipped \/ CallFails \/ ListDir
    <2>1. PICK h \in Dirs : h = Head(walk).dir
      BY <1>5, WalkPromises DEF Walk
    <2>2. UNCHANGED <<content, synced, catchup, watch, unseen>> /\ refused \subseteq refused' /\ pending \subseteq pending'
      BY <1>5 DEF WatchSkipped, CallFails, ListDir, HandleChange, env, tree, queue
    <2>3. /\ Reported' = Reported
          /\ WatchSkipped => Head(walk).at = 1
          /\ ListDir => Head(walk).at = 2
      BY <1>5, WalkSets DEF Walk
    <2>4. CallFails => h \in refused'
      BY <2>1 DEF CallFails
    <2>5. ListDir /\ Head(walk).mark /\ content[h] # Absent => h \in pending'
      BY <2>1 DEF ListDir, HandleChange, Marked
    <2>6. ASSUME NEW e \in Dirs PROVE Comes(e)'
      <3>1. Comes(e)
        BY DEF ChangeComes
      <3>2. ToMark(e) => ToMark(e)' \/ (h = e /\ Head(walk).at = 2 /\ Head(walk).mark)
        BY <1>5, <2>1, WalkPromises DEF Walk
      <3> QED
        BY <1>5, <2>2, <2>3, <2>4, <2>5, <3>1, <3>2
    <2> QED
      BY <2>6 DEF ChangeComes
  <1>6. CASE HandleDirEvent
    <2>1. UNCHANGED <<content, synced, catchup, watch, refused, unseen>>
      BY <1>6 DEF HandleDirEvent, env, tree
    <2>2. /\ Reported = {Head(events)} \cup Reported' /\ Tasks = {}
      BY <1>6, HandlerSets
    <2>3. pending' = pending \cup {d \in {Head(events).dir} : Head(events).what = "file"}
      BY <1>6 DEF HandleDirEvent, HandleChange
    <2>4. ASSUME NEW e \in Dirs PROVE Comes(e)'
      <3>1. Comes(e) /\ ~ToMark(e)
        BY <2>2 DEF ChangeComes, ToMark
      <3>2. [what |-> "file", dir |-> e] = Head(events) => e \in pending'
        BY <2>3
      <3> QED
        BY <2>1, <2>2, <2>3, <3>1, <3>2
    <2> QED
      BY <2>4 DEF ChangeComes
  <1>7. ASSUME NEW d \in Dirs, WatchError(d) PROVE ChangeComes'
    <2>1. /\ UNCHANGED <<content, synced, pending, catchup>>
          /\ watch' = [watch EXCEPT ![d] = "none"] /\ refused' = refused \cup {d}
          /\ unseen' = IF content[d] = Absent /\ [what |-> "file", dir |-> d] \in Reported
                       THEN unseen \cup {d} ELSE unseen
      BY <1>7 DEF WatchError, env, tree, queue, Reported
    <2>2. ASSUME NEW e \in Dirs PROVE Comes(e)'
      <3>1. Comes(e) /\ ~ToMark(e)
        BY <1>7, HandlerSets DEF ChangeComes, ToMark
      <3>2. CASE e = d
        BY <2>1, <3>1, <3>2
      <3>3. CASE e # d
        <4>1. watch'[e] = watch[e] /\ unseen \subseteq unseen'
          BY <2>1, <3>3 DEF TypeOK
        <4>2. [what |-> "file", dir |-> e] \in Reported => [what |-> "file", dir |-> e] \in Reported'
          BY <1>7, <3>3, HandlerSets DEF Reporter
        <4> QED
          BY <2>1, <3>1, <4>1, <4>2
      <3> QED
        BY <3>2, <3>3
    <2> QED
      BY <2>2 DEF ChangeComes
  <1>8. CASE Flush \/ CatchUp
    BY <1>8 DEF Flush, CatchUp, Sync, env, tree, ChangeComes
  <1>9. CASE Restart
    BY <1>9 DEF Restart, ChangeComes
  <1> QED
    BY <1>0, <1>1, <1>2, <1>3, <1>4, <1>5, <1>6, <1>7, <1>8, <1>9, Steps DEF Walk

\* The conjunction of all that.
THEOREM Invariance == Spec => []IInv
  <1>1. Init => IInv
    BY TypesInit, GroundedInit, ComesInit DEF IInv
  <1>2. IInv /\ [Next]_vars => IInv'
    <2> SUFFICES ASSUME IInv, [Next]_vars PROVE IInv'
      OBVIOUS
    <2>1. TypeOK' /\ Grounded'
      BY TypesKept, TreeGroundedKept, EventsGroundedKept, UnmarkedKept DEF IInv, Grounded
    <2>2. WatchComes' /\ ChangeComes'
      BY WatchComesKept, ChangeComesKept DEF IInv
    <2> QED
      BY <2>1, <2>2 DEF IInv
  <1> QED
    BY <1>1, <1>2, PTL DEF Spec

-----------------------------------------------------------------------------
(* When nothing is left to do. *)

\* What is given up on takes with it all that is below.
LEMMA GivenUpBelow ==
  ASSUME NEW d \in Dirs \ {Root}, GivenUp(Parent[d])
  PROVE  GivenUp(d)
  <1>1. PICK a \in Above(Parent[d]) : a \in refused \/ watch[a] = "dead"
    BY DEF GivenUp
  <1>2. a \in Dirs /\ Parent[d] \in Below[a] /\ d \in Kids(Parent[d])
    BY <1>1 DEF Above, Kids
  <1>3. a \in Above(d)
    BY <1>2, BelowIsLeast DEF Above
  <1> QED
    BY <1>1, <1>3 DEF GivenUp

\* A directory is above itself.
LEMMA GivenUpItself ==
  ASSUME NEW d \in Dirs, d \in refused \/ watch[d] = "dead"
  PROVE  GivenUp(d)
  BY BelowIsLeast DEF GivenUp, Above

\* From the root down: a directory that is there is watched, unless it is given up on.
LEMMA WatchedDownwards == IInv => TreeCovered
  <1> SUFFICES ASSUME IInv, Quiet PROVE \A d \in present : watch[d] = "live" \/ GivenUp(d)
    BY DEF TreeCovered
  <1> DEFINE S == {d \in Dirs : d \in present => watch[d] = "live" \/ GivenUp(d)}
  <1>1. Tasks = {} /\ Reported = {}
    BY DEF Quiet, Tasks, Reported, ToSet
  <1>2. \A d : ~ToWatch(d) /\ ~ToList(d)
    BY <1>1 DEF ToWatch, ToList
  <1>3. Root \in S
    BY <1>2, GivenUpItself, TreeAssumption DEF IInv, WatchComes, AboveFirst
  <1>4. ASSUME NEW d \in Dirs \ {Root}, Parent[d] \in S PROVE d \in S
    <2> SUFFICES ASSUME d \in present, watch[d] # "live" PROVE GivenUp(d)
      OBVIOUS
    <2>1. watch[d] = "dead" \/ d \in refused \/ AboveFirst(d)
      BY <1>2 DEF IInv, WatchComes
    <2>2. CASE AboveFirst(d)
      <3>1. Parent[d] \in present /\ Parent[d] \in Dirs
        BY <1>4, TreeAssumption DEF IInv, Grounded, TreeGrounded
      <3>2. watch[Parent[d]] # "live" \/ Parent[d] \in refused
        BY <1>2, <2>2 DEF AboveFirst
      <3>3. GivenUp(Parent[d])
        BY <1>4, <3>1, <3>2, GivenUpItself
      <3> QED
        BY <3>3, GivenUpBelow
    <2> QED
      BY <2>1, <2>2, GivenUpItself
  <1> HIDE DEF S
  <1>5. S = Dirs
    BY <1>3, <1>4, TreeInduction DEF S
  <1> QED
    BY <1>5 DEF S, IInv, TypeOK

\* A file in a directory that is watched is on its way to the index, or in it.
LEMMA NoticedThere == IInv /\ TreeCovered => ChangesNoticed
  <1> SUFFICES ASSUME IInv, TreeCovered, Quiet, NEW d \in Dirs
               PROVE  \/ content[d] = synced[d]
                      \/ d \in pending
                      \/ catchup
                      \/ GivenUp(d)
                      \/ d \in unseen /\ content[d] = Absent
    BY DEF ChangesNoticed
  <1>1. Tasks = {} /\ Reported = {}
    BY DEF Quiet, Tasks, Reported, ToSet
  <1>2. ~ToMark(d) /\ [what |-> "file", dir |-> d] \notin Reported
    BY <1>1 DEF ToMark
  <1>3. content[d] # Absent /\ watch[d] # "live" => GivenUp(d)
    BY DEF IInv, Grounded, TreeGrounded, TreeCovered
  <1> QED
    BY <1>2, <1>3, GivenUpItself DEF IInv, ChangeComes

\* For every tree, and whatever becomes of it during the walks: when nothing is left to do, every directory that is
\* there is watched, or the watcher has given up on it or on one above.
THEOREM TreeIsCovered == Spec => []TreeCovered
  BY Invariance, WatchedDownwards, PTL

\* For every tree, contents and order of changes, walks, events, syncs and faults: no change of a file slips through
\* where the watcher has not given up.
THEOREM ChangesAreNoticed == Spec => []ChangesNoticed
  BY Invariance, WatchedDownwards, NoticedThere, PTL

=============================================================================
