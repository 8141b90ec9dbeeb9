------------------------------ MODULE WatchTree ------------------------------
(* The watches of FileWatcher on Linux (src/src/sync/watcher.ts): one inotify watch per directory, put up by a walk   *)
(* that runs while other processes change the tree. LiveIndex assumes that each change of a source file has an event; *)
(* here is what that rests on: a directory is watched before it is listed, what a new directory brought along is      *)
(* marked, and a directory that could not be watched, or was made again in the place of a watched one, is left out.   *)
(* A directory stands for itself and for the one source file in it. Ignored directories are not in Dirs.              *)
EXTENDS Naturals, FiniteSets, Sequences, SequencesExt

CONSTANTS Dirs,        \* the paths at which there may be directories
          Root,        \* the project root
          Parent,      \* the directory above each one but Root
          Contents,    \* what a source file may say
          Absent,      \* content of a file that is not there
          MaxWatches,  \* maxDirWatches()
          MaxEdits,    \* bound on the changes made by other processes
          MaxFaults    \* bound on failed system calls, watch errors and restarts

Kids(d) == {c \in Dirs \ {Root} : Parent[c] = d}

\* A directory and all that is below it: what every set has that has it, and the children of what it has.
Below == [d \in Dirs |-> {c \in Dirs :
              \A S \in SUBSET Dirs : d \in S /\ (\A e \in S : Kids(e) \subseteq S) => c \in S}]

ASSUME TreeAssumption == /\ IsFiniteSet(Dirs)
                         /\ Root \in Dirs
                         /\ Parent \in [Dirs \ {Root} -> Dirs]
                         /\ Below[Root] = Dirs
                         /\ Absent \notin Contents
                         /\ {MaxWatches, MaxEdits, MaxFaults} \subseteq Nat

VARIABLES present,  \* directories that exist
          content,  \* of the source file of each directory
          synced,   \* the same as the index has it
          watch,    \* "none"; "live"; "dead": still in dirWatchers, but the directory it was put on is gone
          events,   \* events of the watches that are not handled yet, oldest first; "lost" if the watch was closed
          walk,     \* the stack of watchTree: directories to do, each with its step and markExisting
          pending,  \* pendingFiles
          timer,    \* debounceTimer is set
          catchup,  \* the engine's catch-up sync is to come
          refused,  \* history: directories that could not be watched or listed, or lost their watch
          unseen,   \* history: files that went away where no watch saw it, and no sync since
          edits, faults

tree == <<present, content>>
env == <<tree, edits>>
queue == <<pending, timer>>
vars == <<env, synced, watch, events, walk, queue, catchup, refused, unseen, faults>>

Step == {"watch", "list"}
Event == [what: {"file", "dir", "lost"}, dir: Dirs]

TypeOK == /\ present \subseteq Dirs
          /\ content \in [Dirs -> Contents \cup {Absent}]
          /\ synced \in [Dirs -> Contents \cup {Absent}]
          /\ watch \in [Dirs -> {"none", "live", "dead"}]
          /\ Cardinality({d \in Dirs : watch[d] # "none"}) <= MaxWatches
          /\ events \in Seq(Event)
          /\ walk \in Seq([dir: Dirs, mark: BOOLEAN, at: 1..2])
          /\ pending \subseteq Dirs
          /\ {timer, catchup} \subseteq BOOLEAN
          /\ refused \subseteq Dirs
          /\ unseen \subseteq Dirs
          /\ edits \in 0..MaxEdits
          /\ faults \in 0..MaxFaults

-----------------------------------------------------------------------------
(* The tree and its watches. *)

Above(d) == {a \in Dirs : d \in Below[a]}

\* The entries of dirWatchers, whether they still see something or not.
Watched == {d \in Dirs : watch[d] # "none"}

\* inotify reports what happens to the entries of a directory to whoever watches the directory.
Report(d, event) == IF watch[d] = "live" THEN Append(events, event) ELSE events

Init == /\ present \in {p \in SUBSET Dirs : Root \in p /\ \A d \in p \ {Root} : Parent[d] \in p}
        /\ content \in {f \in [Dirs -> Contents \cup {Absent}] : \A d \in Dirs \ present : f[d] = Absent}
        /\ synced = [d \in Dirs |-> Absent]
        /\ watch = [d \in Dirs |-> "none"]
        /\ events = <<>>
        /\ walk = <<[dir |-> Root, mark |-> FALSE, at |-> 1]>>
        /\ pending = {}
        /\ timer = FALSE
        /\ catchup = TRUE
        /\ refused = {}
        /\ unseen = {}
        /\ edits = 0
        /\ faults = 0

-----------------------------------------------------------------------------
(* Other processes. They never wait for the watcher. *)

\* A source file is written, made or deleted.
Write(d, c) ==
    /\ edits < MaxEdits
    /\ d \in present
    /\ content[d] # c
    /\ content' = [content EXCEPT ![d] = c]
    /\ events' = Report(d, [what |-> "file", dir |-> d])
    /\ unseen' = IF c = Absent /\ watch[d] # "live" THEN unseen \cup {d} ELSE unseen
    /\ edits' = edits + 1
    /\ UNCHANGED <<present, synced, watch, walk, queue, catchup, refused, faults>>

\* A directory is made, or moved to its place with all that is in it. Only the directory above has an event.
Appear(d) ==
    /\ edits < MaxEdits
    /\ d \in Dirs \ (present \cup {Root})
    /\ Parent[d] \in present
    /\ \E with \in {p \in SUBSET Below[d] : d \in p /\ \A c \in p \ {d} : Parent[c] \in p} :
          /\ present' = present \cup with
          /\ content' \in {f \in [Dirs -> Contents \cup {Absent}] : \A c \in Dirs \ with : f[c] = content[c]}
    /\ events' = Report(Parent[d], [what |-> "dir", dir |-> d])
    /\ edits' = edits + 1
    /\ UNCHANGED <<synced, watch, walk, queue, catchup, refused, unseen, faults>>

\* A directory is removed, or moved out of the project with all that is in it. The watches on it stay in dirWatchers:
\* the watcher hears of its own directory's end by an event, not by an error.
Disappear(d) ==
    /\ edits < MaxEdits
    /\ d \in present \ {Root}
    /\ present' = present \ Below[d]
    /\ content' = [c \in Dirs |-> IF c \in Below[d] THEN Absent ELSE content[c]]
    /\ watch' = [c \in Dirs |-> IF c \in Below[d] /\ watch[c] = "live" THEN "dead" ELSE watch[c]]
    /\ events' = Report(Parent[d], [what |-> "dir", dir |-> d])
    /\ unseen' = unseen \cup {c \in Below[d] : content[c] # Absent}
    /\ edits' = edits + 1
    /\ UNCHANGED <<synced, walk, queue, catchup, refused, faults>>

-----------------------------------------------------------------------------
(* FileWatcher. A handler runs to its end before the next one, but other processes do not wait for it: the walk takes *)
(* a step per system call.                                                                                            *)

\* Mutant: an event is recorded, but no sync is scheduled for it.
NeverScheduled == timer

\* scheduleSync.
Scheduled == TRUE

\* handleChange, for the source files of ds.
HandleChange(ds) ==
    /\ pending' = pending \cup ds
    /\ timer' = IF ds # {} THEN Scheduled ELSE timer

\* Mutant: a directory is listed before it is watched.
ListFirst == <<"list", "watch">>

\* What watchTree does with a directory, in this order.
Order == <<"watch", "list">>

Doing(step) == walk # <<>> /\ Order[Head(walk).at] = step

\* What is left of the walk when a step is done that leads nowhere, and when it is done well.
Abandoned == Tail(walk)
Continued == IF Head(walk).at = 1 THEN <<[Head(walk) EXCEPT !.at = 2]>> \o Tail(walk) ELSE Tail(walk)

\* Mutant: one watch more than allowed.
PastCap == Cardinality(Watched) > MaxWatches

AtCap == Cardinality(Watched) >= MaxWatches

\* fs.watch, for a directory that has no entry in dirWatchers.
WatchDir ==
    /\ Doing("watch")
    /\ LET d == Head(walk).dir
       IN  /\ d \in present \ Watched
           /\ ~AtCap
           /\ watch' = [watch EXCEPT ![d] = "live"]
           /\ refused' = refused \ {d}
           /\ walk' = Continued
    /\ UNCHANGED <<env, synced, events, queue, catchup, unseen, faults>>

\* watchTree returns: there is an entry already, or the directory is gone, or the limit is reached.
WatchSkipped ==
    /\ Doing("watch")
    /\ LET d == Head(walk).dir
       IN  /\ d \in Watched \/ d \notin present \/ AtCap
           /\ refused' = IF d \notin Watched /\ AtCap THEN refused \cup {d} ELSE refused
    /\ walk' = Abandoned
    /\ UNCHANGED <<env, synced, watch, events, queue, catchup, unseen, faults>>

\* fs.watch or readdir fails for want of rights or descriptors; the directory is skipped quietly.
CallFails ==
    /\ faults < MaxFaults
    /\ walk # <<>>
    /\ Doing("watch") => Head(walk).dir \in present \ Watched /\ ~AtCap
    /\ refused' = refused \cup {Head(walk).dir}
    /\ walk' = Abandoned
    /\ faults' = faults + 1
    /\ UNCHANGED <<env, synced, watch, events, queue, catchup, unseen>>

\* Mutant: a new directory is watched, but what it brought along is not marked.
NothingMarked(task) == {}

\* The files of a directory that are recorded as changed when it is listed.
Marked(task) == {d \in {task.dir} : task.mark /\ content[d] # Absent}

\* readdir: the walk goes on to the directories it returns, in whatever order it returns them.
ListDir ==
    /\ Doing("list")
    /\ LET task == Head(walk)
       IN  /\ HandleChange(Marked(task))
           /\ \E kids \in SetToSeqs(Kids(task.dir) \cap present) :
                 walk' = [i \in DOMAIN kids |-> [dir |-> kids[i], mark |-> task.mark, at |-> 1]] \o Continued
    /\ UNCHANGED <<env, synced, watch, events, catchup, refused, unseen, faults>>

\* A directory is walked if it is there. One that is gone goes on to handleChange, which has no use for it; a file
\* goes there whether it still exists or not.
HandleDirEvent ==
    /\ walk = <<>>
    /\ events # <<>>
    /\ LET event == Head(events)
       IN  /\ walk' = IF event.what = "dir" /\ event.dir \in present
                      THEN <<[dir |-> event.dir, mark |-> TRUE, at |-> 1]>>
                      ELSE <<>>
           /\ HandleChange({d \in {event.dir} : event.what = "file"})
    /\ events' = Tail(events)
    /\ UNCHANGED <<env, synced, watch, catchup, refused, unseen, faults>>

\* The directory whose watch an event is from.
Reporter(e) == IF e.what = "dir" THEN Parent[e.dir] ELSE e.dir

\* unwatchDir: what the closed watch had to report is not reported any more.
WatchError(d) ==
    /\ faults < MaxFaults
    /\ walk = <<>>
    /\ watch[d] = "live"
    /\ watch' = [watch EXCEPT ![d] = "none"]
    /\ events' = [i \in DOMAIN events |->
                      IF d = Reporter(events[i]) THEN [what |-> "lost", dir |-> events[i].dir] ELSE events[i]]
    /\ refused' = refused \cup {d}
    /\ unseen' = IF content[d] = Absent /\ [what |-> "file", dir |-> d] \in ToSet(events)
                 THEN unseen \cup {d} ELSE unseen
    /\ faults' = faults + 1
    /\ UNCHANGED <<env, synced, walk, queue, catchup>>

\* A sync, which LiveIndex has in its steps, makes the index equal to the tree.
Sync == /\ walk = <<>>
        /\ synced' = content
        /\ unseen' = {}
        /\ UNCHANGED <<env, watch, events, walk, refused, faults>>

Flush == /\ timer
         /\ Sync
         /\ pending' = {}
         /\ timer' = FALSE
         /\ UNCHANGED catchup

CatchUp == /\ catchup
           /\ Sync
           /\ catchup' = FALSE
           /\ UNCHANGED queue

\* stop() and start(), and the catch-up of the engine that started it again.
Restart ==
    /\ faults < MaxFaults
    /\ walk = <<>>
    /\ watch' = [d \in Dirs |-> "none"]
    /\ events' = <<>>
    /\ walk' = <<[dir |-> Root, mark |-> FALSE, at |-> 1]>>
    /\ pending' = {}
    /\ timer' = FALSE
    /\ catchup' = TRUE
    /\ refused' = {}
    /\ faults' = faults + 1
    /\ UNCHANGED <<env, synced, unseen>>

Walk == WatchDir \/ WatchSkipped \/ ListDir

Next == \/ \E d \in Dirs :
              \/ \E c \in Contents \cup {Absent} : Write(d, c)
              \/ Appear(d)
              \/ Disappear(d)
              \/ WatchError(d)
        \/ Walk
        \/ CallFails
        \/ HandleDirEvent
        \/ Flush
        \/ CatchUp
        \/ Restart

\* System calls return, events that have arrived are handled and timers fire. Nobody has to change anything.
Fairness == WF_vars(Walk) /\ WF_vars(HandleDirEvent) /\ WF_vars(Flush) /\ WF_vars(CatchUp)

Spec == Init /\ [][Next]_vars /\ Fairness

-----------------------------------------------------------------------------
(* Properties. *)

Quiet == walk = <<>> /\ events = <<>>

\* The watcher has given up on a directory: it, or one above it, was refused, or was made again where its old watch
\* still has the entry in dirWatchers.
GivenUp(d) == \E a \in Above(d) : a \in refused \/ watch[a] = "dead"

\* However directories come and go during the walks, once the watcher has nothing left to do every directory that is
\* there has a watch that works, unless the watcher has given up on it (watchTree, handleDirEvent).
TreeCovered == Quiet => \A d \in present : watch[d] = "live" \/ GivenUp(d)

\* A file is known to the index as it is, or the watcher has it in pendingFiles, or the catch-up is to come: nothing
\* slips through between mkdir, the watch, the listing and the events. Excepted are directories the watcher has given
\* up on, and files that went away with their directory or before it was watched, of which nobody told the watcher.
ChangesNoticed ==
    Quiet => \A d \in Dirs : \/ content[d] = synced[d]
                             \/ d \in pending
                             \/ catchup
                             \/ GivenUp(d)
                             \/ d \in unseen /\ content[d] = Absent

\* When nobody changes the tree any more, the index becomes equal to it, with the same exceptions.
SyncedInTheEnd ==
    <>[](\A d \in Dirs : \/ content[d] = synced[d]
                         \/ GivenUp(d)
                         \/ d \in unseen /\ content[d] = Absent)
=============================================================================
