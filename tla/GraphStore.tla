----------------------------- MODULE GraphStore -----------------------------
(***************************************************************************)
(* The graph in the database: nodes, edges, unresolved references, `files` *)
(* rows and the raw text index, as a sync or a full index rewrites them.   *)
(*                                                                         *)
(* A run stores one file after the other.  storeExtractionResult is not    *)
(* one transaction but a row of them (Steps), and what it must remember    *)
(* between them, the edges that other files have into this one, is in      *)
(* memory only.  Then references are resolved: a sync takes those of the   *)
(* files it stored, a full index takes all of them, batch by batch.  The   *)
(* process may die between any two transactions.                           *)
(*                                                                         *)
(* Data abstraction.  A version of a file says on which line it defines    *)
(* which symbols, and which names each of them refers to.  A node's id is  *)
(* its file, symbol and line; symbols of one kind and name are told apart  *)
(* by their scope.  The choice among several candidates of a reference,    *)
(* the kinds of edges, and edges that extraction itself emits (contains)   *)
(* are left out; edges are a set.  A sync's comparison of size and mtime   *)
(* (LiveIndex) is taken to be right, its walk over the files to be one     *)
(* step, and files that have raw text but no row are left out.             *)
(***************************************************************************)
EXTENDS Integers, FiniteSets

CONSTANTS
    Files,        \* project-relative paths
    Versions,     \* what a file may contain
    Absent,       \* "there is no such file", "there is no such row"
    NoFile,       \* "no file is being stored"
    Syms,         \* symbols, told apart by scope
    NameOf,       \* Syms -> names
    KindOf,       \* Syms -> kinds
    LineOf,       \* Versions -> Syms -> line of the definition; 0: not defined
    RefsOf,       \* Versions -> set of <<symbol, name it refers to>>
    VersionsOf,   \* Files -> versions that this file may have
    Oversized,    \* versions larger than MAX_FILE_SIZE
    RawUnsafe,    \* files whose text must not be kept: shouldIndexRawContent is false
    BatchSize,    \* resolveAndPersistBatched's batchSize
    MaxEdits,     \* bound: changes of the tree
    MaxRuns,      \* bound: syncs and full indexes
    MaxCrashes    \* bound: deaths of the indexing process

Names == {NameOf[s] : s \in Syms}

ASSUME GraphStoreAssumption ==
    /\ Absent \notin Versions /\ NoFile \notin Files
    /\ LineOf \in [Versions -> [Syms -> Nat]]
    /\ RefsOf \in [Versions -> SUBSET (Syms \X Names)]
    /\ VersionsOf \in [Files -> SUBSET Versions]
    /\ Oversized \subseteq Versions /\ RawUnsafe \subseteq Files
    /\ \A v \in Oversized, x \in Syms : LineOf[v][x] = 0   \* it is not parsed
    /\ BatchSize \in Nat \ {0}
    /\ MaxEdits \in Nat /\ MaxRuns \in Nat /\ MaxCrashes \in Nat

VARIABLES
    disk,       \* Files -> version or Absent
    nodes,      \* table nodes: set of <<file, symbol, line>>
    edges,      \* table edges: set of <<source node, target node>>
    refs,       \* table unresolved_refs: set of <<node, name>>
    row,        \* table files: Files -> version or Absent
    text,       \* table content_fts: Files -> version or Absent
    pc,         \* "idle", "prune", "store", "resolve", "clean", "purge"
    mode,       \* "sync" or "index"
    listed,     \* the files that the scan of this run found
    tracked,    \* the rows as this run read them when it began
    todo,       \* files still to look at in this phase
    changed,    \* changedFilePaths of a sync; filesIndexed of a full index
    cur,        \* [file, ver, step] of the file that is being stored
    incoming,   \* crossFileIncomingEdges of cur
    batch,      \* [all, done]: references taken up, and those of them resolved
    links,      \* history: cross-file links that were once resolved and still stand
    settled,    \* history: <<file, symbol, name>> that resolution dealt with
    edits, runs, crashes

tables  == <<nodes, edges, refs, row, text>>
scan    == <<listed, tracked>>
history == <<links, settled>>
bounds  == <<edits, runs, crashes>>
vars == <<disk, nodes, edges, refs, row, text, pc, mode, listed, tracked, todo,
          changed, cur, incoming, batch, links, settled, edits, runs, crashes>>

Ids == Files \X Syms \X Nat
Content == Versions \cup {Absent}

\* The transactions of storeExtractionResult, in the order of the code.
Steps == {"pick", "drop", "nodes", "edges", "refs", "row", "text"}

\* Mutant: the row is written first, so that the file counts as indexed.
RowFirst(s) ==
    CASE s = "drop"  -> "row"   [] s = "row"   -> "nodes"
      [] s = "nodes" -> "edges" [] s = "edges" -> "refs"
      [] s = "refs"  -> "text"  [] s = "text"  -> "pick"

After(s) ==
    CASE s = "drop"  -> "nodes" [] s = "nodes" -> "edges"
      [] s = "edges" -> "refs"  [] s = "refs"  -> "row"
      [] s = "row"   -> "text"  [] s = "text"  -> "pick"

NoRows  == [f \in Files |-> Absent]
NoCur   == [file |-> NoFile, ver |-> Absent, step |-> "pick"]
NoBatch == [all |-> {}, done |-> {}]

\* The types of the tables; cascades keep edges and references on stored nodes.
TypeOK ==
    /\ \A f \in Files : disk[f] \in VersionsOf[f] \cup {Absent}
    /\ nodes \subseteq Ids
    /\ edges \subseteq nodes \X nodes
    /\ refs \subseteq nodes \X Names
    /\ row \in [Files -> Content]
    /\ text \in [Files -> Content]
    /\ pc \in {"idle", "prune", "store", "resolve", "clean", "purge"}
    /\ mode \in {"sync", "index"}
    /\ listed \in SUBSET Files
    /\ tracked \in [Files -> Content]
    /\ todo \in SUBSET Files
    /\ changed \in SUBSET Files
    /\ cur \in [file : Files \cup {NoFile}, ver : Content, step : Steps]
    /\ incoming \subseteq Ids \X Ids
    /\ batch \in [all : SUBSET (Ids \X Names), done : SUBSET (Ids \X Names)]
    /\ batch.done \subseteq batch.all
    /\ links \subseteq Files \X Syms \X Files \X Syms
    /\ settled \subseteq Files \X Syms \X Names
    /\ edits \in 0..MaxEdits /\ runs \in 0..MaxRuns /\ crashes \in 0..MaxCrashes

----------------------------------------------------------------------------
(* Nodes, edges and references. *)

FileOf(id) == id[1]
SymOf(id)  == id[2]

Defines(v, s) == LineOf[v][s] # 0
Id(f, v, s)   == <<f, s, LineOf[v][s]>>
NodesOf(f, v) == {Id(f, v, s) : s \in {x \in Syms : Defines(v, x)}}
RefRows(f, v) == {<<Id(f, v, r[1]), r[2]>> : r \in {x \in RefsOf[v] : Defines(v, x[1])}}

\* The raw text of this version of the file is kept for searches.
KeepsText(f, v) == f \notin RawUnsafe /\ v \notin Oversized

\* What the text index should hold of a file with this row.
TextOf(f, v) == IF v # Absent /\ KeepsText(f, v) THEN v ELSE Absent

\* Of one kind and name: newNodesByKindName's key.
Same(x, y) == KindOf[x] = KindOf[y] /\ NameOf[x] = NameOf[y]

\* The nodes a reference to this name may resolve to.
Candidates(name) == {id \in nodes : NameOf[SymOf(id)] = name}

\* Mutant: a schema whose edges cascade from their source only.
EdgesFromOthers(gone) == {e \in edges : e[1] \notin gone}

\* ON DELETE CASCADE: what is left when the nodes in gone are deleted.
EdgesWithout(gone) == {e \in edges : e[1] \notin gone /\ e[2] \notin gone}
RefsWithout(gone)  == {r \in refs : r[1] \notin gone}
NodesIn(fs)        == {id \in nodes : FileOf(id) \in fs}

\* Mutant: deleteFile leaves the text index alone.
TextStays(fs) == [f \in Files |-> IF f \in fs THEN text[f] ELSE text[f]]

TextWithout(fs) == [f \in Files |-> IF f \in fs THEN Absent ELSE text[f]]

\* deleteFile of each file of fs: nodes, edges, references, row, text.
DeleteFiles(fs) ==
    /\ nodes' = nodes \ NodesIn(fs)
    /\ edges' = EdgesWithout(NodesIn(fs))
    /\ refs' = RefsWithout(NodesIn(fs))
    /\ row' = [f \in Files |-> IF f \in fs THEN Absent ELSE row[f]]
    /\ text' = TextWithout(fs)

LinkOf(e) == <<FileOf(e[1]), SymOf(e[1]), FileOf(e[2]), SymOf(e[2])>>

\* The edge stands for the link: same ends, up to targets of one kind and name.
Restores(e, k) ==
    /\ FileOf(e[1]) = k[1] /\ SymOf(e[1]) = k[2]
    /\ FileOf(e[2]) = k[3] /\ Same(SymOf(e[2]), k[4])

Init ==
    /\ disk \in [Files -> Content]
    /\ \A f \in Files : disk[f] \in VersionsOf[f] \cup {Absent}
    /\ nodes = {} /\ edges = {} /\ refs = {}
    /\ row = NoRows /\ text = NoRows
    /\ pc = "idle" /\ mode = "sync" /\ listed = {} /\ tracked = NoRows
    /\ todo = {} /\ changed = {} /\ cur = NoCur /\ incoming = {} /\ batch = NoBatch
    /\ links = {} /\ settled = {}
    /\ edits = 0 /\ runs = 0 /\ crashes = 0

Edit(f) ==
    /\ edits < MaxEdits
    /\ edits' = edits + 1
    /\ \E v \in (VersionsOf[f] \cup {Absent}) \ {disk[f]} :
          disk' = [disk EXCEPT ![f] = v]
    /\ UNCHANGED <<tables, pc, mode, scan, todo, changed, cur, incoming, batch,
                   history, runs, crashes>>

----------------------------------------------------------------------------
(* Storing files. *)

\* Scan the tree, and read which files the table has.
Begin(m) ==
    /\ pc = "idle" /\ runs < MaxRuns
    /\ runs' = runs + 1
    /\ mode' = m
    /\ pc' = "prune"
    /\ listed' = {f \in Files : disk[f] # Absent}
    /\ tracked' = row
    /\ todo' = {f \in Files : row[f] # Absent}
    /\ changed' = {}
    /\ UNCHANGED <<disk, tables, cur, incoming, batch, history, edits, crashes>>

\* A tracked file that the scan did not find, or that is gone by now, is
\* deleted, in a transaction of its own.
Prune(f) ==
    /\ pc = "prune" /\ f \in todo
    /\ todo' = todo \ {f}
    /\ IF f \in listed /\ disk[f] # Absent
       THEN UNCHANGED <<tables, history>>
       ELSE /\ DeleteFiles({f})
            /\ links' = {k \in links : k[1] # f /\ k[3] # f}
            /\ settled' = {x \in settled : x[1] # f}
    /\ UNCHANGED <<disk, pc, mode, scan, changed, cur, incoming, batch, bounds>>

\* A full index looks at every file that it found; a sync at those that it can
\* read and whose content is not the one that their row had when it began.
Reconcile ==
    /\ pc = "prune" /\ todo = {}
    /\ pc' = "store"
    /\ IF mode = "index"
       THEN todo' = listed /\ changed' = {}
       ELSE /\ todo' = {f \in listed : disk[f] # Absent /\ tracked[f] # disk[f]}
            /\ changed' = todo'
    /\ listed' = {} /\ tracked' = NoRows
    /\ UNCHANGED <<disk, tables, mode, cur, incoming, batch, history, bounds>>

\* Read and parse the next file.  One that is gone by now, or whose parse gives
\* nothing but errors, is left as it is; one whose content is the recorded one
\* needs no storing, only its text may have to go.  A full index counts the
\* files in which it found symbols.
PickFile(f) ==
    /\ pc = "store" /\ cur.step = "pick" /\ f \in todo
    /\ todo' = todo \ {f}
    /\ \/ UNCHANGED <<text, changed, cur>>
       \/ /\ disk[f] # Absent
          /\ changed' = IF mode = "index" /\ NodesOf(f, disk[f]) # {}
                        THEN changed \cup {f} ELSE changed
          /\ IF row[f] = disk[f]
             THEN /\ cur' = cur
                  /\ text' = IF f \in RawUnsafe THEN TextWithout({f}) ELSE text
             ELSE /\ cur' = [file |-> f, ver |-> disk[f], step |-> "drop"]
                  /\ text' = text
    /\ UNCHANGED <<disk, nodes, edges, refs, row, pc, mode, scan, incoming, batch,
                   history, bounds>>

\* Mutant: callers' edges are looked up after the nodes were deleted.
IncomingOfNone(f) == {e \in edges : f \notin Files}

\* getCrossFileIncomingEdgesWithTarget
IncomingOf(f) == {e \in edges : FileOf(e[2]) = f /\ FileOf(e[1]) # f}

\* Only a tracked file is deleted, and only its callers' edges remembered.
DropOld ==
    /\ cur.step = "drop"
    /\ LET f == cur.file IN
       IF row[f] = Absent
       THEN /\ incoming' = {}
            /\ UNCHANGED <<tables, history>>
       ELSE /\ incoming' = IncomingOf(f)
            /\ DeleteFiles({f})
            /\ links' = {k \in links : k[1] # f}
            /\ settled' = {x \in settled : x[1] # f}
    /\ cur' = [cur EXCEPT !.step = After("drop")]
    /\ UNCHANGED <<disk, pc, mode, scan, todo, changed, batch, bounds>>

\* insertNodes: INSERT OR REPLACE, which deletes a row of the same id first.
PutNodes ==
    /\ cur.step = "nodes"
    /\ LET new == NodesOf(cur.file, cur.ver) IN
          /\ nodes' = nodes \cup new
          /\ edges' = EdgesWithout(new)
          /\ refs' = RefsWithout(new)
    /\ links' = {k \in links : k[3] = cur.file =>
                    \E x \in Syms : Defines(cur.ver, x) /\ Same(x, k[4])}
    /\ cur' = [cur EXCEPT !.step = After("nodes")]
    /\ UNCHANGED <<disk, row, text, pc, mode, scan, todo, changed, incoming, batch,
                   settled, bounds>>

\* Mutant: remembered edges go to whatever is of the same kind.
ReplayByKind(e) ==
    {id \in NodesOf(cur.file, cur.ver) : KindOf[SymOf(id)] = KindOf[SymOf(e[2])]}

\* Where a remembered edge may go: a new node of the old target's kind and name.
ReplayTargets(e) == {id \in NodesOf(cur.file, cur.ver) : Same(SymOf(id), SymOf(e[2]))}

\* Each remembered edge goes to the one node that newNodesByKindName has for its
\* target: the last of that kind and name that extraction listed, whichever
\* that is.
ReplayEdges ==
    /\ cur.step = "edges"
    /\ LET back == {e \in incoming : e[1] \in nodes /\ ReplayTargets(e) # {}} IN
       \E to \in [back -> nodes] :
          /\ \A e \in back : to[e] \in ReplayTargets(e)
          /\ \A d, e \in back : Same(SymOf(d[2]), SymOf(e[2])) => to[d] = to[e]
          /\ edges' = edges \cup {<<e[1], to[e]>> : e \in back}
    /\ incoming' = {}
    /\ cur' = [cur EXCEPT !.step = After("edges")]
    /\ UNCHANGED <<disk, nodes, refs, row, text, pc, mode, scan, todo, changed, batch,
                   history, bounds>>

PutRefs ==
    /\ cur.step = "refs"
    /\ refs' = refs \cup {r \in RefRows(cur.file, cur.ver) : r[1] \in nodes}
    /\ cur' = [cur EXCEPT !.step = After("refs")]
    /\ UNCHANGED <<disk, nodes, edges, row, text, pc, mode, scan, todo, changed,
                   incoming, batch, history, bounds>>

PutRow ==
    /\ cur.step = "row"
    /\ row' = [row EXCEPT ![cur.file] = cur.ver]
    /\ cur' = [cur EXCEPT !.step = After("row")]
    /\ UNCHANGED <<disk, nodes, edges, refs, text, pc, mode, scan, todo, changed,
                   incoming, batch, history, bounds>>

\* The text is kept only of a file that is neither too large nor unsafe.
PutText ==
    /\ cur.step = "text"
    /\ text' = [text EXCEPT ![cur.file] = TextOf(cur.file, cur.ver)]
    /\ cur' = NoCur
    /\ UNCHANGED <<disk, nodes, edges, refs, row, pc, mode, scan, todo, changed,
                   incoming, batch, history, bounds>>

----------------------------------------------------------------------------
(* Resolving references. *)

\* All files are stored.  A sync that found no change is done, and so is a full
\* index that found no symbol.
StoreDone ==
    /\ pc = "store" /\ cur.step = "pick" /\ todo = {}
    /\ pc' = IF changed = {} THEN "idle" ELSE "resolve"
    /\ UNCHANGED <<disk, tables, mode, scan, todo, changed, cur, incoming, batch,
                   history, bounds>>

\* What a pass takes up: the references of the changed files, or a batch.
Taken ==
    IF mode = "sync"
    THEN {{r \in refs : FileOf(r[1]) \in changed}}
    ELSE {b \in SUBSET refs :
             \/ Cardinality(b) = BatchSize
             \/ b = refs /\ Cardinality(refs) < BatchSize}

\* Resolve the references taken, insert the edges of those that have a target.
InsertResolved ==
    /\ pc = "resolve"
    /\ \E b \in Taken :
         LET hit == {r \in b : Candidates(r[2]) # {}} IN
         \E target \in [hit -> nodes] :
            /\ \A r \in hit : target[r] \in Candidates(r[2])
            /\ edges' = edges \cup {<<r[1], target[r]>> : r \in hit}
            /\ links' = links \cup {LinkOf(<<r[1], target[r]>>) : r \in
                            {x \in hit : FileOf(target[x]) # FileOf(x[1])}}
            /\ batch' = [all |-> b, done |-> hit]
    /\ pc' = "clean"
    /\ UNCHANGED <<disk, nodes, refs, row, text, mode, scan, todo, changed, cur,
                   incoming, settled, bounds>>

\* References that leave the table and are remembered as dealt with.
DealWith(rs) ==
    /\ refs' = refs \ rs
    /\ settled' = settled \cup {<<FileOf(r[1]), SymOf(r[1]), r[2]>> : r \in rs}

\* Delete the references that were resolved; a sync keeps the others.
DeleteResolved ==
    /\ pc = "clean"
    /\ DealWith(batch.done)
    /\ IF mode = "sync"
       THEN pc' = "idle" /\ batch' = NoBatch
       ELSE pc' = "purge" /\ batch' = batch
    /\ UNCHANGED <<disk, nodes, edges, row, text, mode, scan, todo, changed, cur,
                   incoming, links, bounds>>

\* A full index deletes those that it could not resolve as well, and goes on with
\* the next batch until none is left, or a batch resolved nothing.
DeleteUnresolved ==
    /\ pc = "purge"
    /\ DealWith(batch.all \ batch.done)
    /\ pc' = IF refs' # {} /\ batch.done # {} THEN "resolve" ELSE "idle"
    /\ batch' = NoBatch
    /\ UNCHANGED <<disk, nodes, edges, row, text, mode, scan, todo, changed, cur,
                   incoming, links, bounds>>

\* The process dies: its memory is gone, its transactions stay.
Crash ==
    /\ pc # "idle" /\ crashes < MaxCrashes
    /\ crashes' = crashes + 1
    /\ pc' = "idle" /\ listed' = {} /\ tracked' = NoRows
    /\ todo' = {} /\ changed' = {} /\ cur' = NoCur /\ incoming' = {} /\ batch' = NoBatch
    /\ UNCHANGED <<disk, tables, mode, history, edits, runs>>

Next ==
    \/ \E f \in Files : Edit(f) \/ Prune(f) \/ PickFile(f)
    \/ \E m \in {"sync", "index"} : Begin(m)
    \/ Reconcile
    \/ DropOld
    \/ PutNodes
    \/ ReplayEdges
    \/ PutRefs
    \/ PutRow
    \/ PutText
    \/ StoreDone
    \/ InsertResolved
    \/ DeleteResolved
    \/ DeleteUnresolved
    \/ Crash

Spec == Init /\ [][Next]_vars

----------------------------------------------------------------------------
(* Properties. *)

\* A row of `files` vouches for the file's part of the graph, however the
\* process died: all its symbols are there, and every reference in it is
\* waiting in unresolved_refs or was dealt with by a resolution pass.
RowVouches ==
    \A f \in Files : row[f] # Absent =>
        /\ NodesOf(f, row[f]) \subseteq nodes
        /\ \A r \in RefRows(f, row[f]) :
              r \in refs \/ <<f, SymOf(r[1]), r[2]>> \in settled

\* CHANGELOG.md:20: "Incremental sync now preserves cross-file incoming caller
\* edges when a callee file is re-indexed": once a reference of one file was
\* resolved to a symbol of another, there is an edge to a symbol of that kind and
\* name whenever no run is in flight, until the caller goes away or is indexed
\* again, or a version of the callee is stored that has no such symbol.
CallerEdgesKept ==
    pc = "idle" => \A k \in links : \E e \in edges : Restores(e, k)

\* Not true: the edge leads to the very symbol that it was resolved to.
SameSymbolKept ==
    crashes = 0 /\ pc = "idle" =>
        \A k \in links : Defines(row[k[3]], k[4]) => \E e \in edges : LinkOf(e) = k

\* The same as long as the process is not killed.
EdgesKeptWithoutCrash == crashes = 0 => CallerEdgesKept

\* The same with a killed process, once every file is indexed again and no
\* sync has anything left to do.
EdgesSurviveCrash == row = disk => CallerEdgesKept

\* No edge outlives the code it stands for: as long as the process is not
\* killed, an edge's source refers to its target by name in the version that
\* is stored, and both ends are symbols of the stored versions.
EdgesGrounded ==
    crashes = 0 /\ pc = "idle" =>
        \A e \in edges :
            LET f == FileOf(e[1])  g == FileOf(e[2]) IN
            /\ row[f] # Absent /\ row[g] # Absent
            /\ e[1] \in NodesOf(f, row[f]) /\ e[2] \in NodesOf(g, row[g])
            /\ <<SymOf(e[1]), NameOf[SymOf(e[2])]>> \in RefsOf[row[f]]

\* queries.ts:1692, "keep the content index in lockstep with files", and
\* schema.sql:131, "Only files <= MAX_FILE_SIZE are populated": the text index
\* never holds anything but the recorded version of a file whose text may be
\* kept, however the process died.  As long as it is not killed, the text of each
\* such file is there, and its nodes are those of the recorded version.
Lockstep ==
    \A f \in Files :
        /\ text[f] # Absent => text[f] = TextOf(f, row[f])
        /\ crashes = 0 /\ pc = "idle" =>
              /\ text[f] = TextOf(f, row[f])
              /\ NodesIn({f}) = IF row[f] = Absent THEN {} ELSE NodesOf(f, row[f])

\* A full index leaves no reference behind that has a target.
IndexResolves ==
    pc = "idle" /\ mode = "index" /\ crashes = 0 =>
        \A r \in refs : Candidates(r[2]) = {}
=============================================================================
