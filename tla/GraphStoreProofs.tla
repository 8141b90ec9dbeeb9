-------------------------- MODULE GraphStoreProofs --------------------------
(***************************************************************************)
(* For every set of files, versions, symbols and references, and for every *)
(* number of runs, edits and deaths of the process: what a row vouches     *)
(* for; and, as long as nobody is killed, that the tables agree and that   *)
(* no edge outlives the code it stands for.                                *)
(***************************************************************************)
EXTENDS GraphStore, TLAPS

\* A file is being stored only in the storing phase, and in a version it has.
Storing ==
    cur.step # "pick" => pc = "store" /\ cur.file \in Files /\ cur.ver \in Versions

\* While a file is stored its old row is gone; its nodes, and then its references, come
\* before its new row.
RowIsLate ==
    /\ cur.step \in {"nodes", "edges", "refs", "row"} => row[cur.file] = Absent
    /\ cur.step \in {"edges", "refs", "row"} => NodesOf(cur.file, cur.ver) \subseteq nodes
    /\ cur.step = "row" =>
           \A r \in RefRows(cur.file, cur.ver) :
               r \in refs \/ <<cur.file, SymOf(r[1]), r[2]>> \in settled
    /\ cur.step = "text" => row[cur.file] = cur.ver

\* The text index holds nothing but recorded versions of files whose text may be kept.
TextIsKnown == \A f \in Files : text[f] # Absent => text[f] = TextOf(f, row[f])

\* The file is between the deletion of the old and the end of the new version.
InFlux(f) == f = cur.file /\ cur.step \in {"nodes", "edges", "refs", "row", "text"}

\* What the tables say of one file, and of each.
AgreeOn(f) ==
    IF InFlux(f)
    THEN /\ row[f] = IF cur.step = "text" THEN cur.ver ELSE Absent
         /\ text[f] = Absent
         /\ NodesIn({f}) = IF cur.step = "nodes" THEN {} ELSE NodesOf(f, cur.ver)
    ELSE /\ text[f] = TextOf(f, row[f])
         /\ NodesIn({f}) = IF row[f] = Absent THEN {} ELSE NodesOf(f, row[f])

Agree == \A f \in Files : AgreeOn(f)

\* The version that the nodes of a file are of.
VerOf(f) == IF InFlux(f) THEN cur.ver ELSE row[f]

\* In that version, the symbol refers to the name.
Refers(id, name) == <<SymOf(id), name>> \in RefsOf[VerOf(FileOf(id))]

\* Edges, references and remembered edges are of the versions that are stored.
Grounded ==
    /\ \A e \in edges : Refers(e[1], NameOf[SymOf(e[2])])
    /\ \A r \in refs : Refers(r[1], r[2])
    /\ cur.step \in {"nodes", "edges"} =>
           \A e \in incoming :
               FileOf(e[1]) # cur.file /\ Refers(e[1], NameOf[SymOf(e[2])])

IInv ==
    /\ TypeOK /\ disk \in [Files -> Content]
    /\ Storing
    /\ RowIsLate
    /\ TextIsKnown
    /\ RowVouches
    /\ crashes = 0 => Agree /\ Grounded

----------------------------------------------------------------------------
(* Nodes and references of a version. *)

\* The nodes of a version carry its file.
LEMMA NodesOfFile ==
  ASSUME NEW f \in Files, NEW v \in Versions
  PROVE  /\ NodesOf(f, v) \subseteq Ids
         /\ \A id \in NodesOf(f, v) : FileOf(id) = f
  BY GraphStoreAssumption DEF NodesOf, Id, Ids, FileOf

\* The references of a version start at its nodes, and are what it refers to.
LEMMA RefRowsOfFile ==
  ASSUME NEW f \in Files, NEW v \in Versions, NEW r \in RefRows(f, v)
  PROVE  /\ r[1] \in NodesOf(f, v) /\ FileOf(r[1]) = f /\ r[2] \in Names
         /\ <<SymOf(r[1]), r[2]>> \in RefsOf[v]
         /\ r = <<r[1], r[2]>>
  <1>1. PICK x \in RefsOf[v] : Defines(v, x[1]) /\ r = <<Id(f, v, x[1]), x[2]>>
    BY DEF RefRows
  <1>2. x[1] \in Syms /\ x[2] \in Names /\ x = <<x[1], x[2]>>
    BY GraphStoreAssumption
  <1>3. r[1] = <<f, x[1], LineOf[v][x[1]]>> /\ r[2] = x[2]
    BY <1>1 DEF Id
  <1> QED
    BY <1>1, <1>2, <1>3 DEF NodesOf, Id, FileOf, SymOf

\* The same, for every file and version.
LEMMA RefRowsArePairs ==
  \A f \in Files, v \in Versions : \A r \in RefRows(f, v) : r[2] \in Names /\ r = <<r[1], r[2]>>
  BY RefRowsOfFile

----------------------------------------------------------------------------
(* Types. *)

LEMMA TypesHold == Init => TypeOK /\ disk \in [Files -> Content] /\ Storing
  <1> SUFFICES ASSUME Init PROVE TypeOK /\ disk \in [Files -> Content] /\ Storing
    OBVIOUS
  <1> USE GraphStoreAssumption
  <1>1. cur \in [file : Files \cup {NoFile}, ver : Content, step : Steps] /\ cur.step = "pick"
    BY DEF Init, NoCur, Content, Steps
  <1>2. batch \in [all : SUBSET (Ids \X Names), done : SUBSET (Ids \X Names)]
        /\ batch.done \subseteq batch.all
    BY DEF Init, NoBatch
  <1>3. row \in [Files -> Content] /\ text \in [Files -> Content] /\ tracked \in [Files -> Content]
    BY DEF Init, NoRows, Content
  <1>4. edits \in 0..MaxEdits /\ runs \in 0..MaxRuns /\ crashes \in 0..MaxCrashes
    BY DEF Init
  <1> QED
    BY <1>1, <1>2, <1>3, <1>4 DEF Init, TypeOK, Storing

\* deleteFile and its cascades.
LEMMA DeleteTypes ==
  ASSUME TypeOK, NEW fs \in SUBSET Files, DeleteFiles(fs)
  PROVE  /\ nodes' \subseteq Ids /\ edges' \subseteq nodes' \X nodes'
         /\ refs' \subseteq nodes' \X Names
         /\ row' \in [Files -> Content] /\ text' \in [Files -> Content]
  <1>1. nodes' \subseteq Ids
    BY DEF DeleteFiles, TypeOK
  <1>2. edges' \subseteq nodes' \X nodes'
    BY DEF DeleteFiles, EdgesWithout, TypeOK
  <1>3. refs' \subseteq nodes' \X Names
    BY DEF DeleteFiles, RefsWithout, TypeOK
  <1>4. row' \in [Files -> Content] /\ text' \in [Files -> Content]
    BY DEF DeleteFiles, TextWithout, Content, TypeOK
  <1> QED
    BY <1>1, <1>2, <1>3, <1>4

\* References that are dealt with leave the table and enter the history.
LEMMA DealTypes ==
  ASSUME TypeOK, NEW rs \in SUBSET (Ids \X Names), DealWith(rs)
  PROVE  refs' \subseteq nodes \X Names /\ settled' \subseteq Files \X Syms \X Names
  <1>1. \A r \in rs : <<FileOf(r[1]), SymOf(r[1]), r[2]>> \in Files \X Syms \X Names
    BY DEF Ids, FileOf, SymOf
  <1> QED
    BY <1>1 DEF TypeOK, DealWith

\* Every transaction keeps the types, and edges and references on stored nodes.
LEMMA TypesKept ==
  TypeOK /\ disk \in [Files -> Content] /\ Storing /\ [Next]_vars
      => TypeOK' /\ disk' \in [Files -> Content] /\ Storing'
  <1> SUFFICES ASSUME TypeOK, disk \in [Files -> Content], Storing, [Next]_vars
               PROVE  TypeOK' /\ disk' \in [Files -> Content] /\ Storing'
    OBVIOUS
  <1> DEFINE Kept == TypeOK' /\ disk' \in [Files -> Content] /\ Storing'
  <1> USE GraphStoreAssumption DEF tables, scan, history, bounds
  <1>0. CASE UNCHANGED vars
    BY <1>0 DEF vars, TypeOK, Storing
  <1>1. ASSUME NEW f \in Files, Edit(f) PROVE Kept
    <2>1. edits' \in 0..MaxEdits
      BY <1>1 DEF Edit, TypeOK
    <2>2. PICK v \in VersionsOf[f] \cup {Absent} : disk' = [disk EXCEPT ![f] = v]
      BY <1>1 DEF Edit
    <2>3. disk' \in [Files -> Content] /\ \A g \in Files : disk'[g] \in VersionsOf[g] \cup {Absent}
      BY <2>2 DEF Content, TypeOK
    <2> QED
      BY <1>1, <2>1, <2>3 DEF Edit, TypeOK, Storing
  <1>2. ASSUME NEW m \in {"sync", "index"}, Begin(m) PROVE Kept
    <2>1. runs' \in 0..MaxRuns /\ pc = "idle" /\ pc' = "prune" /\ mode' = m
      BY <1>2 DEF Begin, TypeOK
    <2>2. listed' \in SUBSET Files /\ tracked' \in [Files -> Content]
          /\ todo' \in SUBSET Files /\ changed' \in SUBSET Files
      BY <1>2 DEF Begin, TypeOK
    <2>3. Storing'
      BY <1>2, <2>1 DEF Begin, Storing
    <2>4. UNCHANGED <<disk, tables, cur, incoming, batch, history, edits, crashes>>
      BY <1>2 DEF Begin
    <2> QED
      BY <2>1, <2>2, <2>3, <2>4 DEF TypeOK
  <1>3. ASSUME NEW f \in Files, PickFile(f) PROVE Kept
    <2>1. disk[f] # Absent => disk[f] \in Versions
      BY DEF Content
    <2>2. cur' \in [file : Files \cup {NoFile}, ver : Content, step : Steps] /\ Storing'
      BY <1>3, <2>1 DEF PickFile, Storing, TypeOK, Content, Steps
    <2>3. todo' \in SUBSET Files /\ changed' \in SUBSET Files
      BY <1>3 DEF PickFile, TypeOK
    <2>4. text' \in [Files -> Content]
      BY <1>3 DEF PickFile, TextWithout, TypeOK, Content
    <2>5. UNCHANGED <<disk, nodes, edges, refs, row, pc, mode, scan, incoming, batch,
                      history, bounds>>
      BY <1>3 DEF PickFile
    <2> QED
      BY <2>2, <2>3, <2>4, <2>5 DEF TypeOK
  <1>4. CASE DropOld
    <2>1. /\ cur' = [cur EXCEPT !.step = "nodes"] /\ cur.file \in Files
          /\ UNCHANGED <<disk, pc, mode, scan, todo, changed, batch, edits, runs, crashes>>
      BY <1>4 DEF DropOld, After, Storing
    <2>2. cur' \in [file : Files \cup {NoFile}, ver : Content, step : Steps] /\ Storing'
      BY <1>4, <2>1 DEF DropOld, Storing, TypeOK, Steps
    <2>3. CASE row[cur.file] = Absent
      BY <1>4, <2>1, <2>2, <2>3 DEF DropOld, TypeOK
    <2>4. CASE row[cur.file] # Absent
      <3>1. DeleteFiles({cur.file}) /\ {cur.file} \in SUBSET Files
        BY <1>4, <2>1, <2>4 DEF DropOld
      <3>2. /\ links' \subseteq Files \X Syms \X Files \X Syms
            /\ settled' \subseteq Files \X Syms \X Names
        BY <1>4, <2>4 DEF DropOld, TypeOK
      <3>3. incoming' \subseteq Ids \X Ids
        BY <1>4, <2>4 DEF DropOld, IncomingOf, TypeOK
      <3> QED
        BY <2>1, <2>2, <3>1, <3>2, <3>3, DeleteTypes DEF TypeOK
    <2> QED
      BY <2>3, <2>4
  <1>5. CASE PutNodes
    <2> DEFINE new == NodesOf(cur.file, cur.ver)
    <2>1. new \subseteq Ids
      BY <1>5, NodesOfFile DEF PutNodes, Storing
    <2>2. /\ nodes' = nodes \cup new /\ edges' = EdgesWithout(new) /\ refs' = RefsWithout(new)
          /\ links' \subseteq links /\ cur' = [cur EXCEPT !.step = "edges"] /\ cur.step = "nodes"
          /\ UNCHANGED <<disk, row, text, pc, mode, scan, todo, changed, incoming,
                         batch, settled, edits, runs, crashes>>
      BY <1>5 DEF PutNodes, After
    <2> HIDE DEF new
    <2>3. cur' \in [file : Files \cup {NoFile}, ver : Content, step : Steps] /\ Storing'
      BY <2>2 DEF Storing, TypeOK, Steps
    <2>4. /\ nodes' \subseteq Ids /\ edges' \subseteq nodes' \X nodes'
          /\ refs' \subseteq nodes' \X Names
      BY <2>1, <2>2 DEF EdgesWithout, RefsWithout, TypeOK
    <2> QED
      BY <2>2, <2>3, <2>4 DEF TypeOK
  <1>6. CASE ReplayEdges
    <2>1. edges' \subseteq nodes \X nodes
      <3> DEFINE back == {e \in incoming : e[1] \in nodes /\ ReplayTargets(e) # {}}
      <3>1. PICK to \in [back -> nodes] : edges' = edges \cup {<<e[1], to[e]>> : e \in back}
        BY <1>6 DEF ReplayEdges
      <3>2. \A e \in back : e[1] \in nodes
        OBVIOUS
      <3> HIDE DEF back
      <3> QED
        BY <3>1, <3>2 DEF TypeOK
    <2>2. cur' = [cur EXCEPT !.step = "refs"] /\ cur.step = "edges" /\ incoming' = {}
      BY <1>6 DEF ReplayEdges, After
    <2>3. cur' \in [file : Files \cup {NoFile}, ver : Content, step : Steps]
      BY <2>2 DEF TypeOK, Steps
    <2> QED
      BY <1>6, <2>1, <2>2, <2>3 DEF ReplayEdges, TypeOK, Storing
  <1>7. CASE PutRefs
    <2>1. cur' = [cur EXCEPT !.step = "row"] /\ cur.step = "refs"
          /\ cur.file \in Files /\ cur.ver \in Versions
      BY <1>7 DEF PutRefs, After, Storing
    <2>2. refs' \subseteq nodes \X Names
      <3>1. \A r \in RefRows(cur.file, cur.ver) : r[2] \in Names /\ r = <<r[1], r[2]>>
        BY <2>1, RefRowsArePairs
      <3>2. refs' = refs \cup {r \in RefRows(cur.file, cur.ver) : r[1] \in nodes}
        BY <1>7 DEF PutRefs
      <3> QED
        BY <3>1, <3>2 DEF TypeOK
    <2>3. cur' \in [file : Files \cup {NoFile}, ver : Content, step : Steps]
      BY <2>1 DEF TypeOK, Steps
    <2> QED
      BY <1>7, <2>1, <2>2, <2>3 DEF PutRefs, TypeOK, Storing
  <1>8. CASE PutRow
    <2>1. cur' = [cur EXCEPT !.step = "text"] /\ cur.step = "row"
      BY <1>8 DEF PutRow, After
    <2>2. cur' \in [file : Files \cup {NoFile}, ver : Content, step : Steps]
      BY <2>1 DEF TypeOK, Steps
    <2> QED
      BY <1>8, <2>1, <2>2 DEF PutRow, TypeOK, Storing, Content
  <1>9. CASE PutText
    <2>a. cur.file \in Files /\ cur.ver \in Versions
      BY <1>9 DEF PutText, Storing
    <2>b. text' \in [Files -> Content]
      BY <1>9, <2>a DEF PutText, TextOf, TypeOK, Content
    <2>1. cur' \in [file : Files \cup {NoFile}, ver : Content, step : Steps] /\ cur'.step = "pick"
      BY <1>9 DEF PutText, NoCur, Steps, Content
    <2> QED
      BY <1>9, <2>b, <2>1 DEF PutText, TypeOK, Storing
  <1>10. CASE StoreDone
    BY <1>10 DEF StoreDone, TypeOK, Storing
  <1>11. CASE InsertResolved
    <2>1. PICK b \in Taken : LET hit == {r \in b : Candidates(r[2]) # {}} IN
             \E target \in [hit -> nodes] :
                /\ \A r \in hit : target[r] \in Candidates(r[2])
                /\ edges' = edges \cup {<<r[1], target[r]>> : r \in hit}
                /\ links' = links \cup {LinkOf(<<r[1], target[r]>>) : r \in
                                {x \in hit : FileOf(target[x]) # FileOf(x[1])}}
                /\ batch' = [all |-> b, done |-> hit]
      BY <1>11, Zenon DEF InsertResolved
    <2> DEFINE hit == {r \in b : Candidates(r[2]) # {}}
    <2>2. PICK target \in [hit -> nodes] :
                /\ edges' = edges \cup {<<r[1], target[r]>> : r \in hit}
                /\ links' = links \cup {LinkOf(<<r[1], target[r]>>) : r \in
                                {x \in hit : FileOf(target[x]) # FileOf(x[1])}}
                /\ batch' = [all |-> b, done |-> hit]
      BY <2>1
    <2>3. b \subseteq refs /\ hit \subseteq b
      BY DEF Taken
    <2> HIDE DEF hit
    <2>4. \A r \in hit : r[1] \in nodes /\ target[r] \in nodes /\ r \in Ids \X Names
      BY <2>2, <2>3 DEF TypeOK
    <2>5. edges' \subseteq nodes \X nodes
      BY <2>2, <2>4 DEF TypeOK
    <2>6. links' \subseteq Files \X Syms \X Files \X Syms
      BY <2>2, <2>4 DEF TypeOK, Ids, LinkOf, FileOf, SymOf
    <2>7. batch' \in [all : SUBSET (Ids \X Names), done : SUBSET (Ids \X Names)]
          /\ batch'.done \subseteq batch'.all
      BY <2>2, <2>3 DEF TypeOK
    <2>8. UNCHANGED <<disk, nodes, refs, row, text, mode, scan, todo, changed, cur, incoming,
                      settled, edits, runs, crashes>> /\ pc' = "clean" /\ pc = "resolve"
      BY <1>11 DEF InsertResolved
    <2> QED
      BY <2>5, <2>6, <2>7, <2>8 DEF TypeOK, Storing
  <1>12. CASE DeleteResolved
    <2>1. /\ DealWith(batch.done) /\ batch' \in {NoBatch, batch} /\ pc' \in {"idle", "purge"}
          /\ pc = "clean"
          /\ UNCHANGED <<disk, nodes, edges, row, text, mode, scan, todo, changed, cur,
                         incoming, links, edits, runs, crashes>>
      BY <1>12 DEF DeleteResolved
    <2>2. batch.done \subseteq Ids \X Names
      BY DEF TypeOK
    <2>3. refs' \subseteq nodes \X Names /\ settled' \subseteq Files \X Syms \X Names
      BY <2>1, <2>2, DealTypes
    <2>4. batch' \in [all : SUBSET (Ids \X Names), done : SUBSET (Ids \X Names)]
          /\ batch'.done \subseteq batch'.all
      BY <2>1 DEF NoBatch, TypeOK
    <2> QED
      BY <2>1, <2>3, <2>4 DEF TypeOK, Storing
  <1>13. CASE Crash
    <2>1. cur' \in [file : Files \cup {NoFile}, ver : Content, step : Steps] /\ cur'.step = "pick"
      BY <1>13 DEF Crash, NoCur, Steps, Content
    <2>2. batch' \in [all : SUBSET (Ids \X Names), done : SUBSET (Ids \X Names)]
          /\ batch'.done \subseteq batch'.all
      BY <1>13 DEF Crash, NoBatch
    <2>3. crashes' \in 0..MaxCrashes
      BY <1>13 DEF Crash, TypeOK
    <2>4. tracked' \in [Files -> Content]
      BY <1>13 DEF Crash, NoRows, Content
    <2> QED
      BY <1>13, <2>1, <2>2, <2>3, <2>4 DEF Crash, TypeOK, Storing
  <1>14. ASSUME NEW f \in Files, Prune(f) PROVE Kept
    <2>1. /\ pc = "prune" /\ todo' = todo \ {f}
          /\ UNCHANGED <<disk, pc, mode, scan, changed, cur, incoming, batch, bounds>>
      BY <1>14 DEF Prune
    <2>2. CASE UNCHANGED <<tables, history>>
      BY <2>1, <2>2 DEF TypeOK, Storing
    <2>3. CASE /\ DeleteFiles({f})
               /\ links' = {k \in links : k[1] # f /\ k[3] # f}
               /\ settled' = {x \in settled : x[1] # f}
      <3>1. {f} \in SUBSET Files
        OBVIOUS
      <3>2. /\ nodes' \subseteq Ids /\ edges' \subseteq nodes' \X nodes'
            /\ refs' \subseteq nodes' \X Names
            /\ row' \in [Files -> Content] /\ text' \in [Files -> Content]
        BY <2>3, <3>1, DeleteTypes
      <3>3. /\ links' \subseteq Files \X Syms \X Files \X Syms
            /\ settled' \subseteq Files \X Syms \X Names
        BY <2>3 DEF TypeOK
      <3> QED
        BY <2>1, <3>2, <3>3 DEF TypeOK, Storing
    <2> QED
      BY <1>14, <2>2, <2>3 DEF Prune
  <1>15. CASE Reconcile
    <2>1. todo' \in SUBSET Files /\ changed' \in SUBSET Files
      BY <1>15 DEF Reconcile, TypeOK
    <2>2. tracked' \in [Files -> Content] /\ listed' = {}
      BY <1>15 DEF Reconcile, NoRows, Content
    <2>3. pc = "prune" /\ pc' = "store"
          /\ UNCHANGED <<disk, tables, mode, cur, incoming, batch, history, bounds>>
      BY <1>15 DEF Reconcile
    <2> QED
      BY <2>1, <2>2, <2>3 DEF TypeOK, Storing
  <1>16. CASE DeleteUnresolved
    <2>1. /\ DealWith(batch.all \ batch.done) /\ batch' = NoBatch /\ pc' \in {"idle", "resolve"}
          /\ pc = "purge"
          /\ UNCHANGED <<disk, nodes, edges, row, text, mode, scan, todo, changed, cur,
                         incoming, links, edits, runs, crashes>>
      BY <1>16 DEF DeleteUnresolved
    <2>2. batch.all \ batch.done \subseteq Ids \X Names
      BY DEF TypeOK
    <2>3. refs' \subseteq nodes \X Names /\ settled' \subseteq Files \X Syms \X Names
      BY <2>1, <2>2, DealTypes
    <2>4. batch' \in [all : SUBSET (Ids \X Names), done : SUBSET (Ids \X Names)]
          /\ batch'.done \subseteq batch'.all
      BY <2>1 DEF NoBatch
    <2> QED
      BY <2>1, <2>3, <2>4 DEF TypeOK, Storing
  <1> QED
    BY <1>0, <1>1, <1>2, <1>3, <1>4, <1>5, <1>6, <1>7, <1>8, <1>9, <1>10, <1>11, <1>12,
       <1>13, <1>14, <1>15, <1>16 DEF Next

----------------------------------------------------------------------------
(* What a row vouches for. *)

\* What deleteFile leaves of the other files is what their rows vouch for.
LEMMA DeleteVouches ==
  ASSUME TypeOK, RowVouches, NEW fs \in SUBSET Files, DeleteFiles(fs),
         settled' = {x \in settled : x[1] \notin fs}
  PROVE  RowVouches'
  <1> SUFFICES ASSUME NEW f \in Files, row'[f] # Absent
               PROVE  /\ NodesOf(f, row'[f]) \subseteq nodes'
                      /\ \A r \in RefRows(f, row'[f]) :
                            r \in refs' \/ <<f, SymOf(r[1]), r[2]>> \in settled'
    BY DEF RowVouches, NodesOf, RefRows, Id, Defines, SymOf
  <1>1. f \notin fs /\ row'[f] = row[f] /\ row[f] # Absent
    BY DEF DeleteFiles
  <1>2. row[f] \in Versions
    BY <1>1 DEF TypeOK, Content
  <1>3. \A id \in NodesOf(f, row[f]) : id \in nodes /\ id \notin NodesIn(fs)
    BY <1>1, <1>2, NodesOfFile DEF RowVouches, NodesIn
  <1>4. nodes' = nodes \ NodesIn(fs) /\ refs' = {r \in refs : r[1] \notin NodesIn(fs)}
    BY DEF DeleteFiles, RefsWithout
  <1>5. ASSUME NEW r \in RefRows(f, row[f])
        PROVE  r \in refs' \/ <<f, SymOf(r[1]), r[2]>> \in settled'
    <2>1. r[1] \notin NodesIn(fs)
      BY <1>2, <1>3, RefRowsOfFile
    <2>2. CASE r \in refs
      BY <1>4, <2>1, <2>2
    <2>3. CASE <<f, SymOf(r[1]), r[2]>> \in settled
      BY <1>1, <2>3
    <2> QED
      BY <1>1, <2>2, <2>3 DEF RowVouches
  <1> QED
    BY <1>1, <1>3, <1>4, <1>5

\* A reference that is dealt with is one that a row may still vouch for.
LEMMA DealVouches ==
  ASSUME TypeOK, RowVouches, NEW rs, DealWith(rs), UNCHANGED <<nodes, row>>
  PROVE  RowVouches'
  <1>1. ASSUME NEW f \in Files, row[f] # Absent, NEW r \in RefRows(f, row[f])
        PROVE  r \in refs' \/ <<f, SymOf(r[1]), r[2]>> \in settled'
    <2>1. FileOf(r[1]) = f
      BY <1>1, RefRowsOfFile DEF TypeOK, Content
    <2>2. CASE r \in rs
      BY <2>1, <2>2 DEF DealWith
    <2>3. CASE r \notin rs
      BY <1>1, <2>3 DEF RowVouches, DealWith
    <2> QED
      BY <2>2, <2>3
  <1> QED
    BY <1>1 DEF RowVouches, NodesOf, RefRows, Id, Defines, SymOf

\* Every transaction keeps what the rows vouch for, and the row for the end.
LEMMA VouchesKept ==
  TypeOK /\ Storing /\ RowIsLate /\ RowVouches /\ [Next]_vars => (RowIsLate /\ RowVouches)'
  <1> SUFFICES ASSUME TypeOK, Storing, RowIsLate, RowVouches, [Next]_vars
               PROVE  RowIsLate' /\ RowVouches'
    OBVIOUS
  <1> USE GraphStoreAssumption DEF tables, scan, history, bounds
  <1> DEFINE Unmoved == UNCHANGED <<nodes, refs, row, settled>>
  <1>a. Unmoved => RowVouches'
    BY DEF RowVouches, NodesOf, RefRows, Id, Defines, SymOf
  <1>b. cur'.step \in {"pick", "drop"} => RowIsLate'
    BY DEF RowIsLate
  <1>c. Unmoved /\ cur' = cur => RowIsLate'
    BY DEF RowIsLate, NodesOf, RefRows, Id, Defines, SymOf
  <1>d. cur.step \in Steps
    BY DEF TypeOK
  <1>0. CASE UNCHANGED vars
    BY <1>0, <1>a, <1>c DEF vars
  <1>1. ASSUME NEW f \in Files, Edit(f) PROVE RowIsLate' /\ RowVouches'
    BY <1>1, <1>a, <1>c DEF Edit
  <1>2. ASSUME NEW m \in {"sync", "index"}, Begin(m) PROVE RowIsLate' /\ RowVouches'
    BY <1>2, <1>a, <1>c DEF Begin
  <1>3. ASSUME NEW f \in Files, PickFile(f) PROVE RowIsLate' /\ RowVouches'
    <2>1. Unmoved /\ cur'.step \in {"pick", "drop"}
      BY <1>3 DEF PickFile
    <2> QED
      BY <2>1, <1>a, <1>b
  <1>4. CASE DropOld
    <2>1. cur.step = "drop" /\ cur' = [cur EXCEPT !.step = "nodes"] /\ cur.file \in Files
      BY <1>4 DEF DropOld, After, Storing
    <2>2. cur'.step = "nodes" /\ cur'.file = cur.file
      BY <2>1 DEF TypeOK
    <2>3. row'[cur.file] = Absent => RowIsLate'
      BY <2>2 DEF RowIsLate
    <2>4. CASE row[cur.file] = Absent
      BY <1>4, <2>3, <2>4, <1>a DEF DropOld
    <2>5. CASE row[cur.file] # Absent
      <3>1. DeleteFiles({cur.file}) /\ settled' = {x \in settled : x[1] \notin {cur.file}}
        BY <1>4, <2>5 DEF DropOld
      <3>2. row'[cur.file] = Absent
        BY <3>1, <2>1 DEF DeleteFiles
      <3> QED
        BY <3>1, <3>2, <2>1, <2>3, DeleteVouches
    <2> QED
      BY <2>4, <2>5
  <1>5. CASE PutNodes
    <2> DEFINE new == NodesOf(cur.file, cur.ver)
    <2>1. /\ cur.step = "nodes" /\ cur' = [cur EXCEPT !.step = "edges"]
          /\ cur.file \in Files /\ cur.ver \in Versions
          /\ nodes' = nodes \cup new /\ refs' = {r \in refs : r[1] \notin new}
          /\ UNCHANGED <<row, settled>>
      BY <1>5 DEF PutNodes, After, Storing, RefsWithout
    <2>2. cur'.step = "edges" /\ cur'.file = cur.file /\ cur'.ver = cur.ver
      BY <2>1 DEF TypeOK
    <2>3. row[cur.file] = Absent
      BY <2>1 DEF RowIsLate
    <2>4. RowIsLate'
      BY <2>1, <2>2, <2>3 DEF RowIsLate, NodesOf, Id, Defines
    <2>5. ASSUME NEW f \in Files, row[f] # Absent
          PROVE  /\ NodesOf(f, row[f]) \subseteq nodes'
                 /\ \A r \in RefRows(f, row[f]) :
                       r \in refs' \/ <<f, SymOf(r[1]), r[2]>> \in settled
      <3>1. f # cur.file /\ row[f] \in Versions
        BY <2>3, <2>5 DEF TypeOK, Content
      <3>2. \A id \in new : FileOf(id) = cur.file
        BY <2>1, NodesOfFile
      <3>3. ASSUME NEW r \in RefRows(f, row[f]) PROVE r[1] \notin new
        BY <3>1, <3>2, RefRowsOfFile
      <3> HIDE DEF new
      <3> QED
        BY <2>1, <2>5, <3>3 DEF RowVouches
    <2>6. RowVouches'
      <3> HIDE DEF new
      <3> QED
        BY <2>1, <2>5 DEF RowVouches, NodesOf, RefRows, Id, Defines, SymOf
    <2> QED
      BY <2>4, <2>6
  <1>6. CASE ReplayEdges
    <2>1. Unmoved /\ cur.step = "edges" /\ cur' = [cur EXCEPT !.step = "refs"]
      BY <1>6 DEF ReplayEdges, After
    <2>2. cur'.step = "refs" /\ cur'.file = cur.file /\ cur'.ver = cur.ver
      BY <2>1 DEF TypeOK
    <2>3. RowIsLate'
      BY <2>1, <2>2 DEF RowIsLate, NodesOf, Id, Defines
    <2> QED
      BY <2>1, <2>3, <1>a
  <1>7. CASE PutRefs
    <2>1. /\ cur.step = "refs" /\ cur' = [cur EXCEPT !.step = "row"]
          /\ cur.file \in Files /\ cur.ver \in Versions
          /\ refs' = refs \cup {r \in RefRows(cur.file, cur.ver) : r[1] \in nodes}
          /\ UNCHANGED <<nodes, row, settled>>
      BY <1>7 DEF PutRefs, After, Storing
    <2>2. cur'.step = "row" /\ cur'.file = cur.file /\ cur'.ver = cur.ver
      BY <2>1 DEF TypeOK
    <2>3. \A r \in RefRows(cur.file, cur.ver) : r \in refs'
      BY <2>1, RefRowsOfFile DEF RowIsLate
    <2>4. RowIsLate'
      BY <2>1, <2>2, <2>3 DEF RowIsLate, NodesOf, RefRows, Id, Defines
    <2>5. RowVouches'
      BY <2>1 DEF RowVouches, NodesOf, RefRows, Id, Defines, SymOf
    <2> QED
      BY <2>4, <2>5
  <1>8. CASE PutRow
    <2>1. /\ cur.step = "row" /\ cur' = [cur EXCEPT !.step = "text"]
          /\ row' = [row EXCEPT ![cur.file] = cur.ver] /\ cur.file \in Files
          /\ UNCHANGED <<nodes, refs, settled>>
      BY <1>8 DEF PutRow, After, Storing
    <2>2. RowIsLate'
      BY <2>1 DEF RowIsLate, TypeOK
    <2>3. ASSUME NEW f \in Files, row'[f] # Absent
          PROVE  /\ NodesOf(f, row'[f]) \subseteq nodes
                 /\ \A r \in RefRows(f, row'[f]) :
                       r \in refs \/ <<f, SymOf(r[1]), r[2]>> \in settled
      <3>1. CASE f = cur.file
        BY <2>1, <3>1 DEF RowIsLate, TypeOK
      <3>2. CASE f # cur.file
        BY <2>1, <2>3, <3>2 DEF RowVouches, TypeOK
      <3> QED
        BY <3>1, <3>2
    <2>4. RowVouches'
      BY <2>1, <2>3 DEF RowVouches, NodesOf, RefRows, Id, Defines, SymOf
    <2> QED
      BY <2>2, <2>4
  <1>9. CASE PutText
    <2>1. Unmoved /\ cur'.step = "pick"
      BY <1>9 DEF PutText, NoCur
    <2> QED
      BY <2>1, <1>a, <1>b
  <1>10. CASE StoreDone
    BY <1>10, <1>a, <1>c DEF StoreDone
  <1>11. CASE InsertResolved
    <2>1. Unmoved /\ cur' = cur
      BY <1>11 DEF InsertResolved
    <2> QED
      BY <2>1, <1>a, <1>c
  <1>12. CASE DeleteResolved
    <2>1. DealWith(batch.done) /\ pc = "clean" /\ UNCHANGED <<nodes, row, cur>>
      BY <1>12 DEF DeleteResolved
    <2>2. cur'.step = "pick"
      BY <2>1, <1>d DEF Storing
    <2> QED
      BY <2>1, <2>2, <1>b, DealVouches
  <1>13. CASE Crash
    <2>1. Unmoved /\ cur'.step = "pick"
      BY <1>13 DEF Crash, NoCur
    <2> QED
      BY <2>1, <1>a, <1>b
  <1>14. ASSUME NEW f \in Files, Prune(f) PROVE RowIsLate' /\ RowVouches'
    <2>1. pc = "prune" /\ cur' = cur
      BY <1>14 DEF Prune
    <2>2. cur'.step = "pick"
      BY <2>1, <1>d DEF Storing
    <2>3. CASE UNCHANGED <<tables, history>>
      BY <2>1, <2>3, <1>a, <1>c
    <2>4. CASE DeleteFiles({f}) /\ settled' = {x \in settled : x[1] # f}
      <3>1. {f} \in SUBSET Files /\ settled' = {x \in settled : x[1] \notin {f}}
        BY <2>4
      <3> QED
        BY <2>2, <2>4, <3>1, <1>b, DeleteVouches
    <2> QED
      BY <1>14, <2>3, <2>4 DEF Prune
  <1>15. CASE Reconcile
    BY <1>15, <1>a, <1>c DEF Reconcile
  <1>16. CASE DeleteUnresolved
    <2>1. DealWith(batch.all \ batch.done) /\ pc = "purge" /\ UNCHANGED <<nodes, row, cur>>
      BY <1>16 DEF DeleteUnresolved
    <2>2. cur'.step = "pick"
      BY <2>1, <1>d DEF Storing
    <2> QED
      BY <2>1, <2>2, <1>b, DealVouches
  <1> QED
    BY <1>0, <1>1, <1>2, <1>3, <1>4, <1>5, <1>6, <1>7, <1>8, <1>9, <1>10, <1>11, <1>12,
       <1>13, <1>14, <1>15, <1>16 DEF Next

----------------------------------------------------------------------------
(* What the text index holds. *)

\* Every transaction, and every death, leaves only recorded text in the text index.
LEMMA TextKept ==
  TypeOK /\ Storing /\ RowIsLate /\ TextIsKnown /\ [Next]_vars => TextIsKnown'
  <1> SUFFICES ASSUME TypeOK, Storing, RowIsLate, TextIsKnown, [Next]_vars,
                      NEW f \in Files, text'[f] # Absent
               PROVE  text'[f] = TextOf(f, row'[f])
    BY DEF TextIsKnown, TextOf, KeepsText
  <1> USE DEF tables, scan, history, bounds
  <1>a. ASSUME NEW fs, DeleteFiles(fs) PROVE text'[f] = TextOf(f, row'[f])
    BY <1>a DEF DeleteFiles, TextWithout, TextIsKnown
  <1>b. text'[f] = text[f] /\ row'[f] = row[f] => text'[f] = TextOf(f, row'[f])
    BY DEF TextIsKnown
  <1>0. CASE UNCHANGED vars
    BY <1>0, <1>b DEF vars
  <1>1. CASE \E g \in Files : Edit(g)
    BY <1>1, <1>b DEF Edit
  <1>2. CASE \E m \in {"sync", "index"} : Begin(m)
    BY <1>2, <1>b DEF Begin
  <1>3. CASE \E g \in Files : PickFile(g)
    <2>1. row' = row /\ (text'[f] = text[f] \/ text'[f] = Absent)
      BY <1>3 DEF PickFile, TextWithout
    <2> QED
      BY <2>1, <1>b
  <1>4. CASE DropOld
    BY <1>4, <1>a, <1>b DEF DropOld
  <1>5. CASE PutNodes
    BY <1>5, <1>b DEF PutNodes
  <1>6. CASE ReplayEdges
    BY <1>6, <1>b DEF ReplayEdges
  <1>7. CASE PutRefs
    BY <1>7, <1>b DEF PutRefs
  <1>8. CASE PutRow
    <2>1. row[cur.file] = Absent /\ text' = text /\ row' = [row EXCEPT ![cur.file] = cur.ver]
      BY <1>8 DEF PutRow, RowIsLate
    <2>2. f # cur.file
      BY <2>1 DEF TextIsKnown, TextOf
    <2> QED
      BY <2>1, <2>2, <1>b DEF TypeOK
  <1>9. CASE PutText
    <2>1. /\ text' = [text EXCEPT ![cur.file] = TextOf(cur.file, cur.ver)] /\ row' = row
          /\ row[cur.file] = cur.ver
      BY <1>9 DEF PutText, RowIsLate
    <2> QED
      BY <2>1, <1>b DEF TypeOK
  <1>10. CASE StoreDone
    BY <1>10, <1>b DEF StoreDone
  <1>11. CASE InsertResolved
    BY <1>11, <1>b DEF InsertResolved
  <1>12. CASE DeleteResolved
    BY <1>12, <1>b DEF DeleteResolved
  <1>13. CASE Crash
    BY <1>13, <1>b DEF Crash
  <1>14. CASE \E g \in Files : Prune(g)
    BY <1>14, <1>a, <1>b DEF Prune
  <1>15. CASE Reconcile
    BY <1>15, <1>b DEF Reconcile
  <1>16. CASE DeleteUnresolved
    BY <1>16, <1>b DEF DeleteUnresolved
  <1> QED
    BY <1>0, <1>1, <1>2, <1>3, <1>4, <1>5, <1>6, <1>7, <1>8, <1>9, <1>10, <1>11, <1>12,
       <1>13, <1>14, <1>15, <1>16 DEF Next

----------------------------------------------------------------------------
(* The tables of one file agree. *)

\* A step that leaves a file's nodes, row, text and flux alone leaves it in agreement.
LEMMA AgreeStays ==
  ASSUME NEW f \in Files, AgreeOn(f), UNCHANGED nodes, row'[f] = row[f], text'[f] = text[f],
         \/ cur' = cur
         \/ ~InFlux(f) /\ ~InFlux(f)'
  PROVE  AgreeOn(f)'
  BY DEF AgreeOn, InFlux, NodesIn, NodesOf, Id, Defines, TextOf, KeepsText

\* deleteFile keeps the agreement of each file, of those deleted as of the others.
LEMMA DeleteAgrees ==
  ASSUME TypeOK, NEW fs \in SUBSET Files, DeleteFiles(fs), NEW f \in Files, AgreeOn(f),
         ~InFlux(f)
  PROVE  /\ text'[f] = TextOf(f, row'[f])
         /\ NodesIn({f})' = IF row'[f] = Absent THEN {} ELSE NodesOf(f, row'[f])
         /\ f \in fs => row'[f] = Absent
         /\ f \notin fs => row'[f] = row[f]
  <1>1. CASE f \in fs
    BY <1>1 DEF DeleteFiles, TextWithout, NodesIn, TextOf
  <1>2. CASE f \notin fs
    <2>1. row'[f] = row[f] /\ text'[f] = text[f]
      BY <1>2 DEF DeleteFiles, TextWithout
    <2>2. NodesIn({f})' = NodesIn({f})
      BY <1>2 DEF DeleteFiles, NodesIn
    <2> QED
      BY <1>2, <2>1, <2>2 DEF AgreeOn
  <1> QED
    BY <1>1, <1>2

\* Every transaction keeps the agreement, unless the process is killed.
LEMMA AgreeKept ==
  TypeOK /\ Storing /\ Agree /\ [Next]_vars /\ crashes' = crashes => Agree'
  <1> SUFFICES ASSUME TypeOK, Storing, Agree, [Next]_vars, crashes' = crashes, NEW f \in Files
               PROVE  AgreeOn(f)'
    BY DEF Agree, AgreeOn, InFlux, NodesIn, NodesOf, Id, Defines, TextOf, KeepsText
  <1> USE GraphStoreAssumption DEF tables, scan, history, bounds
  <1>a. AgreeOn(f)
    BY DEF Agree, AgreeOn
  <1>b. UNCHANGED <<nodes, row, text, cur>> => AgreeOn(f)'
    BY <1>a, AgreeStays
  <1>0. CASE UNCHANGED vars
    BY <1>0, <1>b DEF vars
  <1>1. ASSUME NEW g \in Files, Edit(g) PROVE AgreeOn(f)'
    BY <1>1, <1>b DEF Edit
  <1>2. ASSUME NEW m \in {"sync", "index"}, Begin(m) PROVE AgreeOn(f)'
    BY <1>2, <1>b DEF Begin
  <1>3. ASSUME NEW g \in Files, PickFile(g) PROVE AgreeOn(f)'
    <2>1. UNCHANGED <<nodes, row>> /\ ~InFlux(f) /\ ~InFlux(f)'
      BY <1>3 DEF PickFile, InFlux
    <2>2. f \in RawUnsafe => text[f] = Absent
      BY <1>a, <2>1 DEF AgreeOn, TextOf, KeepsText
    <2>3. text'[f] = text[f]
      BY <1>3, <2>2 DEF PickFile, TextWithout
    <2> QED
      BY <2>1, <2>3, <1>a, AgreeStays
  <1>4. CASE DropOld
    <2>1. /\ cur.step = "drop" /\ cur'.step = "nodes" /\ cur'.file = cur.file
          /\ cur'.ver = cur.ver /\ cur.file \in Files
      BY <1>4 DEF DropOld, After, Storing, TypeOK
    <2>2. ~InFlux(f) /\ (InFlux(f)' <=> f = cur.file)
      BY <2>1 DEF InFlux
    <2>3. CASE row[cur.file] = Absent
      <3>1. UNCHANGED <<nodes, row, text>>
        BY <1>4, <2>3 DEF DropOld
      <3>2. CASE f = cur.file
        BY <1>a, <2>1, <2>2, <2>3, <3>1, <3>2 DEF AgreeOn, NodesIn, TextOf
      <3>3. CASE f # cur.file
        BY <1>a, <2>2, <3>1, <3>3, AgreeStays
      <3> QED
        BY <3>2, <3>3
    <2>4. CASE row[cur.file] # Absent
      <3>1. DeleteFiles({cur.file}) /\ {cur.file} \in SUBSET Files
        BY <1>4, <2>1, <2>4 DEF DropOld
      <3>2. /\ text'[f] = TextOf(f, row'[f])
            /\ NodesIn({f})' = IF row'[f] = Absent THEN {} ELSE NodesOf(f, row'[f])
            /\ f = cur.file => row'[f] = Absent
        BY <1>a, <2>2, <3>1, DeleteAgrees
      <3> QED
        BY <2>1, <2>2, <3>2 DEF AgreeOn, NodesOf, Id, Defines, TextOf, KeepsText
    <2> QED
      BY <2>3, <2>4
  <1>5. CASE PutNodes
    <2> DEFINE new == NodesOf(cur.file, cur.ver)
    <2>1. /\ cur.step = "nodes" /\ cur'.step = "edges" /\ cur'.file = cur.file
          /\ cur'.ver = cur.ver /\ cur.file \in Files /\ cur.ver \in Versions
          /\ nodes' = nodes \cup new /\ UNCHANGED <<row, text>>
      BY <1>5 DEF PutNodes, After, Storing, TypeOK
    <2>2. \A id \in new : FileOf(id) = cur.file
      BY <2>1, NodesOfFile
    <2>3. CASE f = cur.file
      <3>1. InFlux(f) /\ InFlux(f)' /\ NodesIn({f}) = {}
        BY <1>a, <2>1, <2>3 DEF InFlux, AgreeOn
      <3>2. NodesIn({f})' = NodesOf(f, cur.ver)
        BY <2>1, <2>2, <2>3, <3>1 DEF NodesIn
      <3>3. NodesOf(f, cur.ver)' = NodesOf(f, cur.ver)
        BY <2>1 DEF NodesOf, Id, Defines
      <3> HIDE DEF new
      <3> QED
        BY <1>a, <2>1, <2>3, <3>1, <3>2, <3>3 DEF AgreeOn
    <2>4. CASE f # cur.file
      <3>1. ~InFlux(f) /\ ~InFlux(f)'
        BY <2>1, <2>4 DEF InFlux
      <3>2. NodesIn({f})' = NodesIn({f})
        BY <2>1, <2>2, <2>4 DEF NodesIn
      <3> QED
        BY <1>a, <2>1, <3>1, <3>2 DEF AgreeOn, NodesOf, Id, Defines, TextOf, KeepsText
    <2> QED
      BY <2>3, <2>4
  <1>6. CASE ReplayEdges
    <2>1. /\ cur.step = "edges" /\ cur'.step = "refs" /\ cur'.file = cur.file
          /\ cur'.ver = cur.ver /\ UNCHANGED <<nodes, row, text>>
      BY <1>6 DEF ReplayEdges, After, TypeOK
    <2> QED
      BY <1>a, <2>1 DEF AgreeOn, InFlux, NodesIn, NodesOf, Id, Defines, TextOf,
           KeepsText
  <1>7. CASE PutRefs
    <2>1. /\ cur.step = "refs" /\ cur'.step = "row" /\ cur'.file = cur.file
          /\ cur'.ver = cur.ver /\ UNCHANGED <<nodes, row, text>>
      BY <1>7 DEF PutRefs, After, TypeOK
    <2> QED
      BY <1>a, <2>1 DEF AgreeOn, InFlux, NodesIn, NodesOf, Id, Defines, TextOf,
           KeepsText
  <1>8. CASE PutRow
    <2>1. /\ cur.step = "row" /\ cur'.step = "text" /\ cur'.file = cur.file
          /\ cur'.ver = cur.ver /\ row' = [row EXCEPT ![cur.file] = cur.ver]
          /\ UNCHANGED <<nodes, text>>
      BY <1>8 DEF PutRow, After, TypeOK
    <2>2. CASE f = cur.file
      BY <1>a, <2>1, <2>2 DEF AgreeOn, InFlux, NodesIn, NodesOf, Id, Defines, TypeOK,
           TextOf, KeepsText
    <2>3. CASE f # cur.file
      BY <1>a, <2>1, <2>3 DEF AgreeOn, InFlux, NodesIn, NodesOf, Id, Defines, TypeOK,
           TextOf, KeepsText
    <2> QED
      BY <2>2, <2>3
  <1>9. CASE PutText
    <2>1. /\ cur.step = "text" /\ cur'.step = "pick" /\ cur.ver \in Versions
          /\ text' = [text EXCEPT ![cur.file] = TextOf(cur.file, cur.ver)]
          /\ UNCHANGED <<nodes, row>>
      BY <1>9 DEF PutText, NoCur, Storing
    <2>2. ~InFlux(f)'
      BY <2>1 DEF InFlux
    <2>3. CASE f = cur.file
      <3>1. InFlux(f) /\ row[f] = cur.ver /\ NodesIn({f}) = NodesOf(f, cur.ver)
        BY <1>a, <2>1, <2>3 DEF AgreeOn, InFlux
      <3>2. text'[f] = TextOf(f, row'[f]) /\ row'[f] # Absent
        BY <2>1, <2>3, <3>1 DEF TypeOK
      <3> QED
        BY <2>1, <2>2, <3>1, <3>2
           DEF AgreeOn, NodesIn, NodesOf, Id, Defines, TextOf, KeepsText
    <2>4. CASE f # cur.file
      <3>1. ~InFlux(f) /\ text'[f] = text[f]
        BY <2>1, <2>4 DEF InFlux, TypeOK
      <3> QED
        BY <1>a, <2>1, <2>2, <3>1, AgreeStays
    <2> QED
      BY <2>3, <2>4
  <1>10. CASE StoreDone
    BY <1>10, <1>b DEF StoreDone
  <1>11. CASE InsertResolved
    <2>1. UNCHANGED <<nodes, row, text, cur>>
      BY <1>11 DEF InsertResolved
    <2> QED
      BY <2>1, <1>b
  <1>12. CASE DeleteResolved
    BY <1>12, <1>b DEF DeleteResolved, DealWith
  <1>13. CASE Crash
    BY <1>13 DEF Crash, TypeOK
  <1>14. ASSUME NEW g \in Files, Prune(g) PROVE AgreeOn(f)'
    <2>1. pc = "prune" /\ cur' = cur
      BY <1>14 DEF Prune
    <2>2. ~InFlux(f) /\ ~InFlux(f)'
      BY <2>1 DEF Storing, InFlux
    <2>3. CASE UNCHANGED tables
      BY <2>1, <2>3, <1>b
    <2>4. CASE DeleteFiles({g})
      <3>1. {g} \in SUBSET Files
        OBVIOUS
      <3>2. /\ text'[f] = TextOf(f, row'[f])
            /\ NodesIn({f})' = IF row'[f] = Absent THEN {} ELSE NodesOf(f, row'[f])
        BY <1>a, <2>2, <2>4, <3>1, DeleteAgrees
      <3> QED
        BY <2>2, <3>2 DEF AgreeOn, NodesOf, Id, Defines, TextOf, KeepsText
    <2> QED
      BY <1>14, <2>3, <2>4 DEF Prune
  <1>15. CASE Reconcile
    BY <1>15, <1>b DEF Reconcile
  <1>16. CASE DeleteUnresolved
    BY <1>16, <1>b DEF DeleteUnresolved, DealWith
  <1> QED
    BY <1>0, <1>1, <1>2, <1>3, <1>4, <1>5, <1>6, <1>7, <1>8, <1>9, <1>10, <1>11, <1>12,
       <1>13, <1>14, <1>15, <1>16 DEF Next

----------------------------------------------------------------------------
(* Edges and references are of the stored versions. *)

\* A file whose nodes, row and flux stay is of the version it was.
LEMMA VerStays ==
  ASSUME NEW f, row'[f] = row[f], cur' = cur \/ (~InFlux(f) /\ ~InFlux(f)')
  PROVE  VerOf(f)' = VerOf(f)
  BY DEF VerOf, InFlux

\* What refers to a name still does, in a file that is of the version it was.
LEMMA RefersStays ==
  ASSUME NEW id, NEW name, Refers(id, name), VerOf(FileOf(id))' = VerOf(FileOf(id))
  PROVE  Refers(id, name)'
  BY DEF Refers, SymOf, FileOf

\* A step that adds no edge and no reference leaves those that stay grounded.
LEMMA GroundedStays ==
  ASSUME Grounded, edges' \subseteq edges, refs' \subseteq refs,
         \A e \in edges' : VerOf(FileOf(e[1]))' = VerOf(FileOf(e[1])),
         \A r \in refs' : VerOf(FileOf(r[1]))' = VerOf(FileOf(r[1]))
  PROVE  /\ \A e \in edges' : Refers(e[1], NameOf[SymOf(e[2])])'
         /\ \A r \in refs' : Refers(r[1], r[2])'
  <1>1. ASSUME NEW e \in edges' PROVE Refers(e[1], NameOf[SymOf(e[2])])'
    BY RefersStays DEF Grounded
  <1>2. ASSUME NEW r \in refs' PROVE Refers(r[1], r[2])'
    BY RefersStays DEF Grounded
  <1> QED
    BY <1>1, <1>2

\* What deleteFile leaves is of files whose version is the one it was.
LEMMA DeleteGrounds ==
  ASSUME TypeOK, Grounded, NEW fs \in SUBSET Files, DeleteFiles(fs),
         \A f \in Files \ fs : ~InFlux(f) /\ ~InFlux(f)'
  PROVE  /\ \A e \in edges' : Refers(e[1], NameOf[SymOf(e[2])])'
         /\ \A r \in refs' : Refers(r[1], r[2])'
         /\ \A f \in Files \ fs : VerOf(f)' = VerOf(f)
  <1>1. \A f \in Files \ fs : VerOf(f)' = VerOf(f)
    BY VerStays DEF DeleteFiles
  <1>2. \A id \in nodes : FileOf(id) \in Files
    BY DEF TypeOK, Ids, FileOf
  <1>3. \A e \in edges' : e \in edges /\ FileOf(e[1]) \in Files \ fs
    BY <1>2 DEF DeleteFiles, EdgesWithout, NodesIn, TypeOK
  <1>4. \A r \in refs' : r \in refs /\ FileOf(r[1]) \in Files \ fs
    BY <1>2 DEF DeleteFiles, RefsWithout, NodesIn, TypeOK
  <1> QED
    BY <1>1, <1>3, <1>4, GroundedStays

\* Every transaction keeps edges and references grounded, unless the process is killed.
LEMMA GroundedKept ==
  TypeOK /\ Storing /\ RowIsLate /\ Agree /\ Grounded /\ [Next]_vars /\ crashes' = crashes
      => Grounded'
  <1> SUFFICES ASSUME TypeOK, Storing, RowIsLate, Agree, Grounded, [Next]_vars,
                      crashes' = crashes
               PROVE  Grounded'
    OBVIOUS
  <1> USE GraphStoreAssumption DEF tables, scan, history, bounds
  <1> DEFINE Edged == \A e \in edges' : Refers(e[1], NameOf[SymOf(e[2])])'
             Reffed == \A r \in refs' : Refers(r[1], r[2])'
  <1>a. Edged /\ Reffed /\ cur'.step \notin {"nodes", "edges"} => Grounded'
    BY DEF Grounded, Refers, SymOf, VerOf, InFlux, FileOf
  <1>b. UNCHANGED <<edges, refs, row, cur, incoming>> => Grounded'
    BY DEF Grounded, Refers, SymOf, VerOf, InFlux, FileOf
  <1>c. /\ \A e \in edges : e[1] \in nodes /\ e[2] \in nodes
        /\ \A r \in refs : r[1] \in nodes
        /\ \A id \in nodes : FileOf(id) \in Files
    BY DEF TypeOK, Ids, FileOf
  <1> HIDE DEF Edged, Reffed
  <1>d. ASSUME cur.step = "pick", refs' \subseteq refs, UNCHANGED <<edges, row, cur>>
        PROVE  Grounded'
    <2>1. \A f : VerOf(f)' = VerOf(f)
      BY <1>d DEF VerOf, InFlux
    <2>2. Edged /\ Reffed
      BY <1>d, <2>1, GroundedStays DEF Edged, Reffed
    <2> QED
      BY <1>d, <2>2, <1>a
  <1>0. CASE UNCHANGED vars
    BY <1>0, <1>b DEF vars
  <1>1. ASSUME NEW g \in Files, Edit(g) PROVE Grounded'
    BY <1>1, <1>b DEF Edit
  <1>2. ASSUME NEW m \in {"sync", "index"}, Begin(m) PROVE Grounded'
    BY <1>2, <1>b DEF Begin
  <1>3. ASSUME NEW g \in Files, PickFile(g) PROVE Grounded'
    <2>1. /\ UNCHANGED <<edges, refs, row>> /\ cur'.step \in {"pick", "drop"}
          /\ \A f \in Files : ~InFlux(f) /\ ~InFlux(f)'
      BY <1>3 DEF PickFile, InFlux
    <2>2. \A f \in Files : VerOf(f)' = VerOf(f)
      BY <2>1, VerStays
    <2>3. Edged /\ Reffed
      BY <1>c, <2>1, <2>2, GroundedStays DEF Edged, Reffed
    <2> QED
      BY <2>1, <2>3, <1>a
  <1>4. CASE DropOld
    <2> DEFINE g == cur.file
    <2>1. /\ cur.step = "drop" /\ cur'.step = "nodes" /\ cur'.file = g /\ g \in Files
          /\ \A f \in Files \ {g} : ~InFlux(f) /\ ~InFlux(f)'
          /\ ~InFlux(g)
      BY <1>4 DEF DropOld, After, Storing, TypeOK, InFlux
    <2> HIDE DEF g
    <2>2. CASE row[g] = Absent
      <3>1. UNCHANGED <<nodes, edges, refs, row>> /\ incoming' = {}
        BY <1>4, <2>2 DEF DropOld, g
      <3>2. NodesIn({g}) = {}
        BY <2>1, <2>2 DEF Agree, AgreeOn
      <3>3. \A id \in nodes : FileOf(id) \in Files \ {g}
        BY <1>c, <3>2 DEF NodesIn
      <3>4. \A f \in Files \ {g} : VerOf(f)' = VerOf(f)
        BY <2>1, <3>1, VerStays
      <3>5. Edged /\ Reffed
        BY <1>c, <3>1, <3>3, <3>4, GroundedStays DEF Edged, Reffed
      <3> QED
        BY <3>1, <3>5 DEF Edged, Reffed, Grounded, Refers, SymOf, VerOf, InFlux, FileOf
    <2>3. CASE row[g] # Absent
      <3>1. DeleteFiles({g}) /\ incoming' = IncomingOf(g)
        BY <1>4, <2>3 DEF DropOld, g
      <3>2. Edged /\ Reffed /\ \A f \in Files \ {g} : VerOf(f)' = VerOf(f)
        BY <2>1, <3>1, DeleteGrounds DEF Edged, Reffed
      <3>3. ASSUME NEW e \in incoming'
            PROVE  FileOf(e[1]) # g /\ Refers(e[1], NameOf[SymOf(e[2])])'
        <4>1. e \in edges /\ FileOf(e[1]) # g /\ FileOf(e[1]) \in Files
          BY <1>c, <3>1 DEF IncomingOf
        <4> QED
          BY <3>2, <4>1, RefersStays DEF Grounded
      <3> QED
        BY <2>1, <3>2, <3>3 DEF Edged, Reffed, Grounded, Refers, SymOf, VerOf, InFlux, FileOf
    <2> QED
      BY <2>2, <2>3
  <1>5. CASE PutNodes
    <2>1. /\ cur.step = "nodes" /\ cur'.step = "edges" /\ cur'.file = cur.file
          /\ cur'.ver = cur.ver /\ edges' \subseteq edges /\ refs' \subseteq refs
          /\ UNCHANGED <<row, incoming>>
      BY <1>5 DEF PutNodes, After, Storing, TypeOK, EdgesWithout, RefsWithout
    <2>2. \A f : VerOf(f)' = VerOf(f)
      BY <2>1 DEF VerOf, InFlux
    <2>3. Edged /\ Reffed
      BY <2>1, <2>2, GroundedStays DEF Edged, Reffed
    <2>4. ASSUME NEW e \in incoming'
          PROVE  FileOf(e[1]) # cur'.file /\ Refers(e[1], NameOf[SymOf(e[2])])'
      BY <2>1, <2>2, RefersStays DEF Grounded
    <2> QED
      BY <2>3, <2>4 DEF Edged, Reffed, Grounded, Refers, SymOf, VerOf, InFlux, FileOf
  <1>6. CASE ReplayEdges
    <2>1. /\ cur.step = "edges" /\ cur'.step = "refs" /\ cur'.file = cur.file
          /\ cur'.ver = cur.ver /\ UNCHANGED <<row, refs>>
      BY <1>6 DEF ReplayEdges, After, TypeOK
    <2>2. \A f : VerOf(f)' = VerOf(f)
      BY <2>1 DEF VerOf, InFlux
    <2>3. ASSUME NEW d \in edges' PROVE Refers(d[1], NameOf[SymOf(d[2])])
      <3>1. CASE d \in edges
        BY <3>1 DEF Grounded
      <3>2. CASE d \notin edges
        <4>1. PICK e \in incoming, id \in nodes :
                 id \in ReplayTargets(e) /\ d = <<e[1], id>>
          BY <1>6, <3>2 DEF ReplayEdges
        <4>2. NameOf[SymOf(id)] = NameOf[SymOf(e[2])]
          BY <4>1 DEF ReplayTargets, Same
        <4> QED
          BY <2>1, <4>1, <4>2 DEF Grounded
      <3> QED
        BY <3>1, <3>2
    <2>4. Edged /\ Reffed
      BY <2>1, <2>2, <2>3, RefersStays DEF Grounded, Edged, Reffed
    <2> QED
      BY <2>1, <2>4, <1>a
  <1>7. CASE PutRefs
    <2>1. /\ cur.step = "refs" /\ cur'.step = "row" /\ cur'.file = cur.file
          /\ cur.file \in Files /\ cur.ver \in Versions
          /\ cur'.ver = cur.ver /\ UNCHANGED <<row, edges>>
          /\ refs' = refs \cup {r \in RefRows(cur.file, cur.ver) : r[1] \in nodes}
      BY <1>7 DEF PutRefs, After, TypeOK, Storing
    <2>2. \A f : VerOf(f)' = VerOf(f)
      BY <2>1 DEF VerOf, InFlux
    <2>3. ASSUME NEW r \in refs' PROVE Refers(r[1], r[2])
      <3>1. CASE r \in refs
        BY <3>1 DEF Grounded
      <3>2. CASE r \in RefRows(cur.file, cur.ver)
        BY <2>1, <3>2, RefRowsOfFile DEF Refers, VerOf, InFlux
      <3> QED
        BY <2>1, <3>1, <3>2
    <2>4. Edged /\ Reffed
      BY <2>1, <2>2, <2>3, RefersStays DEF Grounded, Edged, Reffed
    <2> QED
      BY <2>1, <2>4, <1>a
  <1>8. CASE PutRow
    <2>1. /\ cur.step = "row" /\ cur'.step = "text" /\ cur'.file = cur.file
          /\ cur'.ver = cur.ver /\ row' = [row EXCEPT ![cur.file] = cur.ver]
          /\ UNCHANGED <<edges, refs>>
      BY <1>8 DEF PutRow, After, TypeOK
    <2>2. \A f \in Files : VerOf(f)' = VerOf(f)
      BY <2>1 DEF VerOf, InFlux, TypeOK
    <2>3. Edged /\ Reffed
      BY <1>c, <2>1, <2>2, GroundedStays DEF Edged, Reffed
    <2> QED
      BY <2>1, <2>3, <1>a
  <1>9. CASE PutText
    <2>1. /\ cur.step = "text" /\ cur'.step = "pick" /\ cur.file \in Files
          /\ UNCHANGED <<row, edges, refs>>
      BY <1>9 DEF PutText, NoCur, Storing
    <2>2. row[cur.file] = cur.ver
      BY <2>1 DEF Agree, AgreeOn, InFlux
    <2>3. \A f \in Files : VerOf(f)' = VerOf(f)
      BY <2>1, <2>2 DEF VerOf, InFlux
    <2>4. Edged /\ Reffed
      BY <1>c, <2>1, <2>3, GroundedStays DEF Edged, Reffed
    <2> QED
      BY <2>1, <2>4, <1>a
  <1>10. CASE StoreDone
    BY <1>10, <1>b DEF StoreDone
  <1>11. CASE InsertResolved
    <2>1. PICK b \in Taken : \E target \in [{r \in b : Candidates(r[2]) # {}} -> nodes] :
              /\ \A r \in {r \in b : Candidates(r[2]) # {}} : target[r] \in Candidates(r[2])
              /\ edges' = edges \cup
                     {<<r[1], target[r]>> : r \in {r \in b : Candidates(r[2]) # {}}}
      BY <1>11 DEF InsertResolved
    <2> DEFINE hit == {r \in b : Candidates(r[2]) # {}}
    <2>2. PICK target \in [hit -> nodes] :
              /\ \A r \in hit : target[r] \in Candidates(r[2])
              /\ edges' = edges \cup {<<r[1], target[r]>> : r \in hit}
      BY <2>1
    <2>3. hit \subseteq refs
      BY DEF Taken
    <2>4. pc = "resolve" /\ UNCHANGED <<nodes, refs, row, cur>>
      BY <1>11 DEF InsertResolved
    <2> HIDE DEF hit
    <2>5. \A f : VerOf(f)' = VerOf(f)
      BY <2>4 DEF VerOf, InFlux
    <2>6. ASSUME NEW d \in edges' PROVE Refers(d[1], NameOf[SymOf(d[2])])
      <3>1. CASE d \in edges
        BY <3>1 DEF Grounded
      <3>2. CASE d \notin edges
        <4>1. PICK r \in hit : d = <<r[1], target[r]>>
          BY <2>2, <3>2
        <4>2. NameOf[SymOf(target[r])] = r[2] /\ r \in refs
          BY <2>2, <2>3, <4>1 DEF Candidates
        <4> QED
          BY <4>1, <4>2 DEF Grounded
      <3> QED
        BY <3>1, <3>2
    <2>7. Edged /\ Reffed
      BY <2>4, <2>5, <2>6, RefersStays DEF Grounded, Edged, Reffed
    <2>8. cur'.step \notin {"nodes", "edges"}
      BY <2>4 DEF Storing
    <2> QED
      BY <2>7, <2>8, <1>a
  <1>12. CASE DeleteResolved
    <2>1. pc = "clean" /\ refs' \subseteq refs /\ UNCHANGED <<nodes, edges, row, cur>>
      BY <1>12 DEF DeleteResolved, DealWith
    <2>2. cur.step = "pick"
      BY <2>1 DEF Storing, TypeOK
    <2> QED
      BY <2>1, <2>2, <1>d
  <1>13. CASE Crash
    BY <1>13 DEF Crash, TypeOK
  <1>14. ASSUME NEW g \in Files, Prune(g) PROVE Grounded'
    <2>1. pc = "prune" /\ UNCHANGED <<cur, incoming>>
      BY <1>14 DEF Prune
    <2>2. cur'.step = "pick" /\ \A f \in Files : ~InFlux(f) /\ ~InFlux(f)'
      BY <2>1 DEF Storing, InFlux
    <2>3. CASE UNCHANGED tables
      BY <2>1, <2>3, <1>b
    <2>4. CASE DeleteFiles({g})
      <3>1. {g} \in SUBSET Files
        OBVIOUS
      <3>2. Edged /\ Reffed
        BY <2>2, <2>4, <3>1, DeleteGrounds DEF Edged, Reffed
      <3> QED
        BY <2>2, <3>2, <1>a
    <2> QED
      BY <1>14, <2>3, <2>4 DEF Prune
  <1>15. CASE Reconcile
    BY <1>15, <1>b DEF Reconcile
  <1>16. CASE DeleteUnresolved
    <2>1. pc = "purge" /\ refs' \subseteq refs /\ UNCHANGED <<nodes, edges, row, cur>>
      BY <1>16 DEF DeleteUnresolved, DealWith
    <2>2. cur.step = "pick"
      BY <2>1 DEF Storing, TypeOK
    <2> QED
      BY <2>1, <2>2, <1>d
  <1> QED
    BY <1>0, <1>1, <1>2, <1>3, <1>4, <1>5, <1>6, <1>7, <1>8, <1>9, <1>10, <1>11, <1>12,
       <1>13, <1>14, <1>15, <1>16 DEF Next

----------------------------------------------------------------------------
(* The invariant, and what follows from it. *)

\* No death is forgotten.
LEMMA CrashesCounted == TypeOK /\ [Next]_vars /\ crashes' = 0 => crashes = 0
  <1> SUFFICES ASSUME TypeOK, [Next]_vars, crashes' = 0 PROVE crashes = 0
    OBVIOUS
  <1> USE DEF bounds
  <1>1. CASE UNCHANGED vars
    BY <1>1 DEF vars
  <1>2. CASE \E f \in Files : Edit(f) \/ Prune(f) \/ PickFile(f)
    BY <1>2 DEF Edit, Prune, PickFile
  <1>3. CASE (\E m \in {"sync", "index"} : Begin(m)) \/ Reconcile
    BY <1>3 DEF Begin, Reconcile
  <1>4. CASE DropOld \/ PutNodes \/ ReplayEdges \/ PutRefs \/ PutRow \/ PutText
    BY <1>4 DEF DropOld, PutNodes, ReplayEdges, PutRefs, PutRow, PutText
  <1>5. CASE StoreDone \/ InsertResolved \/ DeleteResolved \/ DeleteUnresolved
    BY <1>5 DEF StoreDone, InsertResolved, DeleteResolved, DeleteUnresolved
  <1>6. CASE Crash
    BY <1>6 DEF Crash, TypeOK
  <1> QED
    BY <1>1, <1>2, <1>3, <1>4, <1>5, <1>6 DEF Next

LEMMA IInvHolds == Spec => []IInv
  <1>1. Init => IInv
    <2> SUFFICES ASSUME Init PROVE IInv
      OBVIOUS
    <2>1. TypeOK /\ disk \in [Files -> Content] /\ Storing
      BY TypesHold
    <2>2. RowIsLate /\ RowVouches
      BY DEF Init, NoRows, NoCur, RowIsLate, RowVouches
    <2>3. Agree /\ TextIsKnown
      BY DEF Init, NoRows, NoCur, Agree, AgreeOn, InFlux, NodesIn, TextIsKnown, TextOf
    <2>4. Grounded
      BY DEF Init, NoCur, Grounded
    <2> QED
      BY <2>1, <2>2, <2>3, <2>4 DEF IInv
  <1>2. IInv /\ [Next]_vars => IInv'
    <2> SUFFICES ASSUME IInv, [Next]_vars PROVE IInv'
      OBVIOUS
    <2>1. TypeOK' /\ disk' \in [Files -> Content] /\ Storing'
      BY TypesKept DEF IInv
    <2>2. RowIsLate' /\ RowVouches'
      BY VouchesKept DEF IInv
    <2>3. crashes' = 0 => crashes = 0
      BY CrashesCounted DEF IInv
    <2>4. crashes' = 0 => Agree' /\ Grounded'
      BY <2>3, AgreeKept, GroundedKept DEF IInv
    <2>5. TextIsKnown'
      BY TextKept DEF IInv
    <2> QED
      BY <2>1, <2>2, <2>4, <2>5 DEF IInv
  <1> QED
    BY <1>1, <1>2, PTL DEF Spec

\* The tables have their types; no edge and no reference dangles: after any of the
\* transactions of storeExtractionResult and deleteFile, and after any death.
THEOREM TypeCorrect == Spec => []TypeOK
  BY IInvHolds, PTL DEF IInv

\* A row of `files` is a promise that survives any number of kills: the file's nodes are
\* all there, and each of its references is still waiting or was dealt with.
THEOREM RowsVouch == Spec => []RowVouches
  BY IInvHolds, PTL DEF IInv

\* The text index never holds a version that is not the recorded one, nor any text of a
\* file that is too large or unsafe; as long as nobody is killed, it holds all others, and
\* nodes and row are of one version whenever no run is in flight.
THEOREM TablesAgree == Spec => []Lockstep
  <1>1. IInv => Lockstep
    <2> SUFFICES ASSUME IInv, NEW f \in Files
                 PROVE  /\ text[f] # Absent => text[f] = TextOf(f, row[f])
                        /\ crashes = 0 /\ pc = "idle" =>
                              /\ text[f] = TextOf(f, row[f])
                              /\ NodesIn({f}) =
                                     IF row[f] = Absent THEN {} ELSE NodesOf(f, row[f])
      BY DEF Lockstep
    <2>1. text[f] # Absent => text[f] = TextOf(f, row[f])
      BY DEF IInv, TextIsKnown
    <2>2. pc = "idle" => ~InFlux(f)
      BY DEF IInv, Storing, InFlux
    <2> QED
      BY <2>1, <2>2 DEF IInv, Agree, AgreeOn
  <1> QED
    BY <1>1, IInvHolds, PTL

\* As long as nobody is killed, an edge stands for a reference in the stored version of
\* its source to a name that the stored version of its target defines.
THEOREM EdgesAreGrounded == Spec => []EdgesGrounded
  <1>1. IInv => EdgesGrounded
    <2> SUFFICES ASSUME IInv, crashes = 0, pc = "idle", NEW e \in edges
                 PROVE  LET f == FileOf(e[1])  g == FileOf(e[2]) IN
                        /\ row[f] # Absent /\ row[g] # Absent
                        /\ e[1] \in NodesOf(f, row[f]) /\ e[2] \in NodesOf(g, row[g])
                        /\ <<SymOf(e[1]), NameOf[SymOf(e[2])]>> \in RefsOf[row[f]]
      BY DEF EdgesGrounded
    <2>1. \A f \in Files : ~InFlux(f)
      BY DEF IInv, Storing, InFlux
    <2>2. ASSUME NEW id \in nodes
          PROVE  row[FileOf(id)] # Absent /\ id \in NodesOf(FileOf(id), row[FileOf(id)])
      <3>1. FileOf(id) \in Files /\ id \in NodesIn({FileOf(id)})
        BY DEF IInv, TypeOK, Ids, FileOf, NodesIn
      <3> QED
        BY <2>1, <3>1 DEF IInv, Agree, AgreeOn
    <2>3. e[1] \in nodes /\ e[2] \in nodes /\ FileOf(e[1]) \in Files
      BY DEF IInv, TypeOK, Ids, FileOf
    <2>4. <<SymOf(e[1]), NameOf[SymOf(e[2])]>> \in RefsOf[row[FileOf(e[1])]]
      BY <2>1, <2>3 DEF IInv, Grounded, Refers, VerOf
    <2> QED
      BY <2>2, <2>3, <2>4
  <1> QED
    BY <1>1, IInvHolds, PTL

----------------------------------------------------------------------------
(* The callers of a file that is indexed again. *)

\* A link that was resolved has its edge, or the edge is among those remembered and
\* will find a symbol of its target's kind and name.
Linked ==
    \A k \in links :
        \/ \E e \in edges : Restores(e, k)
        \/ /\ cur.step \in {"nodes", "edges"} /\ k[3] = cur.file
           /\ \E e \in incoming : Restores(e, k) /\ e[1] \in nodes
           /\ cur.step = "edges" => \E x \in Syms : Defines(cur.ver, x) /\ Same(x, k[4])

\* Every transaction keeps the callers' edges, unless the process is killed.
LEMMA LinkedKept ==
  IInv /\ Linked /\ [Next]_vars /\ crashes = 0 /\ crashes' = 0 => Linked'
  <1> SUFFICES ASSUME IInv, Linked, [Next]_vars, crashes = 0, crashes' = 0
               PROVE  Linked'
    OBVIOUS
  <1> USE GraphStoreAssumption DEF tables, scan, history, bounds
  <1>a. UNCHANGED <<links, edges, cur, incoming, nodes>> => Linked'
    BY DEF Linked, Restores, FileOf, SymOf, Defines, Same
  <1>b. /\ TypeOK /\ Storing /\ Agree
        /\ \A e \in edges : e[1] \in nodes /\ e[2] \in nodes
        /\ \A id \in nodes : FileOf(id) \in Files
    BY DEF IInv, TypeOK, Ids, FileOf
  <1>c. ASSUME cur.step \notin {"nodes", "edges"}, NEW k \in links
        PROVE  \E e \in edges : Restores(e, k)
    BY <1>c DEF Linked
  <1>d. ASSUME \A k \in links' : \E e \in edges' : Restores(e, k) PROVE Linked'
    BY <1>d DEF Linked, Restores, FileOf, SymOf, Same
  <1>0. CASE UNCHANGED vars
    BY <1>0, <1>a DEF vars
  <1>1. ASSUME NEW g \in Files, Edit(g) PROVE Linked'
    BY <1>1, <1>a DEF Edit
  <1>2. ASSUME NEW m \in {"sync", "index"}, Begin(m) PROVE Linked'
    BY <1>2, <1>a DEF Begin
  <1>3. ASSUME NEW g \in Files, PickFile(g) PROVE Linked'
    <2>1. cur.step \notin {"nodes", "edges"} /\ UNCHANGED <<links, edges>>
      BY <1>3 DEF PickFile
    <2> QED
      BY <1>c, <1>d, <2>1
  <1>4. CASE DropOld
    <2> DEFINE g == cur.file
    <2>1. /\ cur.step = "drop" /\ cur'.step = "nodes" /\ cur'.file = g /\ g \in Files
      BY <1>b, <1>4 DEF DropOld, After, Storing, TypeOK
    <2> HIDE DEF g
    <2>2. CASE row[g] = Absent
      <3>1. UNCHANGED <<links, edges>>
        BY <1>4, <2>2 DEF DropOld, g
      <3> QED
        BY <1>c, <1>d, <2>1, <3>1
    <2>3. CASE row[g] # Absent
      <3>1. /\ DeleteFiles({g}) /\ incoming' = IncomingOf(g)
            /\ links' = {k \in links : k[1] # g}
        BY <1>4, <2>3 DEF DropOld, g
      <3>2. ASSUME NEW k \in links'
            PROVE  \/ \E e \in edges' : Restores(e, k)
                   \/ k[3] = g /\ \E e \in incoming' : Restores(e, k) /\ e[1] \in nodes'
        <4>1. PICK e \in edges : Restores(e, k)
          BY <1>c, <2>1, <3>1
        <4>2. FileOf(e[1]) # g /\ FileOf(e[2]) = k[3]
          BY <3>1, <4>1 DEF Restores
        <4>3. CASE k[3] = g
          <5>1. e \in incoming' /\ e[1] \in nodes'
            BY <1>b, <3>1, <4>2, <4>3 DEF IncomingOf, DeleteFiles, NodesIn
          <5> QED
            BY <4>1, <4>3, <5>1
        <4>4. CASE k[3] # g
          BY <3>1, <4>1, <4>2, <4>4 DEF DeleteFiles, EdgesWithout, NodesIn
        <4> QED
          BY <4>3, <4>4
      <3> QED
        BY <2>1, <3>2 DEF Linked, Restores, FileOf, SymOf, Same
    <2> QED
      BY <2>2, <2>3
  <1>5. CASE PutNodes
    <2> DEFINE new == NodesOf(cur.file, cur.ver)
    <2>1. /\ cur.step = "nodes" /\ cur'.step = "edges" /\ cur'.file = cur.file
          /\ cur'.ver = cur.ver /\ cur.file \in Files /\ cur.ver \in Versions
          /\ nodes' = nodes \cup new /\ edges' = EdgesWithout(new) /\ incoming' = incoming
          /\ links' = {k \in links : k[3] = cur.file =>
                          \E x \in Syms : Defines(cur.ver, x) /\ Same(x, k[4])}
      BY <1>b, <1>5 DEF PutNodes, After, Storing, TypeOK
    <2>2. NodesIn({cur.file}) = {}
      BY <1>b, <2>1 DEF Agree, AgreeOn, InFlux
    <2>3. \A id \in new : id \notin nodes
      BY <2>1, <2>2, NodesOfFile DEF NodesIn
    <2> HIDE DEF new
    <2>4. edges' = edges
      BY <1>b, <2>1, <2>3 DEF EdgesWithout
    <2>5. ASSUME NEW k \in links'
          PROVE  \/ \E e \in edges' : Restores(e, k)
                 \/ /\ k[3] = cur.file
                    /\ \E x \in Syms : Defines(cur.ver, x) /\ Same(x, k[4])
                    /\ \E e \in incoming' : Restores(e, k) /\ e[1] \in nodes'
      BY <2>1, <2>4 DEF Linked
    <2> QED
      BY <2>1, <2>5 DEF Linked, Restores, FileOf, SymOf, Defines, Same
  <1>6. CASE ReplayEdges
    <2> DEFINE back == {e \in incoming : e[1] \in nodes /\ ReplayTargets(e) # {}}
    <2>1. /\ cur.step = "edges" /\ links' = links
          /\ cur.file \in Files /\ cur.ver \in Versions
      BY <1>b, <1>6 DEF ReplayEdges, Storing
    <2>2. PICK to \in [back -> nodes] :
             /\ \A e \in back : to[e] \in ReplayTargets(e)
             /\ edges' = edges \cup {<<e[1], to[e]>> : e \in back}
      BY <1>6 DEF ReplayEdges
    <2>3. ASSUME NEW k \in links' PROVE \E e \in edges' : Restores(e, k)
      <3>1. CASE \E e \in edges : Restores(e, k)
        BY <2>2, <3>1
      <3>2. CASE ~ \E e \in edges : Restores(e, k)
        <4>1. PICK x \in Syms : k[3] = cur.file /\ Defines(cur.ver, x) /\ Same(x, k[4])
          BY <2>1, <3>2 DEF Linked
        <4>2. PICK e \in incoming : Restores(e, k) /\ e[1] \in nodes
          BY <2>1, <3>2 DEF Linked
        <4>3. Id(cur.file, cur.ver, x) \in NodesOf(cur.file, cur.ver)
          BY <4>1 DEF NodesOf
        <4>4. Id(cur.file, cur.ver, x) \in ReplayTargets(e)
          BY <4>1, <4>2, <4>3 DEF ReplayTargets, Restores, Same, Id, SymOf
        <4>5. e \in back
          BY <4>2, <4>4
        <4> HIDE DEF back
        <4>6. to[e] \in NodesOf(cur.file, cur.ver) /\ Same(SymOf(to[e]), SymOf(e[2]))
          BY <2>2, <4>5 DEF ReplayTargets
        <4>7. FileOf(to[e]) = cur.file
          BY <2>1, <4>6, NodesOfFile
        <4>8. Restores(<<e[1], to[e]>>, k)
          BY <4>1, <4>2, <4>6, <4>7 DEF Restores, Same
        <4> QED
          BY <2>2, <4>5, <4>8
      <3> QED
        BY <3>1, <3>2
    <2> QED
      BY <2>3, <1>d
  <1>7. CASE PutRefs
    BY <1>7, <1>c, <1>d DEF PutRefs
  <1>8. CASE PutRow
    BY <1>8, <1>c, <1>d DEF PutRow
  <1>9. CASE PutText
    BY <1>9, <1>c, <1>d DEF PutText
  <1>10. CASE StoreDone
    BY <1>10, <1>a DEF StoreDone
  <1>11. CASE InsertResolved
    <2>1. PICK b \in Taken : \E target \in [{r \in b : Candidates(r[2]) # {}} -> nodes] :
              /\ edges' = edges \cup
                     {<<r[1], target[r]>> : r \in {r \in b : Candidates(r[2]) # {}}}
              /\ links' = links \cup {LinkOf(<<r[1], target[r]>>) : r \in
                     {x \in {r \in b : Candidates(r[2]) # {}} : FileOf(target[x]) # FileOf(x[1])}}
      BY <1>11 DEF InsertResolved
    <2> DEFINE hit == {r \in b : Candidates(r[2]) # {}}
    <2>2. PICK target \in [hit -> nodes] :
              /\ edges' = edges \cup {<<r[1], target[r]>> : r \in hit}
              /\ links' = links \cup {LinkOf(<<r[1], target[r]>>) : r \in
                              {x \in hit : FileOf(target[x]) # FileOf(x[1])}}
      BY <2>1
    <2>3. pc = "resolve"
      BY <1>11 DEF InsertResolved
    <2>4. cur.step \notin {"nodes", "edges"}
      BY <1>b, <2>3 DEF Storing
    <2> HIDE DEF hit
    <2>5. ASSUME NEW k \in links' PROVE \E e \in edges' : Restores(e, k)
      <3>1. CASE k \in links
        BY <1>c, <2>2, <2>4, <3>1
      <3>2. CASE k \notin links
        <4>1. PICK r \in hit : k = LinkOf(<<r[1], target[r]>>)
          BY <2>2, <3>2
        <4>2. <<r[1], target[r]>> \in edges'
          BY <2>2
        <4>3. Restores(<<r[1], target[r]>>, k)
          BY <4>1 DEF Restores, LinkOf, Same
        <4> QED
          BY <4>2, <4>3
      <3> QED
        BY <3>1, <3>2
    <2> QED
      BY <2>5, <1>d
  <1>12. CASE DeleteResolved
    BY <1>12, <1>a DEF DeleteResolved
  <1>13. CASE Crash
    BY <1>b, <1>13 DEF Crash, TypeOK
  <1>14. ASSUME NEW g \in Files, Prune(g) PROVE Linked'
    <2>1. pc = "prune" /\ cur' = cur /\ incoming' = incoming
      BY <1>14 DEF Prune
    <2>2. cur.step \notin {"nodes", "edges"}
      BY <1>b, <2>1 DEF Storing
    <2>3. CASE UNCHANGED <<tables, history>>
      BY <2>1, <2>3, <1>a
    <2>4. CASE DeleteFiles({g}) /\ links' = {k \in links : k[1] # g /\ k[3] # g}
      <3>1. ASSUME NEW k \in links' PROVE \E e \in edges' : Restores(e, k)
        <4>1. PICK e \in edges : Restores(e, k)
          BY <1>c, <2>2, <2>4
        <4>2. FileOf(e[1]) # g /\ FileOf(e[2]) # g
          BY <2>4, <4>1 DEF Restores
        <4> QED
          BY <2>4, <4>1, <4>2 DEF DeleteFiles, EdgesWithout, NodesIn
      <3> QED
        BY <3>1, <1>d
    <2> QED
      BY <1>14, <2>3, <2>4 DEF Prune
  <1>15. CASE Reconcile
    BY <1>15, <1>a DEF Reconcile
  <1>16. CASE DeleteUnresolved
    BY <1>16, <1>a DEF DeleteUnresolved
  <1> QED
    BY <1>0, <1>1, <1>2, <1>3, <1>4, <1>5, <1>6, <1>7, <1>8, <1>9, <1>10, <1>11, <1>12,
       <1>13, <1>14, <1>15, <1>16 DEF Next

\* As long as nobody is killed, indexing a callee again loses no caller's edge:
\* getCrossFileIncomingEdgesWithTarget and the replay in storeExtractionResult bring each
\* back to a symbol of the kind and name that it went to, if the new version has one.
THEOREM CallersAreKept == Spec => []EdgesKeptWithoutCrash
  <1>1. Init => (crashes = 0 => Linked)
    BY DEF Init, Linked
  <1>2. IInv /\ (crashes = 0 => Linked) /\ [Next]_vars => (crashes = 0 => Linked)'
    <2>1. IInv /\ [Next]_vars /\ crashes' = 0 => crashes = 0
      BY CrashesCounted DEF IInv
    <2> QED
      BY <2>1, LinkedKept
  <1>3. IInv /\ (crashes = 0 => Linked) => EdgesKeptWithoutCrash
    BY DEF IInv, Storing, Linked, EdgesKeptWithoutCrash, CallerEdgesKept
  <1> QED
    BY <1>1, <1>2, <1>3, IInvHolds, PTL DEF Spec
=============================================================================
