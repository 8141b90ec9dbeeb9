----------------------------- MODULE Traversal -----------------------------
(***************************************************************************)
(* The traversals of the graph (GraphTraverser, and the search for cycles  *)
(* of GraphQueryManager): breadth first with a queue, or depth first by    *)
(* recursion, here with a stack of frames.  One query is answered, on any  *)
(* graph; the order in which a query returns adjacent edges is SQLite's,   *)
(* so any order will do.                                                   *)
(*                                                                         *)
(* An edge <<s, t>> of deps says that s depends on t: calls it, imports    *)
(* it, extends it.  Containment edges are apart, in Members.  A search     *)
(* with direction "incoming" or "both" differs in the edges alone.         *)
(***************************************************************************)
EXTENDS Integers, Sequences, FiniteSets, SequencesExt

CONSTANTS
    Nodes,
    Members,        \* <<container, member>> pairs, of containers only
    Wanted,         \* nodes whose kind is in opts.nodeKinds
    Bridges,        \* edges that are of a kind of BRIDGE_EDGE_KINDS, if they exist
    Graphs,         \* the sets of edges considered
    Depths,         \* values of maxDepth
    Limits          \* values of opts.limit

ASSUME TraversalAssumption ==
    /\ IsFiniteSet(Nodes)
    /\ Members \subseteq Nodes \X Nodes
    /\ Wanted \subseteq Nodes
    /\ Bridges \subseteq Nodes \X Nodes
    /\ Graphs \subseteq SUBSET (Nodes \X Nodes)
    /\ Depths \subseteq Nat \ {0}
    /\ Limits \subseteq Nat \ {0, 1}

Ops == {"bfs", "path", "dfs", "callers", "types", "impact", "cycles"}

VARIABLES
    op,             \* the query
    deps,           \* edges of the graph
    from, to,       \* startId; toId of findPath
    maxDepth, limit,
    work,           \* queue of steps, queue of paths, or stack of calls
    visited,
    nodes, edges,   \* the subgraph that is returned
    half,           \* getTypeHierarchy: looking "up" or "down"
    frontier,       \* getImpactRadius: what lies beyond maxDepth
    found           \* findPath: the path; findCircularDependencies: the cycles

query == <<op, deps, from, to, maxDepth, limit>>
vars == <<query, work, visited, nodes, edges, half, frontier, found>>

Targets(E, n) == {t \in Nodes : <<n, t>> \in E}
Sources(E, n) == {s \in Nodes : <<s, n>> \in E}

\* The filter of nodeKinds, which lets the targets of bridge edges through.
Passes(e) == e[2] \in Wanted \/ e \in Bridges

\* The neighbours a recursive function goes through, after the members of a container.
Adjacent(n) ==
    CASE op \in {"callers", "impact"} \/ half = "down" -> Sources(deps, n)
      [] op = "dfs" -> {t \in Targets(deps, n) : Passes(<<n, t>>)}
      [] OTHER -> Targets(deps, n)

\* The members of a container, which only the impact of a node has with it.
Contained == IF op = "impact" THEN Members ELSE {}

Kids(n) == Targets(Contained, n)

Frame(n, d) == [node |-> n, depth |-> d, kids |-> Kids(n), rest |-> Adjacent(n)]

----------------------------------------------------------------------------
(* The query. *)

Recursive == {"dfs", "callers", "types", "impact"}

Init ==
    /\ op \in Ops
    /\ deps \in Graphs
    /\ from \in Nodes
    /\ to \in IF op = "path" THEN Nodes ELSE {from}
    /\ maxDepth \in IF op \in {"bfs", "dfs", "callers", "impact"} THEN Depths ELSE {0}
    /\ limit \in IF op \in {"bfs", "dfs"} THEN Limits ELSE {0}
    /\ half = "up"
    /\ work = CASE op = "bfs" -> <<[node |-> from, via |-> {}, depth |-> 0]>>
                [] op = "path" -> <<<<from>>>>
                [] op \in Recursive -> <<Frame(from, 0)>>
                [] OTHER -> <<>>
    /\ visited = IF op \in Recursive THEN {from} ELSE {}
    /\ nodes = IF op \in {"callers", "path", "cycles"} THEN {} ELSE {from}
    /\ edges = {}
    /\ frontier = {}
    /\ found = {}

----------------------------------------------------------------------------
(* Breadth first *)

\* Mutant: the depth limit is one too high.
DeepEnoughOrOneMore(d) == d > maxDepth

DeepEnough(d) == d >= maxDepth

\* One step of traverseBFS.
Bfs ==
    LET step == Head(work)
        next == IF DeepEnough(step.depth) THEN {}
                ELSE {t \in Targets(deps, step.node) \ (visited \cup {step.node}) : Passes(<<step.node, t>>)}
    IN  /\ op = "bfs" /\ work # <<>> /\ Cardinality(nodes) < limit
        /\ visited' = visited \cup {step.node}
        /\ IF step.node \in visited
           THEN work' = Tail(work) /\ UNCHANGED <<nodes, edges>>
           ELSE /\ edges' = edges \cup step.via
                /\ nodes' = nodes \cup next
                /\ \E order \in SetToSeqs(next) :
                       work' = Tail(work) \o [i \in DOMAIN order |->
                           [node |-> order[i], via |-> {<<step.node, order[i]>>},
                            depth |-> step.depth + 1]]
        /\ UNCHANGED <<query, half, frontier, found>>

\* Mutant: depth first.
Pushed(paths) == paths \o Tail(work)

Queued(paths) == Tail(work) \o paths

\* One step of findPath.
Path ==
    LET path == Head(work)
        n == Last(path)
    IN  /\ op = "path" /\ work # <<>> /\ found = {}
        /\ IF n = to
           THEN found' = {path} /\ UNCHANGED <<work, visited>>
           ELSE /\ UNCHANGED found
                /\ visited' = visited \cup {n}
                /\ IF n \in visited
                   THEN work' = Tail(work)
                   ELSE \E order \in SetToSeqs(Targets(deps, n) \ visited') :
                            work' = Queued([i \in DOMAIN order |-> Append(path, order[i])])
        /\ UNCHANGED <<query, nodes, edges, half, frontier>>

----------------------------------------------------------------------------
(* Depth first: dfsRecursive, getCallersRecursive (and getCalleesRecursive), *)
(* getTypeAncestors, getImpactRecursive.                                     *)

Top == Last(work)
Popped == Front(work)

Return ==
    /\ work # <<>> /\ op \in Recursive \cup {"cycles"}
    /\ Top.kids = {} /\ Top.rest = {}
    /\ work' = Popped
    /\ UNCHANGED <<query, visited, nodes, edges, half, frontier, found>>

\* The loop records the neighbour and calls itself.
Records(m) ==
    IF op = "types" \/ (op = "impact" /\ Top.kids = {}) THEN m \notin nodes ELSE m \notin visited

\* Mutant: the depth limit is one too high.
EntersOneDeeper(m, d) ==
    /\ m \notin visited
    /\ op # "types" => d <= maxDepth
    /\ op = "dfs" => Cardinality(nodes') < limit

\* The call goes on past its first lines.
Enters(m, d) ==
    /\ m \notin visited
    /\ op # "types" => d < maxDepth
    /\ op = "dfs" => Cardinality(nodes') < limit

\* Mutant: what lies beyond the limit is not noted.
NothingBeyond(m, N) == {}

\* A call at the depth limit notes who depends on the node.
Beyond(m, N) == IF op = "impact" /\ m \notin visited THEN Sources(deps, m) \ N ELSE {}

Visit ==
    /\ work # <<>> /\ op \in Recursive
    /\ \E m \in IF Top.kids # {} THEN Top.kids ELSE Top.rest :
        LET kid == Top.kids # {}
            d == IF kid THEN Top.depth ELSE Top.depth + 1
            left == Append(Popped, [Top EXCEPT !.kids = @ \ {m}, !.rest = IF kid THEN @ ELSE @ \ {m}])
        IN  IF Records(m)
            THEN /\ nodes' = nodes \cup {m}
                 /\ edges' = edges \cup {<<Top.node, m>>}
                 /\ visited' = IF Enters(m, d) THEN visited \cup {m} ELSE visited
                 /\ work' = IF Enters(m, d) THEN Append(left, Frame(m, d)) ELSE left
                 /\ frontier' = IF Enters(m, d) THEN frontier ELSE frontier \cup Beyond(m, nodes')
            ELSE work' = left /\ UNCHANGED <<nodes, edges, visited, frontier>>
    /\ UNCHANGED <<query, half, found>>

\* getTypeDescendants, with the visited set of getTypeAncestors.
Descend ==
    /\ op = "types" /\ half = "up" /\ work = <<>>
    /\ half' = "down"
    /\ work' = IF from \in visited THEN <<>> ELSE <<[Frame(from, 0) EXCEPT !.rest = Sources(deps, from)]>>
    /\ UNCHANGED <<query, visited, nodes, edges, frontier, found>>

----------------------------------------------------------------------------
(* findCircularDependencies *)

OnStack == {work[i].node : i \in DOMAIN work}

\* The stack from the call of m on.
CycleAt(m) ==
    LET start == CHOOSE i \in DOMAIN work : work[i].node = m
    IN  [i \in 1..(Len(work) - start + 1) |-> work[start + i - 1].node]

NextRoot ==
    /\ op = "cycles" /\ work = <<>>
    /\ \E f \in Nodes \ visited :
        /\ visited' = visited \cup {f}
        /\ work' = <<Frame(f, 0)>>
    /\ UNCHANGED <<query, nodes, edges, half, frontier, found>>

\* Mutant: a file that was seen is passed over, even if the search is still in it.
PassedOver(m) == FALSE

Closes(m) == m \in OnStack

Seen(m) == m \in visited

Dependency ==
    /\ op = "cycles" /\ work # <<>>
    /\ \E m \in Top.rest :
        LET left == Append(Popped, [Top EXCEPT !.rest = @ \ {m}])
        IN  /\ found' = IF Closes(m) THEN found \cup {CycleAt(m)} ELSE found
            /\ visited' = visited \cup {m}
            /\ work' = IF Seen(m) THEN left ELSE Append(left, Frame(m, 0))
    /\ UNCHANGED <<query, nodes, edges, half, frontier>>

----------------------------------------------------------------------------
Next == Bfs \/ Path \/ Return \/ Visit \/ Descend \/ NextRoot \/ Dependency

Spec == Init /\ [][Next]_vars

Done ==
    CASE op = "bfs" -> work = <<>> \/ Cardinality(nodes) >= limit
      [] op = "path" -> work = <<>> \/ found # {}
      [] op = "cycles" -> work = <<>> /\ visited = Nodes
      [] OTHER -> work = <<>> /\ (op = "types" => half = "down")

----------------------------------------------------------------------------
(* What the answers should be. *)

\* The edges a query follows, from the node it is at to the next.
Followed ==
    CASE op \in {"bfs", "dfs"} -> {e \in deps : Passes(e)}
      [] op \in {"callers", "impact"} -> {<<e[2], e[1]>> : e \in deps}
      [] OTHER -> deps

Closed(E, S) == \A e \in E : e[1] \in S => e[2] \in S

\* What can be reached from S: what is in every set that has S and is closed.
Reached(E, S) == {n \in Nodes : \A C \in SUBSET Nodes : S \subseteq C /\ Closed(E, C) => n \in C}

\* One step along E from S. A container brings its members in, and these theirs: as deep as it is.
Onward(E, M, S) == Reached(M, S \cup UNION {Targets(E, n) : n \in S})

\* The nodes at most d steps away from s.
Within(E, M, s) ==
    LET B[d \in Nat] == IF d = 0 THEN Reached(M, {s}) ELSE Onward(E, M, B[d - 1])
    IN  B

Ball == Within(Followed, Contained, from)

Closure == Reached(Followed \cup Contained, {from})

Reach(E) == [n \in Nodes |-> Reached(E, {n})]

\* The files that are on a cycle.
Cyclic == LET R == Reach(deps) IN {n \in Nodes : \E m \in Targets(deps, n) : n \in R[m]}

----------------------------------------------------------------------------
(* Properties *)

\* Types; and no recursion is deeper than the graph has nodes.
TypeOK ==
    /\ op \in Ops
    /\ deps \subseteq Nodes \X Nodes
    /\ visited \subseteq Nodes
    /\ nodes \subseteq Nodes
    /\ edges \subseteq Nodes \X Nodes
    /\ frontier \subseteq Nodes
    /\ half \in {"up", "down"}
    /\ op \in Recursive \cup {"cycles"} => Len(work) <= Cardinality(Nodes)

\* Breadth first, nothing is missed and nothing is too far, whatever the order of the
\* edges, though a node is put in the answer before its step is taken from the queue; the
\* edges are a spanning tree.  At the limit, the answer is a part of that
\* (traversal.ts:81-131).
BfsExact ==
    op = "bfs" /\ Done =>
        /\ nodes \subseteq Ball[maxDepth]
        /\ work = <<>> =>
            /\ nodes = Ball[maxDepth]
            /\ \A n \in nodes \ {from} : Cardinality(Sources(edges, n)) = 1
            /\ Sources(edges, from) = {}

\* findPath returns a path, none shorter exists, and none is returned only if there is no
\* path (traversal.ts:615-655).
PathShortest ==
    op = "path" /\ Done =>
        IF found = {} THEN to \notin Closure
        ELSE \A p \in found :
                /\ Head(p) = from /\ Last(p) = to
                /\ \A i \in 1..(Len(p) - 1) : <<p[i], p[i + 1]>> \in deps
                /\ Len(p) > 1 => to \notin Ball[Len(p) - 2]

\* Depth first with a depth limit, nothing too far is returned; all that is asked for is,
\* at depth 1 and when the limit is out of reach: in between, what is first reached on a
\* long way is not expanded again on a shorter one (traversal.ts:172-211, :264-295).  A
\* type hierarchy, without a limit, has all the ancestors, each with one edge (:418-440).
WalkExact ==
    /\ op \in {"callers", "dfs"} /\ Done =>
        /\ nodes \subseteq Ball[maxDepth]
        /\ maxDepth = 1 \/ maxDepth >= Cardinality(Nodes) =>
               (op = "dfs" /\ Cardinality(nodes) >= limit) \/ nodes \cup {from} = Ball[maxDepth]
    /\ op = "types" /\ Done =>
        Closure \subseteq nodes /\ Cardinality(edges) = Cardinality(nodes) - 1

\* getImpactRadius says that it left something out if it did, unless the depth limit cut
\* off the members of a container (traversal.ts:518-530, :550-556).
ImpactHonest ==
    op = "impact" /\ Done =>
        /\ nodes \subseteq Ball[maxDepth]
        /\ frontier \subseteq nodes /\ (\A n \in nodes : Kids(n) = {} \/ n \in visited) => nodes = Closure

\* A search for cycles finds one through every strongly connected part that has any,
\* whatever the order of the files, and what it finds are cycles (queries.ts:237-276).
CyclesFound ==
    op = "cycles" /\ Done =>
        /\ \A c \in found :
               \A i \in DOMAIN c : <<c[i], c[IF i = Len(c) THEN 1 ELSE i + 1]>> \in deps
        /\ LET R == Reach(deps) IN
           \A n \in Cyclic : \E c \in found : \A i \in DOMAIN c : c[i] \in R[n] /\ n \in R[c[i]]

\* "Returns both ancestors (types this extends/implements) and descendants (types that
\* extend/implement this)" (index.ts:968). This does not hold: the focal type is in visited
\* when Descend begins, which therefore ends there.
SubtypesFound ==
    op = "types" /\ Done => {n \in Nodes : from \in Reach(deps)[n]} \subseteq nodes
=============================================================================
