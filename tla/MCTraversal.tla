---------------------------- MODULE MCTraversal ----------------------------
(* Four nodes, every graph of at most MaxEdges edges and perhaps a loop.    *)
EXTENDS Traversal

CONSTANTS n1, n2, n3, n4, MaxEdges

Pairs == {e \in Nodes \X Nodes : e[1] # e[2]}
MCGraphs ==
    {E \cup loop : E \in UNION {kSubset(k, Pairs) : k \in 0..MaxEdges}, loop \in {{}, {<<n1, n1>>}}}
MCMembers == {<<n2, n3>>}
MCBridges == {<<n1, n4>>, <<n2, n4>>}
=============================================================================
