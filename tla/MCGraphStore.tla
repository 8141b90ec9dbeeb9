---------------------------- MODULE MCGraphStore ----------------------------
(* Values of the constants of GraphStore for TLC: two files that refer to each
   other.  a1 calls a function of B by its name, and a2 is too large to parse;
   the versions of B define a function t of that name, two such functions in
   different scopes, a class w of that name, or a function x of another name.
   The text of B must not be kept. *)
EXTENDS GraphStore, TLC

CONSTANTS A, B, a1, a2, b1, b2, b3, b4, s, t, u, w, x

MCFiles      == {A, B}
MCSyms       == {s, t, u, w, x}
MCVersions   == {a1, a2, b1, b2, b3, b4}
MCVersionsOf == (A :> {a1, a2}) @@ (B :> {b1, b2, b3, b4})
MCOversized  == {a2}
MCRawUnsafe  == {B}

\* t, u and w share a name; of these, t and u are of one kind.
MCNameOf == (s :> "caller") @@ (t :> "callee") @@ (u :> "callee") @@ (w :> "callee")
            @@ (x :> "other")
MCKindOf == [y \in MCSyms |-> IF y = w THEN "class" ELSE "function"]

\* The version that defines these symbols on these lines.
Version(lines) == [y \in MCSyms |-> IF y \in DOMAIN lines THEN lines[y] ELSE 0]

MCLineOf ==
    (a1 :> Version(s :> 1)) @@ (a2 :> [y \in MCSyms |-> 0]) @@
    (b1 :> Version(t :> 1)) @@ (b2 :> Version((u :> 1) @@ (t :> 2))) @@
    (b3 :> Version(x :> 1)) @@ (b4 :> Version(w :> 1))

MCRefsOf ==
    (a1 :> {<<s, "callee">>}) @@ (a2 :> {}) @@
    (b1 :> {<<t, "caller">>}) @@ (b2 :> {<<t, "caller">>}) @@ (b3 :> {}) @@ (b4 :> {})
=============================================================================
