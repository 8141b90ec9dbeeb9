-------------------------- MODULE SessionContract --------------------------
(***************************************************************************)
(* What an MCP host relies on, whoever serves it: as long as the session   *)
(* is open, every request it makes is answered exactly once.               *)
(***************************************************************************)
EXTENDS Naturals

CONSTANT Ids        \* JSON-RPC ids of the host's requests

VARIABLES
    open,           \* the session exists
    asked,          \* requests made
    replies         \* Ids -> number of replies received

vars == <<open, asked, replies>>

Init ==
    /\ open = TRUE
    /\ asked = {}
    /\ replies = [i \in Ids |-> 0]

Ask(i) ==
    /\ open /\ i \notin asked
    /\ asked' = asked \cup {i}
    /\ UNCHANGED <<open, replies>>

Answer(i) ==
    /\ open /\ i \in asked /\ replies[i] = 0
    /\ replies' = [replies EXCEPT ![i] = 1]
    /\ UNCHANGED <<open, asked>>

\* A request that is answered in the same breath.
AskAndAnswer(i) ==
    /\ open /\ i \notin asked /\ replies[i] = 0
    /\ asked' = asked \cup {i}
    /\ replies' = [replies EXCEPT ![i] = 1]
    /\ UNCHANGED open

\* Several requests answered with one stroke.
AnswerAll(S) ==
    /\ open /\ S \subseteq asked
    /\ \A i \in S : replies[i] = 0
    /\ replies' = [i \in Ids |-> IF i \in S THEN 1 ELSE replies[i]]
    /\ UNCHANGED <<open, asked>>

Close ==
    /\ open
    /\ open' = FALSE
    /\ UNCHANGED <<asked, replies>>

Next ==
    \/ \E i \in Ids : Ask(i) \/ Answer(i) \/ AskAndAnswer(i)
    \/ \E S \in SUBSET Ids : AnswerAll(S)
    \/ Close

SafeSpec == Init /\ [][Next]_vars

Spec == SafeSpec /\ \A i \in Ids : WF_vars(Answer(i))
=============================================================================
