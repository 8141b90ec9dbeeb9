------------------------- MODULE ParseWorkerProofs -------------------------
(***************************************************************************)
(* For every finite set of files, every number of worker threads and every *)
(* recycling interval: the counts follow the files, each file is stored or *)
(* reported, and no thread is left behind, in whatever order workers       *)
(* answer, die, hang and are replaced.                                     *)
(***************************************************************************)
EXTENDS ParseWorker, FiniteSetTheorems, TLAPS

\* Types of what the loop and the event handlers keep.
LoopTyped ==
    /\ pass \in Passes
    /\ at \in {"next", "load", "parse", "stat"} \cup Ended
    /\ file \in Files \cup {None} /\ result \in Files \cup {None}
    /\ todo \subseteq Files
    /\ failing \subseteq Files
    /\ pending \in Requests \cup {None}
    /\ pending # None => at = "parse" /\ pending = <<file, pass>>
    /\ indexed \in Nat /\ skipped \in Nat /\ errored \in Int
    /\ errors \in [Files -> Kinds \cup {None}]
    /\ stored \in [Files -> Kept \cup {None}]
    /\ recovered \in [Files -> Kinds \cup {None}]

\* Types of what is known of the threads.
ThreadTyped ==
    /\ parseWorker \in Workers \cup {None}
    /\ count \in 0..RecycleInterval
    /\ wstate \in [Workers -> Alive \cup {"exiting", "gone"}]
    /\ jobs \in [Workers -> Seq(Requests)]
    /\ replies \subseteq Workers \X Requests

\* The files of this pass that are not dealt with.
Open == todo \cup ({file} \ {None})

\* The loop has a file exactly where it works on one; the retries are of files whose entry
\* can be retried, and what is to be retried once more was retried once.
LoopInv ==
    /\ at \in {"parse", "stat"} => file \in Files
    /\ at = "stat" => pass # "main" /\ result = file
    /\ at \in {"next", "done", "aborted"} => file = None
    /\ at = "done" => todo = {}
    /\ file \notin todo
    /\ pass = "main" => failing = {}
    /\ pass # "main" => \A f \in Open : errors[f] \in Retryable
    /\ pass = "retry" => \A f \in failing : errors[f] \in Retryable /\ f \notin Open

\* What was dealt with is stored or has an entry that says why it is not; an entry that a
\* retry removed stays away.
Dealt(f) ==
    /\ stored[f] = None <=> errors[f] \in ErrorKinds \cup {"warnings"}
    /\ stored[f] # None =>
        /\ stored[f].from = f
        /\ stored[f].whole \/ errors[f] # None \/ recovered[f] # None
    /\ recovered[f] # None => errors[f] = None

\* A file that the first pass has not dealt with has nothing yet.
Fresh(f) == stored[f] = None /\ errors[f] = None /\ recovered[f] = None

Results == \A f \in Files : IF pass = "main" /\ f \in Open THEN Fresh(f) ELSE Dealt(f)

Body    == LoopTyped /\ LoopInv /\ Results /\ CountsAddUp
Threads == ThreadTyped /\ NoThreadLeft /\ (at = "load" => count = 0)

IInv == Body /\ Threads /\ aborted \in BOOLEAN

----------------------------------------------------------------------------
(* Counting. *)

\* The files reported as failed, and those whose memory error was retried though they had
\* not failed.
Faulty == {f \in Files : errors[f] \in ErrorKinds}
Extra  == {f \in Files : recovered[f] = "partial"}

\* Taking a file out of a set of files, and putting it in, counts one.
LEMMA CountOne ==
  ASSUME NEW S \in SUBSET Files, NEW f \in Files
  PROVE  /\ Cardinality(S) \in Nat
         /\ f \in S => Cardinality(S \ {f}) = Cardinality(S) - 1
         /\ f \notin S => Cardinality(S \cup {f}) = Cardinality(S) + 1
  <1>1. IsFiniteSet(S)
    BY FS_Subset, ParseWorkerAssumption
  <1> QED
    BY <1>1, FS_CardinalityType, FS_RemoveElement, FS_AddElement

LEMMA FilesCounted == Cardinality(Files) \in Nat
  BY FS_CardinalityType, ParseWorkerAssumption

\* One of the three counts goes up by one, that of the errors exactly if the entry is one
\* of a failed file.
LEMMA SettleCounts ==
  ASSUME LoopTyped, CountsAddUp, NEW f \in Files, Fresh(f),
         NEW kept \in Kept \cup {None}, NEW kind \in Kinds \cup {None},
         NEW side \in {"indexed", "skipped", "errored"},
         side = "errored" <=> kind \in ErrorKinds,
         Settle(f, kept, kind, side)
  PROVE  /\ Sum3' = Sum3 + 1
         /\ errored' = Cardinality(Faulty') - Cardinality(Extra')
         /\ indexed' \in Nat /\ skipped' \in Nat /\ errored' \in Int
         /\ errors' = [errors EXCEPT ![f] = kind] /\ errors' \in [Files -> Kinds \cup {None}]
         /\ stored' = [stored EXCEPT ![f] = kept] /\ stored' \in [Files -> Kept \cup {None}]
         /\ recovered' = recovered
  <1> USE ParseWorkerAssumption
  <1>1. /\ errors' = [errors EXCEPT ![f] = kind] /\ stored' = [stored EXCEPT ![f] = kept]
        /\ indexed' = indexed + (IF side = "indexed" THEN 1 ELSE 0)
        /\ skipped' = skipped + (IF side = "skipped" THEN 1 ELSE 0)
        /\ errored' = errored + (IF side = "errored" THEN 1 ELSE 0)
        /\ recovered' = recovered
    BY DEF Settle
  <1>2. Sum3' = Sum3 + 1 /\ indexed' \in Nat /\ skipped' \in Nat /\ errored' \in Int
    BY <1>1 DEF Sum3, LoopTyped
  <1>3. errors' \in [Files -> Kinds \cup {None}] /\ stored' \in [Files -> Kept \cup {None}]
    BY <1>1 DEF LoopTyped
  <1>4. Extra' = Extra /\ Extra \subseteq Files /\ Faulty \subseteq Files /\ f \notin Faulty
    BY <1>1 DEF Extra, Faulty, Fresh, Kinds
  <1>5. Faulty' = IF side = "errored" THEN Faulty \cup {f} ELSE Faulty
    BY <1>1 DEF Faulty, LoopTyped, Fresh, Kinds
  <1>6. errored = Cardinality(Faulty) - Cardinality(Extra)
    BY DEF CountsAddUp, Faulty, Extra
  <1>7. /\ Cardinality(Faulty) \in Nat /\ Cardinality(Extra) \in Nat
        /\ Cardinality(Faulty \cup {f}) = Cardinality(Faulty) + 1
    BY <1>4, CountOne
  <1>8. errored' = Cardinality(Faulty') - Cardinality(Extra')
    BY <1>1, <1>4, <1>5, <1>6, <1>7 DEF LoopTyped
  <1> QED
    BY <1>1, <1>2, <1>3, <1>8

\* A file that recovers counts as one error less, be it one that had failed or not.
LEMMA RecoveredCounts ==
  ASSUME LoopTyped, CountsAddUp, NEW f \in Files, errors[f] \in Retryable, Dealt(f),
         Recovered(f, f)
  PROVE  /\ Sum3' = Sum3
         /\ errored' = Cardinality(Faulty') - Cardinality(Extra')
         /\ indexed' \in Nat /\ skipped' \in Nat /\ errored' \in Int
         /\ errors' = [errors EXCEPT ![f] = None] /\ errors' \in [Files -> Kinds \cup {None}]
         /\ recovered' = [recovered EXCEPT ![f] = errors[f]]
         /\ recovered' \in [Files -> Kinds \cup {None}]
         /\ stored' \in [Files -> Kept \cup {None}]
         /\ stored'[f] # None /\ stored'[f].from = f
         /\ \A g \in Files \ {f} : stored'[g] = stored[g]
  <1> USE ParseWorkerAssumption
  <1>1. /\ errors' = [errors EXCEPT ![f] = None] /\ recovered' = [recovered EXCEPT ![f] = errors[f]]
        /\ errored' = errored - 1 /\ indexed' = indexed + 1 /\ skipped' = skipped
        /\ RetryStored(f, f)
    BY DEF Recovered
  <1>2. /\ errors' \in [Files -> Kinds \cup {None}] /\ recovered' \in [Files -> Kinds \cup {None}]
        /\ Sum3' = Sum3 /\ indexed' \in Nat /\ skipped' \in Nat /\ errored' \in Int
    BY <1>1 DEF LoopTyped, Sum3
  <1>3. /\ stored' \in [Files -> Kept \cup {None}]
        /\ stored'[f] # None /\ stored'[f].from = f
        /\ \A g \in Files \ {f} : stored'[g] = stored[g]
    <2>1. PICK kept \in Kept : kept.from = f /\ stored' = [stored EXCEPT ![f] = kept]
      <3>1. CASE stored[f] # None /\ stored' = stored
        <4>1. stored[f] \in Kept /\ stored[f].from = f /\ stored' = [stored EXCEPT ![f] = stored[f]]
          BY <3>1 DEF LoopTyped, Dealt
        <4> QED
          BY <4>1
      <3>2. ASSUME NEW whole \in BOOLEAN,
                   stored' = [stored EXCEPT ![f] = [from |-> f, whole |-> whole]]
            PROVE  \E kept \in Kept : kept.from = f /\ stored' = [stored EXCEPT ![f] = kept]
        <4>1. [from |-> f, whole |-> whole] \in Kept
          BY DEF Kept
        <4> QED
          BY <3>2, <4>1
      <3> QED
        BY <1>1, <3>1, <3>2 DEF RetryStored
    <2> QED
      BY <2>1 DEF LoopTyped
  <1>4. /\ Extra \subseteq Files /\ Faulty \subseteq Files /\ f \notin Extra
        /\ errored = Cardinality(Faulty) - Cardinality(Extra)
    BY DEF Extra, Faulty, Dealt, CountsAddUp, Retryable, Kinds, ErrorKinds
  <1>5. /\ Cardinality(Faulty) \in Nat /\ Cardinality(Extra) \in Nat
        /\ Cardinality(Extra \cup {f}) = Cardinality(Extra) + 1
        /\ f \in Faulty => Cardinality(Faulty \ {f}) = Cardinality(Faulty) - 1
    BY <1>4, CountOne
  <1>6. errored' = Cardinality(Faulty') - Cardinality(Extra')
    <2>1. CASE errors[f] = "partial"
      <3>1. Faulty' = Faulty /\ Extra' = Extra \cup {f}
        BY <1>1, <2>1 DEF Faulty, Extra, LoopTyped, ErrorKinds, Kinds
      <3> QED
        BY <1>1, <1>4, <1>5, <3>1 DEF LoopTyped
    <2>2. CASE errors[f] # "partial"
      <3>1. Faulty' = Faulty \ {f} /\ f \in Faulty /\ Extra' = Extra
        BY <1>1, <1>4, <2>2 DEF Faulty, Extra, LoopTyped, ErrorKinds, Kinds, Retryable
      <3> QED
        BY <1>1, <1>4, <1>5, <3>1 DEF LoopTyped
    <2> QED
      BY <2>1, <2>2
  <1> QED
    BY <1>1, <1>2, <1>3, <1>6

----------------------------------------------------------------------------
(* The loop and the results. *)

LEMMA BodyStays == Body /\ UNCHANGED <<loopVars, pending, resultVars>> => Body'
  BY DEF Body, LoopTyped, LoopInv, Results, Dealt, Fresh, CountsAddUp, Open, Sum3, loopVars,
         resultVars

\* What the results say follows from the counts and the files that are open.
LEMMA ResultsStay ==
  ASSUME Body, UNCHANGED <<pass, todo, file, resultVars>>
  PROVE  Results' /\ CountsAddUp'
  BY DEF Body, Results, Dealt, Fresh, CountsAddUp, Open, Sum3, resultVars

\* The same outside the first pass, whatever file the loop works on.
LEMMA ResultsStayLater ==
  ASSUME Body, pass # "main", UNCHANGED <<pass, resultVars>>
  PROVE  Results' /\ CountsAddUp'
  BY DEF Body, Results, Dealt, Fresh, CountsAddUp, Sum3, resultVars

\* The first pass is done with a file, which it had asked a worker for or only read.
LEMMA SettleKeeps ==
  ASSUME Body, pass = "main", NEW f \in Files,
         NEW kept \in Kept \cup {None}, NEW kind \in Kinds \cup {None},
         NEW side \in {"indexed", "skipped", "errored"},
         Settle(f, kept, kind, side),
         side = "errored" <=> kind \in ErrorKinds,
         kept = None <=> kind \in ErrorKinds \cup {"warnings"},
         kept # None => kept.from = f /\ (kept.whole \/ kind # None),
         UNCHANGED <<pass, failing, result>>, at' = "next", pending' = None, file' = None,
         \/ file = f /\ todo' = todo
         \/ file = None /\ f \in todo /\ todo' = todo \ {f}
  PROVE  Body'
  <1> USE ParseWorkerAssumption
  <1>1. f # None /\ f \in Open /\ Open' = Open \ {f} /\ failing = {} /\ todo \subseteq Files
    BY DEF Open, Body, LoopTyped, LoopInv
  <1>2. Fresh(f)
    BY <1>1 DEF Body, Results, Dealt, Fresh
  <1>3. /\ Sum3' = Sum3 + 1
        /\ errored' = Cardinality(Faulty') - Cardinality(Extra')
        /\ indexed' \in Nat /\ skipped' \in Nat /\ errored' \in Int
        /\ errors' = [errors EXCEPT ![f] = kind] /\ errors' \in [Files -> Kinds \cup {None}]
        /\ stored' = [stored EXCEPT ![f] = kept] /\ stored' \in [Files -> Kept \cup {None}]
        /\ recovered' = recovered
    BY <1>2, SettleCounts DEF Body
  <1>4. LoopTyped'
    BY <1>1, <1>3 DEF Body, LoopTyped
  <1>5. LoopInv'
    BY <1>1 DEF Body, LoopInv
  <1>6. Results'
    <2>1. Dealt(f)'
      BY <1>2, <1>3 DEF Dealt, Fresh, Body, LoopTyped, Kept
    <2>2. \A g \in Files \ {f} : /\ stored'[g] = stored[g] /\ errors'[g] = errors[g]
                                /\ recovered'[g] = recovered[g]
      BY <1>3 DEF Body, LoopTyped
    <2> QED
      BY <1>1, <2>1, <2>2 DEF Body, Results, Dealt, Fresh
  <1>7. CountsAddUp'
    <2>1. /\ Cardinality(todo) \in Nat
          /\ f \in todo => Cardinality(todo \ {f}) = Cardinality(todo) - 1
      BY <1>1, CountOne
    <2>2. Sum3 = Cardinality(Files) - Cardinality(todo) - (IF file # None THEN 1 ELSE 0)
      BY DEF Body, CountsAddUp
    <2>3. Sum3' = Cardinality(Files) - Cardinality(todo') - (IF file' # None THEN 1 ELSE 0)
      <3>1. CASE file = f /\ todo' = todo
        BY <1>1, <1>3, <2>1, <2>2, <3>1, FilesCounted
      <3>2. CASE file = None /\ f \in todo /\ todo' = todo \ {f}
        BY <1>1, <1>3, <2>1, <2>2, <3>2, FilesCounted
      <3> QED
        BY <3>1, <3>2
    <2> QED
      BY <1>3, <2>3 DEF CountsAddUp, Faulty, Extra
  <1> QED
    BY <1>4, <1>5, <1>6, <1>7 DEF Body

\* Whatever rejects the pending request: the file gets its error in the first pass, and
\* keeps its entry in the others.
LEMMA RejectKeeps ==
  ASSUME Body, pending # None, NEW kind \in ErrorKinds, Reject(kind)
  PROVE  Body'
  <1> USE ParseWorkerAssumption DEF Ended, Passes
  <1>1. /\ file \in Files /\ at = "parse" /\ file # None
        /\ pending' = None /\ at' = "next" /\ file' = None /\ UNCHANGED <<pass, result, todo>>
        /\ failing' = IF pass = "retry" THEN failing \cup {file} ELSE failing
    BY DEF Body, LoopTyped, LoopInv, Reject, AfterReject
  <1>2. Open' = todo /\ Open = todo \cup {file} /\ file \notin todo
    BY <1>1 DEF Open, Body, LoopInv
  <1>3. CASE pass = "main"
    <2>1. Settle(file, None, kind, "errored") /\ kind \in Kinds
      BY <1>3 DEF Reject, Errored, Kinds
    <2> QED
      BY <1>1, <1>3, <2>1, SettleKeeps
  <1>4. CASE pass # "main"
    <2>1. UNCHANGED resultVars
      BY <1>4 DEF Reject
    <2>2. LoopTyped'
      BY <1>1, <2>1 DEF LoopTyped, Body, resultVars
    <2>3. LoopInv'
      BY <1>1, <1>2, <1>4, <2>1 DEF LoopInv, Body, LoopTyped, resultVars
    <2> QED
      BY <1>1, <1>4, <2>1, <2>2, <2>3, ResultsStayLater DEF Body
  <1> QED
    BY <1>3, <1>4

\* A reply settles the request it answers, and no other.
LEMMA DeliverKeeps ==
  ASSUME Body, NEW w \in Workers, NEW r \in Requests, Deliver(w, r)
  PROVE  Body'
  <1> USE ParseWorkerAssumption DEF Ended, Passes
  <1>1. CASE ~IsPending(r)
    BY <1>1, BodyStays DEF Deliver, loopVars
  <1>2. CASE IsPending(r)
    <2>1. /\ r[1] = file /\ file \in Files /\ at = "parse" /\ file # None
          /\ pending' = None /\ UNCHANGED <<pass, todo, failing>>
      BY <1>2 DEF Deliver, IsPending, Body, LoopTyped, LoopInv
    <2>2. PICK o \in OutcomesOf(file) : Resolve(file, o)
      BY <1>2, <2>1 DEF Deliver
    <2>3. o \in Outcomes /\ (o = "warnings" => file \in FileLevel)
      BY <2>2 DEF OutcomesOf, Outcomes
    <2>4. Open = todo \cup {file} /\ file \notin todo
      BY <2>1 DEF Open, Body, LoopInv
    <2>5. CASE pass = "main" /\ at' = "next" /\ file' = None /\ Counted(file, file, o) /\ result' = result
      <3> DEFINE kept == IF o \in Storable THEN [from |-> file, whole |-> o \in Whole] ELSE None
                 kind == IF o \in Whole THEN None ELSE o
                 side == IF o = "errors" THEN "errored"
                         ELSE IF o \in Storable \ {"nothing"} \/ file \in FileLevel THEN "indexed"
                         ELSE "skipped"
      <3>1. Settle(file, kept, kind, side)
        BY <2>5 DEF Counted
      <3>2. /\ kept \in Kept \cup {None} /\ kind \in Kinds \cup {None}
            /\ side \in {"indexed", "skipped", "errored"}
        BY <2>1, <2>3 DEF Kept, Kinds, ErrorKinds, Outcomes, Storable, Whole
      <3>3. /\ side = "errored" <=> kind \in ErrorKinds
            /\ kept = None <=> kind \in ErrorKinds \cup {"warnings"}
            /\ kept # None => kept.from = file /\ (kept.whole \/ kind # None)
        <4>1. [from |-> file, whole |-> o \in Whole] # None
          <5>1. [from |-> file, whole |-> o \in Whole] \in Kept
            BY <2>1 DEF Kept
          <5> QED
            BY <5>1
        <4> QED
          BY <2>1, <2>3, <4>1 DEF Kinds, ErrorKinds, Outcomes, Storable, Whole
      <3> HIDE DEF kept, kind, side
      <3> QED
        BY <2>1, <2>5, <3>1, <3>2, <3>3, SettleKeeps
    <2>6. CASE pass = "main" /\ StoreThrows /\ UNCHANGED <<file, result>>
      <3>1. at' = "threw" /\ UNCHANGED resultVars
        BY <2>6 DEF StoreThrows
      <3>2. Open' = Open
        BY <2>1, <2>6 DEF Open
      <3>3. LoopTyped' /\ LoopInv'
        BY <2>1, <2>6, <3>1, <3>2 DEF Body, LoopTyped, LoopInv, resultVars
      <3> QED
        BY <2>1, <2>6, <3>1, <3>3, ResultsStay DEF Body
    <2>7. CASE /\ pass # "main" /\ UNCHANGED resultVars
               /\ \/ at' = "next" /\ file' = None /\ result' = result
                  \/ at' = "stat" /\ file' = file /\ result' = file
      <3>1. Open' \subseteq Open
        BY <2>1, <2>7 DEF Open
      <3>2. LoopTyped'
        BY <2>1, <2>7 DEF LoopTyped, Body, resultVars
      <3>3. LoopInv'
        BY <2>1, <2>4, <2>7, <3>1 DEF LoopInv, Body, LoopTyped, resultVars
      <3> QED
        BY <2>1, <2>7, <3>2, <3>3, ResultsStayLater DEF Body
    <2> QED
      BY <2>2, <2>5, <2>6, <2>7 DEF Resolve
  <1> QED
    BY <1>1, <1>2

\* The loop takes a file and requests it.
LEMMA ParseKeeps ==
  ASSUME Body, NEW f \in Files, Parse(f)
  PROVE  Body'
  <1> USE ParseWorkerAssumption DEF Ended, Passes
  <1>1. /\ at = "next" /\ f \in todo /\ todo' = todo \ {f} /\ file = None /\ pending = None
        /\ UNCHANGED <<pass, result, failing, indexed, skipped, errored, errors, stored, recovered>>
    BY DEF Parse, Take, resultVars, Body, LoopTyped, LoopInv
  <1>2. /\ file' = f
        /\ \/ at' = "parse" /\ pending' = <<f, pass>>
           \/ at' = "load" /\ pending' = pending
    <2>1. Request(f, pass # "main")
      BY DEF Parse
    <2>2. CASE parseWorker # None /\ ~Drops(pass # "main")
      BY <2>1, <2>2 DEF Request, Post
    <2>3. CASE ~(parseWorker # None /\ ~Drops(pass # "main"))
      BY <2>1, <2>3 DEF Request
    <2> QED
      BY <2>2, <2>3
  <1>3. Open' = Open /\ f # None
    BY <1>1, <1>2 DEF Open
  <1>4. LoopTyped'
    BY <1>1, <1>2 DEF Body, LoopTyped, Requests
  <1>5. LoopInv'
    BY <1>1, <1>2, <1>3 DEF Body, LoopInv
  <1>6. Results'
    BY <1>1, <1>3 DEF Body, Results, Dealt, Fresh
  <1>7. CountsAddUp'
    <2>1. Cardinality(todo) \in Nat /\ Cardinality(todo') = Cardinality(todo) - 1
      BY <1>1, CountOne DEF Body, LoopTyped
    <2> QED
      BY <1>1, <1>2, <1>3, <2>1, FilesCounted DEF CountsAddUp, Sum3, Body, LoopTyped
  <1> QED
    BY <1>4, <1>5, <1>6, <1>7 DEF Body

\* A file that cannot be read, or is too large, is dealt with without a worker.
LEMMA UnparsedKeeps ==
  ASSUME Body, NEW f \in Files, ReadFails(f) \/ TooLarge(f)
  PROVE  Body'
  <1> USE ParseWorkerAssumption DEF Ended, Passes
  <1>1. /\ at = "next" /\ f \in todo /\ todo' = todo \ {f} /\ file = None /\ pending = None
        /\ UNCHANGED <<pass, result, failing, pending>> /\ f # None
    BY DEF ReadFails, TooLarge, Take, Body, LoopTyped, LoopInv
  <1>2. Open = todo
    BY <1>1 DEF Open
  <1>3. CASE pass = "main" /\ ReadFails(f)
    <2>1. Settle(f, None, "read", "errored") /\ UNCHANGED <<at, file>>
      BY <1>3 DEF ReadFails, Errored
    <2> QED
      BY <1>1, <1>3, <2>1, SettleKeeps DEF Kinds, ErrorKinds
  <1>4. CASE /\ TooLarge(f) /\ UNCHANGED <<at, file>>
             /\ Settle(f, [from |-> f, whole |-> FALSE], "size", "skipped")
    <2>1. Settle(f, [from |-> f, whole |-> FALSE], "size", "skipped") /\ pass = "main"
      BY <1>4 DEF TooLarge
    <2>2. [from |-> f, whole |-> FALSE] \in Kept
      BY DEF Kept
    <2> QED
      BY <1>1, <1>4, <2>1, <2>2, SettleKeeps DEF Kinds, ErrorKinds
  <1>5. CASE TooLarge(f) /\ StoreThrows /\ file' = f
    <2>1. pass = "main" /\ at' = "threw" /\ UNCHANGED resultVars
      BY <1>5 DEF TooLarge, StoreThrows
    <2>2. Open' = Open
      BY <1>1, <1>2, <1>5 DEF Open
    <2>3. LoopTyped' /\ LoopInv'
      BY <1>1, <1>5, <2>1, <2>2 DEF Body, LoopTyped, LoopInv, resultVars
    <2>4. Results'
      BY <1>1, <2>1, <2>2 DEF Body, Results, Dealt, Fresh, resultVars
    <2>5. CountsAddUp'
      <3>1. Cardinality(todo) \in Nat /\ Cardinality(todo') = Cardinality(todo) - 1
        BY <1>1, CountOne DEF Body, LoopTyped
      <3>2. Sum3' = Sum3 /\ Sum3 = Cardinality(Files) - Cardinality(todo)
        BY <1>1, <2>1, <3>1, FilesCounted DEF Body, CountsAddUp, Sum3, resultVars
      <3>3. Sum3' = Cardinality(Files) - Cardinality(todo') - 1
        BY <3>1, <3>2, FilesCounted
      <3> QED
        BY <1>1, <1>5, <2>1, <3>3 DEF Body, CountsAddUp, resultVars
    <2> QED
      BY <2>3, <2>4, <2>5 DEF Body
  <1>6. CASE pass # "main"
    <2>1. ReadFails(f) /\ UNCHANGED <<at, file, resultVars>>
      BY <1>6 DEF ReadFails, TooLarge
    <2>2. Open' \subseteq Open
      BY <1>1, <1>2, <2>1 DEF Open
    <2>3. LoopTyped' /\ LoopInv'
      BY <1>1, <1>6, <2>1, <2>2 DEF LoopTyped, LoopInv, Body, resultVars
    <2> QED
      BY <1>1, <1>6, <2>1, <2>3, ResultsStayLater DEF Body
  <1> QED
    BY <1>3, <1>4, <1>5, <1>6 DEF TooLarge

\* A retry that worked is stored, and its entry removed.
LEMMA StatKeeps ==
  ASSUME Body, NEW ok \in BOOLEAN, Stat(ok)
  PROVE  Body'
  <1> USE ParseWorkerAssumption DEF Ended, Passes
  <1>1. /\ at = "stat" /\ result' = None /\ UNCHANGED <<pass, todo, failing, pending>>
        /\ pass # "main" /\ file \in Files /\ file # None /\ pending = None /\ result = file
    BY DEF Stat, Body, LoopTyped, LoopInv
  <1>2. Open = todo \cup {file} /\ file \notin todo /\ errors[file] \in Retryable
    BY <1>1 DEF Open, Body, LoopInv
  <1>3. CASE ok
    <2>1. at' = "next" /\ file' = None /\ Recovered(file, file) /\ Dealt(file)
      BY <1>1, <1>3 DEF Stat, Body, Results
    <2>2. /\ Sum3' = Sum3
          /\ errored' = Cardinality(Faulty') - Cardinality(Extra')
          /\ indexed' \in Nat /\ skipped' \in Nat /\ errored' \in Int
          /\ errors' = [errors EXCEPT ![file] = None] /\ errors' \in [Files -> Kinds \cup {None}]
          /\ recovered' = [recovered EXCEPT ![file] = errors[file]]
          /\ recovered' \in [Files -> Kinds \cup {None}]
          /\ stored' \in [Files -> Kept \cup {None}]
          /\ stored'[file] # None /\ stored'[file].from = file
          /\ \A g \in Files \ {file} : stored'[g] = stored[g]
      BY <1>1, <1>2, <2>1, RecoveredCounts DEF Body
    <2>3. Open' = todo
      BY <1>1, <2>1 DEF Open
    <2>4. LoopTyped'
      BY <1>1, <2>1, <2>2 DEF LoopTyped, Body
    <2>5. \A g \in Files \ {file} : errors'[g] = errors[g] /\ recovered'[g] = recovered[g]
      BY <2>2 DEF Body, LoopTyped
    <2>6. LoopInv'
      BY <1>1, <1>2, <2>1, <2>3, <2>5 DEF LoopInv, Body, LoopTyped
    <2>7. PICK f \in Files : f = file
      BY <1>1
    <2>8. Results'
      <3>1. errors'[f] = None /\ recovered'[f] = errors[f] /\ errors[f] # None
        BY <1>2, <2>2, <2>7 DEF Body, LoopTyped, Retryable, Kinds, ErrorKinds
      <3>2. Dealt(f)'
        BY <2>2, <2>7, <3>1 DEF Dealt, Kinds, ErrorKinds
      <3> QED
        BY <1>1, <2>2, <2>5, <2>7, <3>2 DEF Results, Body, Dealt
    <2>9. CountsAddUp'
      BY <1>1, <2>2 DEF CountsAddUp, Body, Faulty, Extra
    <2> QED
      BY <2>4, <2>6, <2>8, <2>9 DEF Body
  <1>4. CASE ~ok
    <2>1. at' = "threw" /\ file' = file /\ UNCHANGED resultVars
      BY <1>4 DEF Stat, StoreThrows
    <2>2. Open' = Open
      BY <1>1, <2>1 DEF Open
    <2>3. LoopTyped' /\ LoopInv'
      BY <1>1, <2>1, <2>2 DEF LoopTyped, LoopInv, Body, resultVars
    <2> QED
      BY <1>1, <2>1, <2>3, ResultsStay DEF Body
  <1> QED
    BY <1>3, <1>4

\* A pass ends; what the next one takes up has an error.
LEMMA EndPassKeeps ==
  ASSUME Body, EndPass
  PROVE  Body'
  <1> USE ParseWorkerAssumption DEF Ended, Passes
  <1> DEFINE next == IF pass = "main" THEN {f \in Files : errors[f] \in Retryable}
                     ELSE IF pass = "retry" THEN failing ELSE {}
  <1>1. /\ at = "next" /\ file = None /\ pending = None
        /\ UNCHANGED <<file, result, failing, pending, indexed, skipped, errored, errors, stored, recovered>>
    BY DEF EndPass, resultVars, Body, LoopTyped, LoopInv
  <1>2. next \subseteq Files /\ \A f \in next : errors[f] \in Retryable
    BY DEF Body, LoopTyped, LoopInv
  <1>3. CASE pass = "main" /\ todo # {}
    <2>1. at' = "aborted" /\ UNCHANGED <<pass, todo>>
      BY <1>3 DEF EndPass
    <2> QED
      BY <1>1, <2>1 DEF Body, LoopTyped, LoopInv, Results, Dealt, Fresh, CountsAddUp, Open, Sum3
  <1>4. CASE ~(pass = "main" /\ todo # {})
    <2>1. /\ at' = (IF next = {} THEN "done" ELSE "next")
          /\ todo' = (IF next = {} THEN {} ELSE next)
          /\ pass' = (IF pass = "main" /\ next # {} THEN "retry"
                     ELSE IF pass = "retry" /\ next # {} THEN "strip" ELSE pass)
      BY <1>4 DEF EndPass
    <2>2. pass = "strip" => next = {}
      OBVIOUS
    <2>3. pass = "main" => todo = {} /\ failing = {}
      BY <1>4 DEF Body, LoopInv
    <2> HIDE DEF next
    <2>4. Open = todo /\ Open' = todo' /\ todo' = next
      BY <1>1, <2>1 DEF Open
    <2>5. LoopTyped'
      BY <1>1, <1>2, <2>1 DEF Body, LoopTyped
    <2>6. LoopInv'
      <3>1. /\ at' = "done" => todo' = {}
            /\ pass' = "main" => failing' = {}
            /\ pass' # "main" => \A f \in Open' : errors'[f] \in Retryable
            /\ file' \notin todo'
        BY <1>1, <1>2, <2>1, <2>2, <2>3, <2>4
      <3>2. pass' = "retry" => \A f \in failing' : errors'[f] \in Retryable /\ f \notin Open'
        BY <1>1, <2>1, <2>2, <2>3, <2>4 DEF Body, LoopInv
      <3> QED
        BY <1>1, <2>1, <3>1, <3>2 DEF LoopInv
    <2>7. Results'
      BY <1>1, <2>1, <2>3, <2>4 DEF Body, Results, Dealt, Fresh, LoopTyped
    <2>8. CountsAddUp'
      <3>1. Cardinality({}) = 0
        BY FS_EmptySet
      <3> QED
        BY <1>1, <2>1, <2>3, <3>1, FilesCounted DEF Body, CountsAddUp, Sum3, LoopTyped
    <2> QED
      BY <2>5, <2>6, <2>7, <2>8 DEF Body
  <1> QED
    BY <1>3, <1>4

LEMMA BodyKept == Body /\ [Next]_vars => Body'
  <1> SUFFICES ASSUME Body, [Next]_vars PROVE Body'
    OBVIOUS
  <1>0. CASE UNCHANGED vars
    BY <1>0, BodyStays DEF vars
  <1>1. CASE Loop
    BY <1>1, EndPassKeeps, ParseKeeps, StatKeeps DEF Loop
  <1>2. CASE Stat(FALSE)
    BY <1>2, StatKeeps
  <1>3. CASE Abort
    BY <1>3, BodyStays DEF Abort
  <1>4. CASE Timeout
    BY <1>4, RejectKeeps DEF Timeout, TimerArmed, ErrorKinds
  <1>5. ASSUME NEW f \in Files, ReadFails(f) \/ TooLarge(f) PROVE Body'
    BY <1>5, UnparsedKeeps
  <1>6. ASSUME NEW w \in Workers, GrammarsLoaded(w) PROVE Body'
    <2>1. CASE at # "load"
      BY <1>6, <2>1, BodyStays DEF GrammarsLoaded, loopVars
    <2>2. CASE at = "load"
      <3>1. /\ UNCHANGED <<pass, file, result, todo, failing, indexed, skipped, errored, errors, stored, recovered>>
            /\ \/ file = None /\ at' = "next" /\ pending' = pending
               \/ file # None /\ at' = "parse" /\ pending' = <<file, pass>>
        BY <1>6, <2>2 DEF GrammarsLoaded, Post, resultVars
      <3>2. LoopTyped'
        BY <2>2, <3>1 DEF Body, LoopTyped, Requests
      <3>3. LoopInv' /\ Results' /\ CountsAddUp'
        BY <2>2, <3>1 DEF Body, LoopTyped, LoopInv, Results, Dealt, Fresh, CountsAddUp, Sum3, Open, Ended
      <3> QED
        BY <3>2, <3>3 DEF Body
    <2> QED
      BY <2>1, <2>2
  <1>7. ASSUME NEW w \in Workers, NEW r \in Requests, Deliver(w, r)
        PROVE  Body'
    BY <1>7, DeliverKeeps
  <1>8. ASSUME NEW w \in Workers, NEW kind \in {"error", "memory"}, OnError(w, kind)
        PROVE  Body'
    BY <1>8, RejectKeeps, BodyStays DEF OnError, ErrorKinds
  <1>9. ASSUME NEW w \in Workers, OnExit(w) PROVE Body'
    BY <1>9, RejectKeeps, BodyStays DEF OnExit, ErrorKinds
  <1>10. ASSUME NEW w \in Workers, Answer(w) PROVE Body'
    BY <1>10, BodyStays DEF Answer
  <1>11. ASSUME NEW w \in Workers, NEW how \in {"exiting", "broken"}, Die(w, how) PROVE Body'
    BY <1>11, BodyStays DEF Die
  <1> QED
    BY <1>0, <1>1, <1>2, <1>3, <1>4, <1>5, <1>6, <1>7, <1>8, <1>9, <1>10, <1>11
    DEF Next, Events

----------------------------------------------------------------------------
(* The threads. *)

\* A terminated thread is on its way out; the others are as they were.
LEMMA TerminatedThreads ==
  ASSUME ThreadTyped, NEW W
  PROVE  /\ Terminated(W) \in [Workers -> Alive \cup {"exiting", "gone"}]
         /\ \A w \in Workers : Terminated(W)[w] \in Alive => w \notin W /\ wstate[w] \in Alive
  BY DEF Terminated, ThreadTyped, Alive

\* What leaves the current worker, the loop's place and the living threads alone.
LEMMA ThreadsStay ==
  ASSUME Threads, UNCHANGED <<parseWorker, count>>,
         at' = at \/ (at' \in {"next", "parse", "stat", "threw"} /\ at \notin Ended),
         wstate' \in [Workers -> Alive \cup {"exiting", "gone"}],
         \A w \in Workers : wstate'[w] \in Alive => wstate[w] \in Alive,
         jobs' \in [Workers -> Seq(Requests)],
         replies' \subseteq Workers \X Requests
  PROVE  Threads'
  BY DEF Threads, ThreadTyped, NoThreadLeft, Ended

\* The loop takes a file and requests it: the worker it leaves is told to terminate
\* before another is started.
LEMMA RequestKeeps ==
  ASSUME Body, Threads, NEW f \in Files, NEW recycle \in BOOLEAN, at = "next",
         Request(f, recycle)
  PROVE  Threads'
  <1> USE ParseWorkerAssumption DEF Ended
  <1>1. CASE parseWorker # None /\ ~Drops(recycle)
    <2>1. /\ Post(parseWorker, <<f, pass>>, wstate) /\ count' = count + 1
          /\ UNCHANGED <<parseWorker, wstate, replies>>
      BY <1>1 DEF Request
    <2>2. jobs' \in [Workers -> Seq(Requests)] /\ at' = "parse"
      BY <1>1, <2>1 DEF Post, Threads, ThreadTyped, Body, LoopTyped, Requests
    <2>3. count' \in 0..RecycleInterval
      BY <1>1, <2>1 DEF Threads, ThreadTyped, Drops
    <2> QED
      BY <2>1, <2>2, <2>3 DEF Threads, ThreadTyped, NoThreadLeft
  <1>2. CASE ~(parseWorker # None /\ ~Drops(recycle))
    <2> DEFINE ws == IF Drops(recycle) THEN Terminated({parseWorker}) ELSE wstate
    <2>1. PICK w \in Workers : /\ wstate' = [ws EXCEPT ![w] = "loading"]
                               /\ parseWorker' = w /\ count' = 0 /\ at' = "load"
                               /\ UNCHANGED <<jobs, replies>>
      BY <1>2 DEF Request
    <2>2. /\ ws \in [Workers -> Alive \cup {"exiting", "gone"}]
          /\ \A v \in Workers : ws[v] \notin Alive
      <3>1. CASE Drops(recycle)
        BY <3>1, TerminatedThreads DEF Threads, NoThreadLeft
      <3>2. CASE ~Drops(recycle)
        BY <1>2, <3>2 DEF Threads, ThreadTyped, NoThreadLeft
      <3> QED
        BY <3>1, <3>2
    <2> HIDE DEF ws
    <2>3. wstate' \in [Workers -> Alive \cup {"exiting", "gone"}]
      BY <2>1, <2>2 DEF Alive
    <2>4. \A v \in Workers : wstate'[v] \in Alive => v = w
      BY <2>1, <2>2
    <2> QED
      BY <2>1, <2>3, <2>4 DEF Threads, ThreadTyped, NoThreadLeft
  <1> QED
    BY <1>1, <1>2

LEMMA ThreadsKept == Body /\ Threads /\ [Next]_vars => Threads'
  <1> SUFFICES ASSUME Body, Threads, [Next]_vars PROVE Threads'
    OBVIOUS
  <1> USE ParseWorkerAssumption DEF Ended
  <1>0. CASE UNCHANGED <<parseWorker, count, threadVars, at>>
    BY <1>0 DEF threadVars, Threads, ThreadTyped, NoThreadLeft
  <1>a. pending # None => at = "parse"
    BY DEF Body, LoopTyped
  <1>1. CASE Loop
    <2>1. CASE EndPass
      <3>1. /\ UNCHANGED <<parseWorker, count, jobs, replies>> /\ at = "next"
            /\ wstate' = (IF at' \in Ended THEN Terminated({parseWorker}) ELSE wstate)
            /\ at' \in {"next", "done", "aborted"}
        BY <2>1 DEF EndPass
      <3> QED
        BY <3>1, TerminatedThreads DEF Threads, ThreadTyped, NoThreadLeft
    <2>2. ASSUME NEW f \in Files, Parse(f) PROVE Threads'
      BY <2>2, RequestKeeps DEF Parse, Take
    <2>3. CASE Stat(TRUE)
      BY <2>3 DEF Stat, StoreThrows, threadVars, Threads, ThreadTyped, NoThreadLeft
    <2> QED
      BY <1>1, <2>1, <2>2, <2>3 DEF Loop
  <1>2. CASE Stat(FALSE)
    BY <1>2 DEF Stat, StoreThrows, threadVars, Threads, ThreadTyped, NoThreadLeft
  <1>3. CASE Abort
    BY <1>0, <1>3 DEF Abort, loopVars
  <1>4. CASE Timeout
    <2>1. /\ at' = "next" /\ wstate' = Terminated({parseWorker}) /\ parseWorker' = None
          /\ count' = 0 /\ UNCHANGED <<jobs, replies>> /\ at = "parse"
      BY <1>4, <1>a DEF Timeout, Reject, TimerArmed
    <2> QED
      BY <2>1, TerminatedThreads DEF Threads, ThreadTyped, NoThreadLeft
  <1>5. ASSUME NEW f \in Files, ReadFails(f) PROVE Threads'
    <2>1. at = "next" /\ UNCHANGED <<at, jobs, replies>>
      BY <1>5 DEF ReadFails, Take
    <2>2. CASE pass = "main"
      BY <1>0, <1>5, <2>1, <2>2 DEF ReadFails, threadVars
    <2>3. CASE pass # "main"
      <3>1. /\ wstate' = Terminated({parseWorker}) /\ parseWorker' = None
            /\ count' = (IF parseWorker = None THEN count ELSE 0)
        BY <1>5, <2>3 DEF ReadFails
      <3> QED
        BY <2>1, <3>1, TerminatedThreads DEF Threads, ThreadTyped, NoThreadLeft
    <2> QED
      BY <2>2, <2>3
  <1>6. ASSUME NEW f \in Files, TooLarge(f) PROVE Threads'
    <2>1. /\ at = "next" /\ at' \in {"next", "threw"}
          /\ UNCHANGED <<parseWorker, count, wstate, jobs, replies>>
      BY <1>6 DEF TooLarge, Take, StoreThrows, threadVars
    <2> QED
      BY <2>1, ThreadsStay DEF Threads, ThreadTyped
  <1>7. ASSUME NEW w \in Workers, GrammarsLoaded(w) PROVE Threads'
    <2>1. /\ wstate[w] = "loading" /\ wstate' = [wstate EXCEPT ![w] = "ready"]
          /\ UNCHANGED <<parseWorker, replies>>
      BY <1>7 DEF GrammarsLoaded
    <2>2. /\ wstate' \in [Workers -> Alive \cup {"exiting", "gone"}]
          /\ \A v \in Workers : wstate'[v] \in Alive => wstate[v] \in Alive
      BY <2>1 DEF Threads, ThreadTyped, Alive
    <2>3. CASE at # "load"
      <3>1. UNCHANGED <<at, jobs, count>>
        BY <1>7, <2>3 DEF GrammarsLoaded
      <3> QED
        BY <2>1, <2>2, <3>1, ThreadsStay DEF Threads, ThreadTyped
    <2>4. CASE at = "load" /\ file = None
      <3>1. at' = "next" /\ UNCHANGED <<jobs, count>>
        BY <1>7, <2>4 DEF GrammarsLoaded
      <3> QED
        BY <2>1, <2>2, <2>4, <3>1, ThreadsStay DEF Threads, ThreadTyped
    <2>5. CASE at = "load" /\ file # None
      <3>1. Post(w, <<file, pass>>, wstate) /\ count' = count + 1 /\ count = 0
        BY <1>7, <2>5 DEF GrammarsLoaded, Threads
      <3>2. jobs' \in [Workers -> Seq(Requests)] /\ at' = "parse"
        BY <2>5, <3>1 DEF Post, Threads, ThreadTyped, Body, LoopTyped, Requests
      <3>3. count' \in 0..RecycleInterval
        BY <3>1
      <3> QED
        BY <2>1, <2>2, <2>5, <3>2, <3>3 DEF Threads, ThreadTyped, NoThreadLeft
    <2> QED
      BY <2>3, <2>4, <2>5
  <1>8. ASSUME NEW w \in Workers, NEW r \in Requests, Deliver(w, r)
        PROVE  Threads'
    <2>1. UNCHANGED <<parseWorker, count, wstate, jobs>> /\ replies' \subseteq replies
      BY <1>8 DEF Deliver
    <2>2. at' = at \/ (at' \in {"next", "parse", "stat", "threw"} /\ at \notin Ended)
      <3>1. CASE IsPending(r)
        <4>1. at = "parse" /\ \E o \in OutcomesOf(r[1]) : Resolve(r[1], o)
          BY <1>8, <1>a, <3>1 DEF Deliver, IsPending
        <4> QED
          BY <4>1 DEF Resolve, StoreThrows
      <3>2. CASE ~IsPending(r)
        BY <1>8, <3>2 DEF Deliver
      <3> QED
        BY <3>1, <3>2
    <2> QED
      BY <2>1, <2>2, ThreadsStay DEF Threads, ThreadTyped
  <1>c. ASSUME NEW kind, (IF pending # None THEN Reject(kind)
                          ELSE UNCHANGED <<loopVars, pending, resultVars>>)
        PROVE  at' = at \/ (at' = "next" /\ at = "parse")
    BY <1>c, <1>a DEF Reject, loopVars
  <1>9. ASSUME NEW w \in Workers, NEW kind \in {"error", "memory"}, OnError(w, kind)
        PROVE  Threads'
    <2>1. /\ wstate[w] = "broken" /\ wstate' = [wstate EXCEPT ![w] = "exiting"]
          /\ UNCHANGED <<parseWorker, count, jobs, replies>>
          /\ (at' = at \/ (at' = "next" /\ at = "parse"))
      BY <1>9, <1>c DEF OnError
    <2>2. /\ wstate' \in [Workers -> Alive \cup {"exiting", "gone"}]
          /\ \A v \in Workers : wstate'[v] \in Alive => wstate[v] \in Alive
      BY <2>1 DEF Threads, ThreadTyped, Alive
    <2> QED
      BY <2>1, <2>2, ThreadsStay DEF Threads, ThreadTyped
  <1>10. ASSUME NEW w \in Workers, OnExit(w) PROVE Threads'
    <2>1. /\ wstate[w] = "exiting" /\ wstate' = [wstate EXCEPT ![w] = "gone"]
          /\ jobs' = [jobs EXCEPT ![w] = <<>>] /\ replies' \subseteq replies
          /\ parseWorker' = (IF parseWorker = w THEN None ELSE parseWorker)
          /\ count' = (IF parseWorker = w THEN 0 ELSE count)
          /\ (at' = at \/ (at' = "next" /\ at = "parse"))
      BY <1>10, <1>c DEF OnExit
    <2>2. /\ wstate' \in [Workers -> Alive \cup {"exiting", "gone"}]
          /\ \A v \in Workers : wstate'[v] \in Alive => wstate[v] \in Alive /\ v # w
      BY <2>1 DEF Threads, ThreadTyped, Alive
    <2>3. jobs' \in [Workers -> Seq(Requests)]
      BY <2>1 DEF Threads, ThreadTyped
    <2>4. parseWorker' \in Workers \cup {None} /\ count' \in 0..RecycleInterval
      BY <2>1 DEF Threads, ThreadTyped
    <2> QED
      BY <2>1, <2>2, <2>3, <2>4 DEF Threads, ThreadTyped, NoThreadLeft
  <1>11. ASSUME NEW w \in Workers, Answer(w) PROVE Threads'
    <2>1. /\ jobs[w] # <<>> /\ replies' = replies \cup {<<w, Head(jobs[w])>>}
          /\ jobs' = [jobs EXCEPT ![w] = Tail(@)]
          /\ UNCHANGED <<parseWorker, count, wstate, at>>
      BY <1>11 DEF Answer, loopVars
    <2>2. jobs[w] \in Seq(Requests)
      BY DEF Threads, ThreadTyped
    <2>3. Head(jobs[w]) \in Requests /\ Tail(jobs[w]) \in Seq(Requests)
      BY <2>1, <2>2
    <2>4. jobs' \in [Workers -> Seq(Requests)]
      BY <2>1, <2>3 DEF Threads, ThreadTyped
    <2>5. replies' \subseteq Workers \X Requests
      BY <2>1, <2>3 DEF Threads, ThreadTyped
    <2> QED
      BY <2>1, <2>4, <2>5, ThreadsStay DEF Threads, ThreadTyped
  <1>12. ASSUME NEW w \in Workers, NEW how \in {"exiting", "broken"}, Die(w, how) PROVE Threads'
    <2>1. /\ wstate[w] \in Alive /\ wstate' = [wstate EXCEPT ![w] = how]
          /\ UNCHANGED <<parseWorker, count, jobs, replies, at>>
      BY <1>12 DEF Die, loopVars, Alive
    <2>2. /\ wstate' \in [Workers -> Alive \cup {"exiting", "gone"}]
          /\ \A v \in Workers : wstate'[v] \in Alive => wstate[v] \in Alive
      BY <2>1 DEF Threads, ThreadTyped, Alive
    <2> QED
      BY <2>1, <2>2, ThreadsStay DEF Threads, ThreadTyped
  <1> QED
    BY <1>0, <1>1, <1>2, <1>3, <1>4, <1>5, <1>6, <1>7, <1>8, <1>9, <1>10, <1>11, <1>12
    DEF Next, Events, vars, loopVars

----------------------------------------------------------------------------
(* The invariant, and what follows from it. *)

LEMMA IInvHolds == Spec => []IInv
  <1>1. Init => IInv
    <2> SUFFICES ASSUME Init PROVE IInv
      OBVIOUS
    <2> USE ParseWorkerAssumption
    <2>1. LoopTyped
      BY DEF Init, LoopTyped, Passes
    <2>2. LoopInv
      BY DEF Init, LoopInv, Ended
    <2>3. Results
      BY DEF Init, Results, Fresh, Open
    <2>4. CountsAddUp
      <3>1. /\ {f \in Files : errors[f] \in ErrorKinds} = {}
            /\ {f \in Files : recovered[f] = "partial"} = {}
        BY DEF Init, Kinds
      <3>2. Cardinality({}) = 0
        BY FS_EmptySet
      <3>3. /\ pass = "main" /\ todo = Files /\ file = None
            /\ indexed = 0 /\ skipped = 0 /\ errored = 0
        BY DEF Init
      <3>4. errored = Cardinality({f \in Files : errors[f] \in ErrorKinds})
                       - Cardinality({f \in Files : recovered[f] = "partial"})
        BY <3>1, <3>2, <3>3
      <3> QED
        BY <3>3, <3>4, FilesCounted DEF CountsAddUp, Sum3
    <2>5. Threads
      <3>1. PICK w \in Workers :
                /\ parseWorker = w
                /\ wstate = [v \in Workers |-> IF v = w THEN "loading" ELSE "gone"]
        BY DEF Init
      <3>2. count = 0 /\ jobs = [v \in Workers |-> <<>>] /\ replies = {} /\ at = "load"
        BY DEF Init
      <3>3. ThreadTyped
        BY <3>1, <3>2 DEF ThreadTyped, Alive
      <3>4. NoThreadLeft
        BY <3>1, <3>2 DEF NoThreadLeft, Alive, Ended
      <3> QED
        BY <3>2, <3>3, <3>4 DEF Threads
    <2> QED
      BY <2>1, <2>2, <2>3, <2>4, <2>5 DEF IInv, Body, Init
  <1>2. IInv /\ [Next]_vars => IInv'
    <2>1. aborted \in BOOLEAN /\ [Next]_vars => aborted' \in BOOLEAN
      BY DEF vars, Next, Loop, Events, EndPass, Parse, Take, Stat, Abort, Timeout, ReadFails,
             TooLarge, GrammarsLoaded, Deliver, OnError, OnExit, Answer, Die
    <2> QED
      BY <2>1, BodyKept, ThreadsKept DEF IInv
  <1> QED
    BY <1>1, <1>2, PTL DEF Spec

\* The types hold; a request is pending only while the loop awaits its answer.
THEOREM TypeCorrect == Spec => []TypeOK
  <1>1. IInv => TypeOK
    BY DEF IInv, Body, Threads, LoopTyped, ThreadTyped, TypeOK
  <1> QED
    BY <1>1, IInvHolds, PTL

\* However often files are parsed, the three counts add up to those dealt with, and
\* filesErrored is the number of failed files, less the stored ones whose memory error a
\* retry removed.
THEOREM CountsFollowTheFiles == Spec => []CountsAddUp
  <1>1. IInv => CountsAddUp
    BY DEF IInv, Body
  <1> QED
    BY <1>1, IInvHolds, PTL

\* Once the first pass is over, each file is stored, and from its own text, or its entry
\* says why it is not.
THEOREM NoFileIsLost == Spec => []StoredOrReported
  <1>1. IInv => StoredOrReported
    BY DEF IInv, Body, LoopInv, Results, Dealt, Open, StoredOrReported, Ended
  <1> QED
    BY <1>1, IInvHolds, PTL

\* Unless a store or a stat throws, every thread but the current one is on its way out, and all are
\* when the index has ended.
THEOREM ThreadsAreReaped == Spec => []NoThreadLeft
  <1>1. IInv => NoThreadLeft
    BY DEF IInv, Threads
  <1> QED
    BY <1>1, IInvHolds, PTL

----------------------------------------------------------------------------
(* What the loop waits for. *)

\* The answer to a request has a timer; the first message comes from a worker that is
\* still loading, unless that worker has died.
AwaitsWhatComes ==
    /\ at = "parse" => pending # None
    /\ at = "load" => LoaderDied \/ wstate[parseWorker] = "loading"

LEMMA RequestAwaits ==
  ASSUME Body, Threads, NEW f \in Files, NEW recycle \in BOOLEAN, Request(f, recycle)
  PROVE  AwaitsWhatComes'
  <1> USE ParseWorkerAssumption
  <1>1. CASE parseWorker # None /\ ~Drops(recycle)
    <2>1. at' = "parse" /\ pending' = <<f, pass>>
      BY <1>1 DEF Request, Post
    <2>2. pending' # None
      BY <2>1 DEF Requests, Body, LoopTyped
    <2> QED
      BY <2>1, <2>2 DEF AwaitsWhatComes
  <1>2. CASE ~(parseWorker # None /\ ~Drops(recycle))
    <2> DEFINE ws == IF Drops(recycle) THEN Terminated({parseWorker}) ELSE wstate
    <2>1. PICK w \in Workers : /\ wstate' = [ws EXCEPT ![w] = "loading"]
                               /\ parseWorker' = w /\ at' = "load"
      BY <1>2 DEF Request
    <2>2. DOMAIN ws = Workers
      BY DEF Threads, ThreadTyped, Terminated
    <2> HIDE DEF ws
    <2>3. wstate'[w] = "loading"
      BY <2>1, <2>2
    <2> QED
      BY <2>1, <2>3 DEF AwaitsWhatComes
  <1> QED
    BY <1>1, <1>2

LEMMA AwaitsKept == IInv /\ AwaitsWhatComes /\ [Next]_vars => AwaitsWhatComes'
  <1> SUFFICES ASSUME IInv, AwaitsWhatComes, [Next]_vars PROVE AwaitsWhatComes'
    OBVIOUS
  <1> USE ParseWorkerAssumption
  <1>t. /\ ThreadTyped /\ NoThreadLeft
        /\ pending # None => at = "parse"
        /\ pass \in Passes /\ file \in Files \cup {None}
    BY DEF IInv, Body, LoopTyped, Threads
  <1>0. CASE at' \notin {"parse", "load"}
    BY <1>0 DEF AwaitsWhatComes
  <1>1. CASE UNCHANGED <<at, pending, parseWorker, wstate>>
    BY <1>1 DEF AwaitsWhatComes, LoaderDied
  <1>2. CASE Loop \/ Stat(FALSE) \/ Timeout
    <2>1. CASE \E f \in Files : Parse(f)
      BY <2>1, RequestAwaits DEF Parse, IInv
    <2>2. CASE EndPass
      BY <1>0, <2>2 DEF EndPass
    <2>3. CASE Stat(TRUE) \/ Stat(FALSE) \/ Timeout
      BY <1>0, <2>3 DEF Stat, StoreThrows, Timeout, Reject
    <2> QED
      BY <1>2, <2>1, <2>2, <2>3 DEF Loop
  <1>3. CASE Abort \/ \E f \in Files : ReadFails(f) \/ TooLarge(f)
    <2>1. CASE Abort
      BY <1>1, <2>1 DEF Abort, loopVars, threadVars
    <2>2. CASE \E f \in Files : ReadFails(f) \/ TooLarge(f)
      BY <1>0, <2>2 DEF ReadFails, TooLarge, Take, StoreThrows
    <2> QED
      BY <1>3, <2>1, <2>2
  <1>4. ASSUME NEW w \in Workers, GrammarsLoaded(w) PROVE AwaitsWhatComes'
    <2>1. CASE at = "load" /\ file # None
      <3>1. at' = "parse" /\ pending' = <<file, pass>>
        BY <1>4, <2>1 DEF GrammarsLoaded, Post
      <3> QED
        BY <1>t, <2>1, <3>1 DEF AwaitsWhatComes, Requests
    <2>2. CASE at = "load" /\ file = None
      BY <1>0, <1>4, <2>2 DEF GrammarsLoaded
    <2>3. CASE at # "load"
      BY <1>4, <2>3 DEF GrammarsLoaded, AwaitsWhatComes
    <2> QED
      BY <2>1, <2>2, <2>3
  <1>5. ASSUME NEW w \in Workers, NEW r \in Requests, Deliver(w, r)
        PROVE  AwaitsWhatComes'
    <2>1. CASE IsPending(r)
      BY <1>0, <1>5, <2>1 DEF Deliver, Resolve, StoreThrows
    <2>2. CASE ~IsPending(r)
      BY <1>1, <1>5, <2>2 DEF Deliver
    <2> QED
      BY <2>1, <2>2
  <1>6. ASSUME pending # None, NEW kind, Reject(kind) PROVE AwaitsWhatComes'
    BY <1>0, <1>6 DEF Reject
  <1>7. ASSUME NEW w \in Workers, NEW s \in {"broken", "exiting", "gone"},
               wstate' = [wstate EXCEPT ![w] = s], UNCHANGED <<at, pending>>,
               parseWorker' = IF s = "gone" /\ parseWorker = w THEN None ELSE parseWorker
        PROVE  AwaitsWhatComes'
    BY <1>t, <1>7 DEF AwaitsWhatComes, LoaderDied, ThreadTyped
  <1>8. ASSUME NEW w \in Workers, NEW kind \in {"error", "memory"}, OnError(w, kind)
        PROVE  AwaitsWhatComes'
    BY <1>6, <1>7, <1>8 DEF OnError, loopVars
  <1>9. ASSUME NEW w \in Workers, OnExit(w) PROVE AwaitsWhatComes'
    BY <1>6, <1>7, <1>9 DEF OnExit, loopVars
  <1>10. ASSUME NEW w \in Workers, NEW how \in {"exiting", "broken"}, Die(w, how)
         PROVE  AwaitsWhatComes'
    BY <1>7, <1>10 DEF Die, loopVars
  <1>11. ASSUME NEW w \in Workers, Answer(w) PROVE AwaitsWhatComes'
    BY <1>1, <1>11 DEF Answer, loopVars
  <1> QED
    BY <1>1, <1>2, <1>3, <1>4, <1>5, <1>8, <1>9, <1>10, <1>11
    DEF Next, Events, vars, loopVars, threadVars

\* The safety half of Ends: the loop never waits for an answer without a timer, nor for
\* the first message of a worker that cannot send it - but for the worker that dies while
\* it loads, after which nothing wakes the loop (index.ts:1102-1117).
THEOREM OnlyADeadLoaderHangs == Spec => []AwaitsWhatComes
  <1>1. Init => AwaitsWhatComes
    BY ParseWorkerAssumption DEF Init, AwaitsWhatComes
  <1>2. IInv /\ AwaitsWhatComes /\ [Next]_vars => AwaitsWhatComes'
    BY AwaitsKept
  <1> QED
    BY <1>1, <1>2, IInvHolds, PTL DEF Spec
=============================================================================
