-------------------------- MODULE CombinatorsProofs --------------------------
(***************************************************************************)
(* Proofs about RunAsyncWait, Waiter, RunAsyncAnyWait and                  *)
(* RunAsyncAnyResult, for any number of handlers.                          *)
(***************************************************************************)
EXTENDS Combinators, FiniteSetTheorems, TLAPS

-----------------------------------------------------------------------------
(* The inductive invariant. *)

\* Handlers whose closure exists.
Live == {c \in Handlers : child[c] \notin {"absent", "released"}}

StartedInv == \A c \in Handlers : child[c] = "absent" <=> c >= next

\* Who holds the shared_ptr: the closures, each of them, unless Wait has
\* thrown and left the Waiter without one; and the loop while it runs.
HolderInv ==
    /\ holders \ {Own} \subseteq Live
    /\ kind = "RunAsyncAnyWait" => holders = {}
    /\ kind \in {"RunAsyncWait", "RunAsyncAnyResult"} =>
          Live \subseteq holders /\ (looping <=> Own \in holders)
    /\ kind = "Waiter" => Live \subseteq holders \/ holders = {}

\* The functions that do not count.
PlainInv ==
    kind \notin Any =>
        /\ counter = 0 /\ result = 0 /\ first = 0
        /\ \A c \in Handlers : child[c] \notin {"counts", "won"}

RunAsyncWaitInv ==
    kind = "RunAsyncWait" =>
        /\ parent # "suspended" => holders = {}
        /\ stray = {}

WaiterInv ==
    kind = "Waiter" =>
        /\ parent # "returns"
        /\ parent \in {"absent", "new"} => holders = {Own}
        /\ parent = "body" => Own \in holders \/ holders = {}
        /\ parent \in {"queued", "ended"} => Own \notin holders
        /\ parent = "queued" => Live = {}
        /\ looping => parent = "suspended" /\ (Own \in holders \/ holders = {})
        /\ parent = "suspended" /\ Own \in holders => looping

\* Wait has returned: nothing is left of the handlers, and the Waiter is as
\* new, or gone.
WaitedInv ==
    /\ waited => kind = "Waiter" /\ Live = {} /\ stray = {}
    /\ waited => (parent = "body" /\ holders = {Own}) \/ parent = "ended"
    /\ stray # {} => Gone

\* The two that count: nobody has counted and the parent waits; somebody was
\* the first and delivers, or has delivered; or the Counter was destroyed
\* before anybody counted.
AnyInv ==
    kind \in Any =>
        /\ parent \in {"absent", "new", "body"} => next = 1 /\ counter = 0 /\ ~looping /\ holders = {}
        /\ counter = 0 =>
              /\ first = 0
              /\ parent \notin {"queued", "returns"}
              /\ parent = "ended" => next = 1 /\ ~looping /\ holders = {}
        /\ first = 0 => result = 0
        /\ first = 0 /\ counter > 0 =>
              kind = "RunAsyncAnyResult" /\ holders = {} /\ parent \in {"queued", "returns", "ended"}
        /\ first # 0 =>
              /\ first \in gave
              /\ \/ child[first] = "won" /\ result = 0 /\ parent = "suspended"
                 \/ /\ child[first] \in {"leaves", "done", "released"}
                    /\ result = first
                    /\ parent \in {"queued", "returns", "ended"}
        /\ \A c \in Handlers :
              /\ child[c] = "won" => c = first
              /\ child[c] = "counts" => c \in gave
              /\ c \in gave => child[c] = "counts" \/ first # 0
        /\ stray \subseteq {"loop", "handler"}
        /\ kind = "RunAsyncAnyResult" => stray \subseteq {"loop"}

\* The handlers that cannot count any more.
Past == {c \in Handlers : child[c] \in {"won", "leaves", "done", "released"}}

\* What counts beside the handlers: the destructor of the Counter.
Destroyed == IF kind = "RunAsyncAnyResult" /\ holders = {} THEN 1 ELSE 0

CountInv == counter <= Cardinality(Past) + Destroyed

\* What of the invariant does not need cardinalities.
Agreement ==
    /\ StartedInv
    /\ HolderInv
    /\ PlainInv
    /\ RunAsyncWaitInv
    /\ WaiterInv
    /\ WaitedInv
    /\ AnyInv

CombInv == TypeOK /\ Agreement /\ CountInv

\* TypeOK but for the bound of the counter, which CountInv gives.
AlmostTyped == counter \in Nat /\ n \in Nat /\ next \in 1 .. n + 1 /\ (counter <= n + 1 => TypeOK)

-----------------------------------------------------------------------------
(* Lemmas. *)

\* A set of handlers is finite and no larger than their number.
LEMMA HandlerSets ==
    ASSUME NEW m \in Nat, NEW P, P \subseteq 1 .. m
    PROVE  IsFiniteSet(P) /\ Cardinality(P) \in Nat /\ Cardinality(P) <= m
<1>1. IsFiniteSet(1 .. m) /\ Cardinality(1 .. m) = m
  BY FS_Interval
<1> QED
  BY <1>1, FS_Subset, FS_CardinalityType

\* What a release of the shared_ptr by h comes to: the parent goes on only
\* from its wait, and nobody else notices but a Waiter that is gone.
Releases(h) ==
    /\ holders' = holders \ {h}
    /\ \/ holders # {h} /\ UNCHANGED <<parent, counter, result, stray>>
       \/ /\ holders = {h} /\ kind \in {"RunAsyncWait", "Waiter"}
          /\ parent = "suspended" /\ parent' = "queued"
          /\ UNCHANGED <<counter, result, stray>>
       \/ /\ holders = {h} /\ kind = "Waiter"
          /\ parent = "ended" /\ stray' = stray \cup {"deleter"}
          /\ UNCHANGED <<parent, counter, result>>
       \/ /\ holders = {h} /\ kind = "RunAsyncAnyResult" /\ counter = 0
          /\ parent = "suspended" /\ parent' = "queued"
          /\ counter' = 1 /\ UNCHANGED <<result, stray>>
       \/ /\ holders = {h} /\ kind = "RunAsyncAnyResult" /\ counter > 0
          /\ counter' = counter + 1 /\ UNCHANGED <<parent, result, stray>>

\* It comes to that for the closures, and for the loop while it runs.
LEMMA Released ==
    ASSUME TypeOK, Agreement, NEW h, Release(h), h # Own \/ looping
    PROVE  Releases(h)
<1> USE DEF Releases
<1>1. holders' = holders \ {h}
  BY DEF Release
<1>2. CASE holders # {h}
  BY <1>1, <1>2 DEF Release
<1>3. CASE holders = {h}
  <2>1. LastRelease
    BY <1>3 DEF Release
  <2>2. CASE kind = "RunAsyncWait"
    <3>1. parent = "suspended"
      BY <1>3, <2>2 DEF Agreement, RunAsyncWaitInv
    <3> QED
      BY <1>1, <1>3, <2>1, <2>2, <3>1 DEF LastRelease, Proceed
  <2>3. CASE kind = "Waiter"
    <3>1. h # Own => Own \notin holders /\ Live # {}
      BY <1>3 DEF Agreement, HolderInv
    <3>2. parent \in {"suspended", "ended"}
      BY <1>3, <2>3, <3>1 DEF Agreement, WaiterInv, TypeOK, Parents
    <3> QED
      BY <1>1, <1>3, <2>1, <2>3, <3>2 DEF LastRelease, Proceed, Uses, Gone
  <2>4. CASE kind = "RunAsyncAnyResult"
    <3>1. counter = 0 => parent = "suspended" /\ result = 0
      BY <1>3, <2>4 DEF Agreement, AnyInv, TypeOK, Parents, Any
    <3> QED
      BY <1>1, <1>3, <2>1, <2>4, <3>1 DEF LastRelease, Proceed, Uses, Gone, TypeOK
  <2>5. kind # "RunAsyncAnyWait"
    BY <1>3 DEF Agreement, HolderInv
  <2> QED
    BY <2>2, <2>3, <2>4, <2>5 DEF TypeOK, Kinds
<1> QED
  BY <1>2, <1>3

\* A release keeps the types of what it writes.
LEMMA ReleasedType ==
    ASSUME TypeOK, NEW h, Releases(h)
    PROVE  /\ parent' \in Parents
           /\ holders' \subseteq {Own} \cup Handlers
           /\ counter' \in Nat
           /\ result' = result
           /\ stray' \subseteq {"loop", "handler", "result", "deleter"}
<1> USE CombinatorsAssumption
<1>1. parent' \in Parents
  BY DEF Releases, TypeOK, Parents
<1>2. holders' \subseteq {Own} \cup Handlers
  BY DEF Releases, TypeOK
<1>3. counter' \in Nat
  <2>1. counter \in Nat
    BY DEF TypeOK
  <2> QED
    BY <2>1 DEF Releases
<1>4. result' = result
  BY DEF Releases
<1>5. stray' \subseteq {"loop", "handler", "result", "deleter"}
  BY DEF Releases, TypeOK
<1> QED
  BY <1>1, <1>2, <1>3, <1>4, <1>5

\* A step that keeps the types keeps them but for the bound.
LEMMA AlmostFromType ==
    ASSUME TypeOK'
    PROVE  AlmostTyped'
<1>1. n' \in 0 .. MaxHandlers /\ counter' \in 0 .. n' + 1 /\ next' \in 1 .. n' + 1
  BY DEF TypeOK
<1>2. counter' \in Nat /\ n' \in Nat
  BY <1>1, CombinatorsAssumption
<1> QED
  BY <1>1, <1>2 DEF AlmostTyped

\* What the parent does between its waits.
LEMMA ParentStep ==
    ASSUME TypeOK, Agreement, Parent, main' = main
    PROVE  TypeOK' /\ Agreement'
<1> USE CombinatorsAssumption DEF Handlers, Own, Any, Gone
<1> USE DEF TypeOK, Kinds, Parents, ChildStates
<1>1. CASE Launch
  BY <1>1 DEF Live, Agreement, StartedInv, HolderInv, PlainInv, RunAsyncWaitInv, WaiterInv, WaitedInv,
     AnyInv, Launch
<1>2. CASE Begin
  BY <1>2 DEF Live, Agreement, StartedInv, HolderInv, PlainInv, RunAsyncWaitInv, WaiterInv, WaitedInv,
     AnyInv, Begin
<1>3. CASE DeferProceed
  BY <1>3 DEF Live, Agreement, StartedInv, HolderInv, PlainInv, RunAsyncWaitInv, WaiterInv, WaitedInv,
     AnyInv, DeferProceed
<1>4. CASE Resume
  BY <1>4 DEF Live, Agreement, StartedInv, HolderInv, PlainInv, RunAsyncWaitInv, WaiterInv, WaitedInv,
     AnyInv, Resume
<1>5. CASE Return
  BY <1>5 DEF Live, Agreement, StartedInv, HolderInv, PlainInv, RunAsyncWaitInv, WaiterInv, WaitedInv,
     AnyInv, Return
<1>6. CASE WaitUnique
  BY <1>6 DEF Live, Agreement, StartedInv, HolderInv, PlainInv, RunAsyncWaitInv, WaiterInv, WaitedInv,
     AnyInv, WaitUnique
<1>7. CASE WaitDefer
  BY <1>7 DEF Live, Agreement, StartedInv, HolderInv, PlainInv, RunAsyncWaitInv, WaiterInv, WaitedInv,
     AnyInv, WaitDefer
<1>8. CASE WaitResume
  BY <1>8 DEF Live, Agreement, StartedInv, HolderInv, PlainInv, RunAsyncWaitInv, WaiterInv, WaitedInv,
     AnyInv, WaitResume
<1>9. CASE LeaveWaiter
  BY <1>9 DEF Live, Agreement, StartedInv, HolderInv, PlainInv, RunAsyncWaitInv, WaiterInv, WaitedInv,
     AnyInv, LeaveWaiter
<1> QED
  BY <1>1, <1>2, <1>3, <1>4, <1>5, <1>6, <1>7, <1>8, <1>9 DEF Parent

\* The handlers are started.
LEMMA StartStep ==
    ASSUME TypeOK, Agreement, StartNext \/ WaiterRunAsync, main' = main
    PROVE  TypeOK' /\ Agreement'
<1> USE CombinatorsAssumption DEF Handlers, Own, Any, Gone
<1> USE DEF TypeOK, Kinds, Parents, ChildStates
<1>1. next \in Handlers /\ child' = [child EXCEPT ![next] = "queued"] /\ next' = next + 1
  BY DEF StartNext, WaiterRunAsync
<1>2. Live' = Live \cup {next} /\ StartedInv' /\ child[next] = "absent"
  BY <1>1 DEF Live, Agreement, StartedInv
<1>3. CASE StartNext
  <2>1. TypeOK'
    <3>1. child' \in [Handlers -> ChildStates] /\ next' \in 1 .. n + 1
      BY <1>1, <1>3 DEF StartNext
    <3>2. holders' \subseteq {Own} \cup Handlers
      BY <1>1, <1>3 DEF StartNext, Holds
    <3>3. stray' \subseteq {"loop", "handler", "result", "deleter"}
      BY <1>3 DEF StartNext, Uses
    <3> QED
      BY <1>3, <3>1, <3>2, <3>3 DEF StartNext
  <2>2. PlainInv' /\ RunAsyncWaitInv' /\ WaiterInv' /\ WaitedInv' /\ AnyInv'
    BY <1>1, <1>2, <1>3 DEF Live, Agreement, StartedInv, HolderInv, PlainInv, RunAsyncWaitInv, WaiterInv, WaitedInv,
     AnyInv, StartNext, Holds, Uses
  <2>3. HolderInv'
    BY <1>1, <1>2, <1>3 DEF Agreement, HolderInv, RunAsyncWaitInv, AnyInv, StartNext, Holds
  <2> QED
    BY <1>2, <2>1, <2>2, <2>3 DEF Agreement
<1>4. CASE WaiterRunAsync
  <2>1. TypeOK'
    <3>1. child' \in [Handlers -> ChildStates] /\ next' \in 1 .. n + 1
      BY <1>1, <1>4 DEF WaiterRunAsync
    <3>2. holders' \subseteq {Own} \cup Handlers
      BY <1>1, <1>4 DEF WaiterRunAsync, Holds
    <3> QED
      BY <1>4, <3>1, <3>2 DEF WaiterRunAsync
  <2>2. HolderInv' /\ PlainInv' /\ RunAsyncWaitInv' /\ WaiterInv' /\ WaitedInv' /\ AnyInv'
    BY <1>1, <1>2, <1>4 DEF Live, Agreement, StartedInv, HolderInv, PlainInv, RunAsyncWaitInv, WaiterInv, WaitedInv,
     AnyInv, WaiterRunAsync, Holds
  <2> QED
    BY <1>2, <2>1, <2>2 DEF Agreement
<1> QED
  BY <1>3, <1>4

\* The loop ends, or Wait's deferred handler runs.
LEMMA ReleaseStep ==
    ASSUME TypeOK, Agreement, LoopEnds \/ WaitDeferred, main' = main
    PROVE  AlmostTyped' /\ Agreement'
<1> USE CombinatorsAssumption DEF Handlers, Own, Any, Gone
<1> USE DEF TypeOK, Kinds, Parents, ChildStates
<1>1. CASE LoopEnds /\ kind = "RunAsyncAnyWait"
  <2>1. TypeOK' /\ Agreement'
    BY <1>1 DEF Live, Agreement, StartedInv, HolderInv, PlainInv, RunAsyncWaitInv, WaiterInv, WaitedInv,
       AnyInv, LoopEnds
  <2> QED
    BY <2>1, AlmostFromType
<1>2. CASE LoopEnds /\ kind # "RunAsyncAnyWait"
  <2>0. Releases(Own) /\ looping /\ ~looping'
    BY <1>2, Released DEF LoopEnds
  <2>1. AlmostTyped'
    <3>1. looping' \in BOOLEAN
      BY <1>2 DEF LoopEnds
    <3>2. UNCHANGED <<kind, n, event, next, child, first, gave, waited>>
      BY <1>2 DEF LoopEnds
    <3>3. n \in Nat
      OBVIOUS
    <3> QED
      BY <2>0, <3>1, <3>2, <3>3, ReleasedType DEF AlmostTyped
  <2>2. Live' = Live
    BY <1>2 DEF Live, LoopEnds
  <2>a. holders' = holders \ {Own} /\ kind' = kind /\ child' = child /\ n' = n
    BY <1>2, <2>0 DEF Releases, LoopEnds
  <2>3. HolderInv'
    <3>1. kind \in {"RunAsyncWait", "RunAsyncAnyResult"}
      BY <1>2 DEF LoopEnds
    <3>2. Own \notin Live
      BY DEF Live
    <3> QED
      BY <1>2, <2>0, <2>2, <2>a, <3>1, <3>2 DEF Agreement, HolderInv
  <2>4. AnyInv'
    <3> SUFFICES ASSUME kind = "RunAsyncAnyResult"
                 PROVE  AnyInv'
      BY <1>2, <2>a DEF LoopEnds, AnyInv
    <3>1. counter = 0 => parent = "suspended"
      BY <2>0 DEF Agreement, AnyInv
    <3>2. next' = next /\ first' = first /\ gave' = gave
      BY <1>2 DEF LoopEnds
    <3>3. CASE UNCHANGED <<parent, counter, result, stray>>
      BY <2>0, <2>a, <3>1, <3>2, <3>3 DEF Agreement, AnyInv
    <3>4. CASE /\ holders = {Own} /\ counter = 0 /\ parent = "suspended" /\ parent' = "queued"
               /\ counter' = 1 /\ UNCHANGED <<result, stray>>
      BY <2>0, <2>a, <3>2, <3>4 DEF Agreement, AnyInv
    <3>5. CASE /\ holders = {Own} /\ counter > 0 /\ counter' = counter + 1
               /\ UNCHANGED <<parent, result, stray>>
      BY <2>0, <2>a, <3>2, <3>5 DEF Agreement, AnyInv
    <3> QED
      BY <2>0, <3>3, <3>4, <3>5 DEF Releases
  <2>5. StartedInv' /\ PlainInv' /\ RunAsyncWaitInv' /\ WaiterInv' /\ WaitedInv'
    BY <1>2, <2>0 DEF Releases, Live, Agreement, StartedInv, HolderInv, PlainInv, RunAsyncWaitInv, WaiterInv,
       WaitedInv, LoopEnds
  <2> QED
    BY <2>1, <2>3, <2>4, <2>5 DEF Agreement
<1>3. CASE WaitDeferred
  <2>0. Releases(Own) /\ looping /\ ~looping'
    BY <1>3, Released DEF WaitDeferred
  <2>1. AlmostTyped'
    <3>1. looping' \in BOOLEAN
      BY <1>3 DEF WaitDeferred
    <3>2. UNCHANGED <<kind, n, event, next, child, first, gave, waited>>
      BY <1>3 DEF WaitDeferred
    <3>3. n \in Nat
      OBVIOUS
    <3> QED
      BY <2>0, <3>1, <3>2, <3>3, ReleasedType DEF AlmostTyped
  <2>2. Live' = Live
    BY <1>3 DEF Live, WaitDeferred
  <2>a. kind = "Waiter" /\ kind' = kind /\ holders' = holders \ {Own} /\ parent = "suspended"
    BY <1>3, <2>0 DEF Releases, WaitDeferred, Agreement, WaiterInv
  <2>b. Own \notin Live
    BY DEF Live
  <2>c. HolderInv'
    BY <2>2, <2>a, <2>b DEF Agreement, HolderInv
  <2>3. WaiterInv'
    <3>1. parent' = "suspended" \/ (parent' = "queued" /\ holders = {Own})
      <4>1. parent' = parent \/ (holders = {Own} /\ parent' = "queued")
        BY <2>0 DEF Releases
      <4> QED
        BY <2>a, <4>1
    <3>2. Own \notin holders'
      BY <2>a
    <3>3. holders = {Own} => Live = {}
      BY <2>a, <2>b DEF Agreement, HolderInv
    <3> QED
      BY <2>0, <2>2, <2>a, <3>1, <3>2, <3>3 DEF WaiterInv
  <2>4. StartedInv' /\ PlainInv' /\ RunAsyncWaitInv' /\ WaitedInv' /\ AnyInv'
    BY <1>3, <2>0 DEF Releases, Live, Agreement, StartedInv, HolderInv, PlainInv, RunAsyncWaitInv, WaiterInv,
       WaitedInv, AnyInv, WaitDeferred
  <2> QED
    BY <2>1, <2>3, <2>4, <2>c DEF Agreement
<1> QED
  BY <1>1, <1>2, <1>3

\* A handler's operation.
LEMMA ChildStep ==
    ASSUME TypeOK, Agreement, NEW c \in Handlers, Child(c), main' = main
    PROVE  AlmostTyped' /\ Agreement'
<1> USE CombinatorsAssumption DEF Handlers, Own, Any, Gone
<1> USE DEF TypeOK, Kinds, Parents, ChildStates
<1>1. CASE HandlerBegins(c)
  <2>1. TypeOK'
    BY <1>1 DEF HandlerBegins, UsesHandler, Uses
  <2>2. Live' = Live /\ StartedInv' /\ HolderInv' /\ PlainInv'
    BY <1>1 DEF Live, Agreement, StartedInv, HolderInv, PlainInv, HandlerBegins
  <2>3. RunAsyncWaitInv' /\ WaiterInv' /\ WaitedInv'
    BY <1>1, <2>2 DEF Agreement, RunAsyncWaitInv, WaiterInv, WaitedInv, Live, HandlerBegins, UsesHandler, Uses
  <2>4. AnyInv'
    BY <1>1 DEF Agreement, AnyInv, HandlerBegins, UsesHandler, Uses
  <2> QED
    BY <2>1, <2>2, <2>3, <2>4, AlmostFromType DEF Agreement
<1>2. CASE HandlerReturns(c)
  <2>1. TypeOK'
    BY <1>2 DEF HandlerReturns, UsesHandler, Uses
  <2>2. Live' = Live /\ StartedInv' /\ HolderInv' /\ PlainInv'
    BY <1>2 DEF Live, Agreement, StartedInv, HolderInv, PlainInv, HandlerReturns
  <2>3. RunAsyncWaitInv' /\ WaiterInv' /\ WaitedInv'
    BY <1>2, <2>2 DEF Agreement, RunAsyncWaitInv, WaiterInv, WaitedInv, Live, HandlerReturns, UsesHandler, Uses
  <2>4. AnyInv'
    BY <1>2 DEF Agreement, AnyInv, HandlerReturns, UsesHandler, Uses
  <2> QED
    BY <2>1, <2>2, <2>3, <2>4, AlmostFromType DEF Agreement
<1>3. CASE HandlerFails(c)
  <2>1. TypeOK'
    BY <1>3 DEF HandlerFails, UsesHandler, Uses
  <2>2. Live' = Live /\ StartedInv' /\ HolderInv' /\ PlainInv'
    BY <1>3 DEF Live, Agreement, StartedInv, HolderInv, PlainInv, HandlerFails
  <2>3. RunAsyncWaitInv' /\ WaiterInv' /\ WaitedInv'
    BY <1>3, <2>2 DEF Agreement, RunAsyncWaitInv, WaiterInv, WaitedInv, Live, HandlerFails, UsesHandler, Uses
  <2>4. AnyInv'
    BY <1>3 DEF Agreement, AnyInv, HandlerFails, UsesHandler, Uses
  <2> QED
    BY <2>1, <2>2, <2>3, <2>4, AlmostFromType DEF Agreement
<1>4. CASE Count(c)
  <2>1. AlmostTyped'
    <3>1. counter' = counter + 1 /\ counter \in Nat /\ n \in Nat /\ n' = n /\ next' = next
      BY <1>4 DEF Count
    <3>2. first' \in 0 .. n
      <4>1. c <= n
        BY <1>4 DEF Count, Agreement, StartedInv
      <4> QED
        BY <1>4, <4>1 DEF Count
    <3>3. child' \in [Handlers -> ChildStates]
      BY <1>4 DEF Count
    <3>4. ASSUME counter' <= n + 1
          PROVE  TypeOK'
      BY <1>4, <3>1, <3>2, <3>3, <3>4 DEF Count
    <3> QED
      BY <3>1, <3>4 DEF AlmostTyped
  <2>2. Agreement'
    BY <1>4 DEF Live, Agreement, StartedInv, HolderInv, PlainInv, RunAsyncWaitInv, WaiterInv, WaitedInv,
       AnyInv, Count
  <2> QED
    BY <2>1, <2>2
<1>5. CASE Deliver(c)
  <2>1. TypeOK' /\ Agreement'
    BY <1>5 DEF Live, Agreement, StartedInv, HolderInv, PlainInv, RunAsyncWaitInv, WaiterInv, WaitedInv,
       AnyInv, Deliver, Uses, Proceed
  <2> QED
    BY <2>1, AlmostFromType
<1>6. CASE Finish(c)
  <2>1. TypeOK' /\ Agreement'
    BY <1>6 DEF Live, Agreement, StartedInv, HolderInv, PlainInv, RunAsyncWaitInv, WaiterInv, WaitedInv,
       AnyInv, Finish
  <2> QED
    BY <2>1, AlmostFromType
<1>7. CASE DestroyClosure(c) /\ c \notin holders
  <2>1. TypeOK' /\ Agreement'
    BY <1>7 DEF Live, Agreement, StartedInv, HolderInv, PlainInv, RunAsyncWaitInv, WaiterInv, WaitedInv,
       AnyInv, DestroyClosure
  <2> QED
    BY <2>1, AlmostFromType
<1>8. CASE DestroyClosure(c) /\ c \in holders
  <2>0. Releases(c) /\ c # Own /\ child' = [child EXCEPT ![c] = "released"] /\ child[c] = "done"
    BY <1>8, Released DEF DestroyClosure
  <2>1. AlmostTyped'
    <3>1. child' \in [Handlers -> ChildStates]
      BY <2>0
    <3> QED
      BY <1>8, <2>0, <3>1, ReleasedType DEF AlmostTyped, DestroyClosure
  <2>2. Live' = Live \ {c} /\ StartedInv'
    BY <1>8, <2>0 DEF Live, Agreement, StartedInv, DestroyClosure
  <2>3. HolderInv'
    BY <1>8, <2>0, <2>2 DEF Releases, Agreement, HolderInv, DestroyClosure
  <2>4. AnyInv'
    <3>1. kind' = kind /\ holders' = holders \ {c} /\ looping' = looping /\ next' = next
          /\ first' = first /\ gave' = gave
      BY <1>8, <2>0 DEF Releases, DestroyClosure
    <3> SUFFICES ASSUME kind = "RunAsyncAnyResult"
                 PROVE  AnyInv'
      BY <1>8, <3>1 DEF Agreement, HolderInv, AnyInv
    <3>2. counter = 0 => parent = "suspended"
      BY <1>8 DEF Agreement, AnyInv
    <3>3. CASE UNCHANGED <<parent, counter, result, stray>>
      BY <2>0, <3>1, <3>2, <3>3 DEF Agreement, AnyInv
    <3>4. CASE /\ holders = {c} /\ counter = 0 /\ parent = "suspended" /\ parent' = "queued"
               /\ counter' = 1 /\ UNCHANGED <<result, stray>>
      BY <2>0, <3>1, <3>4 DEF Agreement, AnyInv
    <3>5. CASE /\ holders = {c} /\ counter > 0 /\ counter' = counter + 1
               /\ UNCHANGED <<parent, result, stray>>
      BY <2>0, <3>1, <3>5 DEF Agreement, AnyInv
    <3> QED
      BY <2>0, <3>3, <3>4, <3>5 DEF Releases
  <2>5. PlainInv' /\ RunAsyncWaitInv'
    BY <1>8, <2>0 DEF Releases, Agreement, HolderInv, PlainInv, RunAsyncWaitInv, DestroyClosure
  <2>6. WaiterInv'
    BY <1>8, <2>0, <2>2 DEF Releases, Agreement, HolderInv, WaiterInv, DestroyClosure
  <2>7. WaitedInv'
    <3>1. c \in Live
      BY <2>0 DEF Live
    <3>2. ~waited /\ ~waited'
      BY <1>8, <3>1 DEF Agreement, WaitedInv, DestroyClosure
    <3>3. stray' # {} => parent' = "ended"
      BY <2>0 DEF Releases, Agreement, WaitedInv
    <3> QED
      BY <3>2, <3>3 DEF WaitedInv
  <2> QED
    BY <2>1, <2>2, <2>3, <2>4, <2>5, <2>6, <2>7 DEF Agreement
<1> QED
  BY <1>1, <1>2, <1>3, <1>4, <1>5, <1>6, <1>7, <1>8 DEF Child

\* The handlers that cannot count are finitely many, before a step and after.
LEMMA PastIsFinite ==
    ASSUME Past \subseteq Past', Past' \subseteq Handlers
    PROVE  /\ Cardinality(Past) \in Nat /\ Cardinality(Past') \in Nat
           /\ Cardinality(Past) <= Cardinality(Past')
           /\ IsFiniteSet(Past) /\ IsFiniteSet(Past')
<1> USE CombinatorsAssumption
<1>1. IsFiniteSet(Past) /\ Cardinality(Past) \in Nat
  BY HandlerSets DEF Past, Handlers
<1>2. IsFiniteSet(Past') /\ Cardinality(Past') \in Nat
  BY HandlerSets DEF Handlers
<1> QED
  BY <1>1, <1>2, FS_Subset

\* A handler that cannot count stays so.
LEMMA PastGrows ==
    ASSUME TypeOK, Agreement, Step
    PROVE  Past \subseteq Past' /\ Past' \subseteq Handlers
<1>1. ASSUME NEW c \in Handlers, Child(c)
      PROVE  Past \subseteq Past' /\ Past' \subseteq Handlers
  BY <1>1 DEF TypeOK, Past, Child, HandlerBegins, HandlerReturns, HandlerFails, Count, Deliver, Finish,
     DestroyClosure
<1>2. CASE StartNext \/ WaiterRunAsync
  <2>1. next \in Handlers /\ child' = [child EXCEPT ![next] = "queued"]
    BY <1>2, CombinatorsAssumption DEF TypeOK, Handlers, StartNext, WaiterRunAsync
  <2>2. child[next] = "absent"
    BY <2>1, CombinatorsAssumption DEF TypeOK, Agreement, StartedInv, Handlers
  <2> QED
    BY <2>1, <2>2 DEF TypeOK, Past
<1>3. CASE Parent \/ LoopEnds \/ WaitDeferred \/ SetEvent
  <2>1. child' = child
    BY <1>3 DEF Parent, Launch, Begin, DeferProceed, Resume, Return, WaitUnique, WaitDefer, WaitResume,
       LeaveWaiter, LoopEnds, WaitDeferred, SetEvent
  <2> QED
    BY <2>1 DEF Past
<1> QED
  BY <1>1, <1>2, <1>3 DEF Step, Deferred

\* The counter counts handlers, and at the end its own destruction.
LEMMA CountStep ==
    ASSUME TypeOK, Agreement, CountInv, Step
    PROVE  CountInv'
<1> USE CombinatorsAssumption
<1>0. counter \in Nat /\ Destroyed \in {0, 1} /\ Destroyed' \in {0, 1}
  BY DEF TypeOK, Destroyed
<1>1. /\ Cardinality(Past) \in Nat /\ Cardinality(Past') \in Nat
      /\ Cardinality(Past) <= Cardinality(Past')
      /\ IsFiniteSet(Past)
  BY PastGrows, PastIsFinite
<1>2. ASSUME counter' = counter, counter = 0 \/ Destroyed = 0 \/ Destroyed' = 1
      PROVE  CountInv'
  BY <1>0, <1>1, <1>2 DEF CountInv
<1>3. ASSUME NEW h, Releases(h), kind' = kind, h \in holders
      PROVE  CountInv'
  <2>1. CASE counter' = counter
    <3>1. Destroyed = 0
      BY <1>3 DEF Destroyed
    <3> QED
      BY <1>2, <2>1, <3>1
  <2>2. CASE counter' = counter + 1 /\ kind = "RunAsyncAnyResult" /\ holders = {h}
    <3>1. Destroyed = 0 /\ Destroyed' = 1
      BY <1>3, <2>2 DEF Destroyed, Releases
    <3> QED
      BY <1>0, <1>1, <2>2, <3>1 DEF CountInv
  <2> QED
    BY <1>0, <1>3, <2>1, <2>2 DEF Releases
<1>4. CASE Parent
  <2>1. counter' = counter /\ kind' = kind
    BY <1>4 DEF Parent, Launch, Begin, DeferProceed, Resume, Return, WaitUnique, WaitDefer, WaitResume,
       LeaveWaiter
  <2>2. counter = 0 \/ Destroyed = 0 \/ Destroyed' = 1
    <3>1. CASE DeferProceed
      BY <3>1 DEF DeferProceed, Agreement, PlainInv, AnyInv, TypeOK, Kinds, Any
    <3>2. CASE WaitResume \/ LeaveWaiter
      BY <3>2 DEF WaitResume, LeaveWaiter, Destroyed
    <3>3. CASE UNCHANGED <<kind, holders>>
      BY <1>0, <3>3 DEF Destroyed
    <3> QED
      BY <1>4, <3>1, <3>2, <3>3 DEF Parent, Launch, Begin, Resume, Return, WaitUnique, WaitDefer
  <2> QED
    BY <1>2, <2>1, <2>2
<1>5. CASE StartNext \/ WaiterRunAsync
  <2>1. counter' = counter /\ kind' = kind
    BY <1>5 DEF StartNext, WaiterRunAsync
  <2>2. Destroyed = 0
    BY <1>5 DEF StartNext, WaiterRunAsync, Agreement, HolderInv, Destroyed
  <2> QED
    BY <1>2, <2>1, <2>2
<1>6. CASE LoopEnds \/ WaitDeferred
  <2>1. CASE Release(Own) /\ Own \in holders
    <3>1. Releases(Own) /\ kind' = kind
      BY <1>6, <2>1, Released DEF LoopEnds, WaitDeferred
    <3> QED
      BY <1>3, <2>1, <3>1
  <2>2. CASE kind # "RunAsyncAnyResult" /\ counter' = counter
    BY <1>2, <2>2 DEF Destroyed
  <2> QED
    BY <1>6, <2>1, <2>2 DEF LoopEnds, WaitDeferred, Agreement, HolderInv, WaiterInv, Release, LastRelease, TypeOK, Kinds
<1>7. ASSUME NEW c \in Handlers, Child(c)
      PROVE  CountInv'
  <2>1. CASE Count(c)
    <3>1. c \notin Past /\ Past' = Past \cup {c}
      BY <2>1 DEF TypeOK, Past, Count
    <3>2. Cardinality(Past') = Cardinality(Past) + 1
      BY <1>1, <3>1, FS_AddElement
    <3>3. counter' = counter + 1 /\ Destroyed' = Destroyed
      BY <2>1 DEF Count, Destroyed
    <3> QED
      BY <1>0, <1>1, <3>2, <3>3 DEF CountInv
  <2>2. CASE DestroyClosure(c) /\ c \in holders
    <3>1. Releases(c) /\ kind' = kind
      BY <2>2, Released DEF DestroyClosure, Handlers, Own
    <3> QED
      BY <1>3, <2>2, <3>1
  <2>3. CASE UNCHANGED <<counter, kind, holders>>
    <3>1. Destroyed' = Destroyed
      BY <2>3 DEF Destroyed
    <3> QED
      BY <1>0, <1>2, <2>3, <3>1
  <2> QED
    BY <1>7, <2>1, <2>2, <2>3 DEF Child, HandlerBegins, HandlerReturns, HandlerFails, Deliver, Finish,
       DestroyClosure
<1>8. CASE SetEvent
  <2>1. Destroyed' = Destroyed /\ counter' = counter
    BY <1>8 DEF SetEvent, Destroyed
  <2> QED
    BY <1>0, <1>2, <2>1
<1> QED
  BY <1>4, <1>5, <1>6, <1>7, <1>8 DEF Step, Deferred

\* So the counter stays below its bound.
LEMMA CountBound ==
    ASSUME CountInv', StartedInv', AlmostTyped', n' = n, n \in Nat
    PROVE  TypeOK'
<1>1. counter' \in Nat /\ next' \in 1 .. n + 1
  BY DEF AlmostTyped
<1>2. Past' \subseteq 1 .. n
  <2> SUFFICES ASSUME NEW c \in Past'
               PROVE  c \in 1 .. n
    OBVIOUS
  <2>1. c \in Handlers /\ child'[c] # "absent"
    BY DEF Past
  <2>2. c \in Handlers /\ c < next'
    <3>1. child'[c] = "absent" <=> c >= next'
      BY <2>1 DEF StartedInv
    <3> QED
      BY <1>1, <2>1, <3>1, CombinatorsAssumption DEF Handlers
  <2> QED
    BY <1>1, <2>2, CombinatorsAssumption DEF Handlers
<1>3. Cardinality(Past') \in Nat /\ Cardinality(Past') <= n
  BY <1>1, <1>2, HandlerSets
<1>4. Destroyed' \in {0, 1}
  BY DEF Destroyed
<1>5. counter' <= Cardinality(Past') + Destroyed'
  BY DEF CountInv
<1>6. counter' <= n + 1
  BY <1>1, <1>3, <1>4, <1>5
<1> QED
  BY <1>6 DEF AlmostTyped

-----------------------------------------------------------------------------
(* The theorems. *)

\* Every state of the program satisfies the invariant.
THEOREM Invariance == Spec => []CombInv
<1>1. Init => CombInv
  <2> SUFFICES ASSUME Init
               PROVE  CombInv
    OBVIOUS
  <2> USE CombinatorsAssumption
  <2>1. TypeOK
    <3>1. n \in 0 .. MaxHandlers
      BY DEF Init
    <3>2. holders \subseteq {Own} \cup Handlers
      BY DEF Init
    <3>3. child \in [Handlers -> ChildStates] /\ event \in BOOLEAN /\ looping \in BOOLEAN /\ waited \in BOOLEAN
      BY DEF Init, ChildStates
    <3>4. next \in 1 .. n + 1 /\ counter \in 0 .. n + 1 /\ result \in 0 .. n /\ first \in 0 .. n
      BY <3>1 DEF Init
    <3> QED
      BY <3>1, <3>2, <3>3, <3>4 DEF Init, TypeOK, Kinds, Parents, ChildStates, Handlers, Own
  <2>2. Agreement
    BY DEF Init, Agreement, Live, StartedInv, HolderInv, PlainInv, RunAsyncWaitInv, WaiterInv, WaitedInv,
       AnyInv, Any, Own, Handlers, Gone
  <2>3. CountInv
    <3>1. Cardinality(Past) \in Nat
      BY HandlerSets DEF Past, Handlers
    <3>2. counter = 0 /\ Destroyed \in {0, 1}
      BY DEF Init, Destroyed
    <3> QED
      BY <3>1, <3>2 DEF CountInv
  <2> QED
    BY <2>1, <2>2, <2>3 DEF CombInv
<1>2. CombInv /\ [Next]_vars => CombInv'
  <2> SUFFICES ASSUME CombInv, [Next]_vars
               PROVE  CombInv'
    OBVIOUS
  <2> USE CombinatorsAssumption
  <2>0. TypeOK /\ Agreement /\ CountInv
    BY DEF CombInv
  <2>1. CASE UNCHANGED callVars /\ main' \in {"run", "blocked", "returned"}
    BY <2>0, <2>1 DEF callVars, CombInv, TypeOK, Agreement, Live, StartedInv, HolderInv, PlainInv,
       RunAsyncWaitInv, WaiterInv, WaitedInv, AnyInv, Gone, CountInv, Past, Destroyed
  <2>2. CASE Step /\ main' = main
    <3>1. CountInv'
      BY <2>0, <2>2, CountStep
    <3>2. AlmostTyped' /\ Agreement'
      <4>1. CASE SetEvent
        <5>1. event' \in BOOLEAN
          BY <2>0, <4>1 DEF SetEvent, TypeOK
        <5> QED
          BY <2>0, <2>2, <4>1, <5>1, AlmostFromType DEF SetEvent, TypeOK, Agreement, Live, StartedInv, HolderInv, PlainInv,
             RunAsyncWaitInv, WaiterInv, WaitedInv, AnyInv, Gone
      <4> QED
        BY <2>0, <2>2, <4>1, AlmostFromType, ParentStep, StartStep, ReleaseStep, ChildStep DEF Step, Deferred
    <3>3. n' = n /\ n \in Nat
      <4>1. n' = n
        BY <2>2 DEF Step, Parent, Launch, Begin, DeferProceed, Resume, Return, WaitUnique, WaitDefer,
           WaitResume, LeaveWaiter, WaiterRunAsync, Deferred, StartNext, LoopEnds, WaitDeferred, Child,
           HandlerBegins, HandlerReturns, HandlerFails, Count, Deliver, Finish, DestroyClosure, SetEvent
      <4> QED
        BY <2>0, <4>1 DEF TypeOK
    <3>4. TypeOK'
      BY <3>1, <3>2, <3>3, CountBound DEF Agreement
    <3> QED
      BY <3>1, <3>2, <3>4 DEF CombInv
  <2>3. CASE WaitAllBegin \/ WaitAllReturn \/ UNCHANGED vars
    <3>1. main' \in {"run", "blocked", "returned"} /\ UNCHANGED callVars
      BY <2>0, <2>3 DEF WaitAllBegin, WaitAllReturn, vars, TypeOK
    <3> QED
      BY <2>1, <3>1
  <2> QED
    BY <2>2, <2>3 DEF Next
<1> QED
  BY <1>1, <1>2, PTL DEF Spec

\* The variables have their types in every state; above all the counter never
\* goes beyond one for each handler and one for the destructor.
THEOREM TypeCorrectness == Spec => []TypeOK
<1>1. CombInv => TypeOK
  BY DEF CombInv
<1> QED
  BY <1>1, Invariance, PTL

\* RunAsyncWait is left, and Wait of a Waiter returns, when no handler runs or
\* will run, for any number of handlers.
THEOREM WaitSafety == Spec => []WaitsForAll
<1>1. CombInv => WaitsForAll
  BY DEF CombInv, TypeOK, Agreement, HolderInv, RunAsyncWaitInv, WaitedInv, Live, WaitsForAll, Over, Gone,
     Any, ChildStates, Own, Handlers
<1> QED
  BY <1>1, Invariance, PTL

\* RunAsyncAnyWait and RunAsyncAnyResult return what the handler that counted
\* first gave, and none only when no handler gave anything.
THEOREM FirstSafety == Spec => []FirstWins
<1>1. CombInv => FirstWins
  <2> SUFFICES ASSUME CombInv, kind \in Any, parent = "returns"
               PROVE  /\ result = first
                      /\ result # 0 => result \in gave
                      /\ result = 0 =>
                            kind = "RunAsyncAnyResult" /\ \A c \in Handlers : Over(c) /\ c \notin gave
    BY DEF FirstWins
  <2>1. result = first /\ (first # 0 => first \in gave)
    BY CombinatorsAssumption DEF CombInv, TypeOK, Agreement, AnyInv
  <2>2. ASSUME result = 0
        PROVE  kind = "RunAsyncAnyResult" /\ \A c \in Handlers : Over(c) /\ c \notin gave
    <3>1. first = 0 /\ counter > 0 /\ counter \in Nat
      BY <2>1, <2>2, CombinatorsAssumption DEF CombInv, TypeOK, Agreement, AnyInv
    <3>2. kind = "RunAsyncAnyResult" /\ holders = {}
      BY <3>1 DEF CombInv, Agreement, AnyInv
    <3>3. Live = {}
      BY <3>2 DEF CombInv, Agreement, HolderInv
    <3>4. \A c \in Handlers : child[c] \in {"absent", "released"}
      BY <3>3 DEF Live
    <3> QED
      BY <3>1, <3>2, <3>4 DEF CombInv, Agreement, AnyInv, Over
  <2> QED
    BY <2>1, <2>2
<1> QED
  BY <1>1, Invariance, PTL

\* Nobody uses the frame of a RunAsyncWait or the result of the others after
\* the parent has left, nor a Waiter whose Wait has returned.
THEOREM FrameSafety == Spec => []FrameIsAlive
<1>1. CombInv => FrameIsAlive
  BY DEF CombInv, TypeOK, Agreement, RunAsyncWaitInv, WaitedInv, AnyInv, Any, FrameIsAlive
<1> QED
  BY <1>1, Invariance, PTL

-----------------------------------------------------------------------------
(* The combinators implement AsyncTask. *)

\* The cases of the mapping.
LEMMA ParentTaskIs ==
    /\ ParentTask("absent") = "absent"
    /\ ParentTask("new") = "ready" /\ ParentTask("queued") = "ready"
    /\ ParentTask("body") = "running" /\ ParentTask("returns") = "running"
    /\ ParentTask("suspended") = "waiting"
    /\ ParentTask("ended") = "done"
BY DEF ParentTask

\* The same for the handlers.
LEMMA ChildTaskIs ==
    /\ ChildTask("absent") = "absent"
    /\ ChildTask("queued") = "ready"
    /\ \A x \in {"running", "counts", "won", "leaves"} : ChildTask(x) = "running"
    /\ \A x \in {"done", "released"} : ChildTask(x) = "done"
BY DEF ChildTask

\* What a step of the parent, the handlers' tasks unchanged, may do.
ParentMove ==
    \/ parent' = parent /\ StartersOf' = StartersOf
    \/ parent' = parent /\ 0 \in StartersOf /\ StartersOf' = StartersOf \ {0}
    \/ parent = "absent" /\ parent' = "new" /\ main = "run" /\ StartersOf' = StartersOf
    \/ parent \in {"new", "queued"} /\ parent' = "body" /\ StartersOf = {} /\ StartersOf' = {}
    \/ parent = "queued" /\ parent' = "returns" /\ StartersOf' = StartersOf
    \/ parent = "body" /\ parent' = "suspended" /\ StartersOf' \in {StartersOf, StartersOf \cup {0}}
    \/ parent \in {"body", "returns"} /\ parent' = "ended" /\ StartersOf' = StartersOf
    \/ parent = "suspended" /\ parent' = "queued" /\ StartersOf' = StartersOf
    \/ parent = "suspended" /\ parent' = "queued" /\ 0 \in StartersOf /\ StartersOf' = StartersOf \ {0}

\* Each of these is a step of AsyncTask.
LEMMA ParentMoves ==
    ASSUME \A c \in Handlers : ChildTask(child'[c]) = ChildTask(child[c]), main' = main, ParentMove
    PROVE  [Task!Next]_(Task!vars)
<1> USE CombinatorsAssumption
<1> DEFINE N == MaxHandlers
           T == 0 .. N + 1
<1>1. /\ 0 \in 0 .. N /\ 0 \in T /\ N + 1 \in T /\ 0 \notin Handlers /\ N + 1 \notin Handlers
      /\ N + 1 # 0 /\ 0 # N + 2 /\ N + 1 \notin {0}
      /\ \A u \in 0 .. N : u # 0 => u \in Handlers
  BY DEF Handlers
<1>2. TaskOf' = [TaskOf EXCEPT ![0] = ParentTask(parent')] /\ TaskOf[0] = ParentTask(parent)
  <2>1. TaskOf' = [u \in 0 .. N |-> IF u = 0 THEN ParentTask(parent') ELSE ChildTask(child'[u])]
    BY DEF TaskOf
  <2>2. \A u \in 0 .. N : TaskOf'[u] = IF u = 0 THEN ParentTask(parent') ELSE TaskOf[u]
    BY <1>1, <2>1 DEF TaskOf
  <2> QED
    BY <1>1, <2>1, <2>2 DEF TaskOf
<1>3. \A u \in T : u \notin {0, N + 1} => CurrentOf'[u] = CurrentOf[u]
  BY <1>1 DEF CurrentOf
<1>4. CurrentOf = [u \in T |-> CurrentOf[u]] /\ CurrentOf' = [u \in T |-> CurrentOf'[u]]
  BY DEF CurrentOf
<1>5. /\ CurrentOf[0] = IF parent = "body" THEN 0 ELSE N + 2
      /\ CurrentOf'[0] = IF parent' = "body" THEN 0 ELSE N + 2
      /\ CurrentOf[N + 1] = IF parent = "returns" THEN 0 ELSE N + 2
      /\ CurrentOf'[N + 1] = IF parent' = "returns" THEN 0 ELSE N + 2
  BY <1>1 DEF CurrentOf
<1>6. StartersOf \subseteq {0} /\ N + 1 \notin StartersOf
  BY <1>1 DEF StartersOf
<1> HIDE DEF T
<1>7. ASSUME parent' = parent
      PROVE  TaskOf' = TaskOf /\ CurrentOf' = CurrentOf
  <2>1. TaskOf = [u \in 0 .. N |-> TaskOf[u]]
    BY DEF TaskOf
  <2> QED
    BY <1>2, <1>3, <1>4, <1>5, <1>7, <2>1
<1>8. CASE parent' = parent /\ StartersOf' = StartersOf
  BY <1>7, <1>8 DEF Task!vars
<1>9. CASE parent' = parent /\ 0 \in StartersOf /\ StartersOf' = StartersOf \ {0}
  <2>1. Task!Started(0)
    BY <1>7, <1>9 DEF Task!Started
  <2> QED
    BY <1>1, <2>1 DEF Task!Next, T
<1>10. CASE parent = "absent" /\ parent' = "new" /\ main = "run" /\ StartersOf' = StartersOf
  <2>1. CurrentOf' = CurrentOf
    BY <1>3, <1>4, <1>5, <1>10
  <2>2. Task!Submit(0)
    BY <1>2, <1>10, <2>1, ParentTaskIs DEF Task!Submit
  <2> QED
    BY <1>1, <2>2 DEF Task!Next
<1>11. CASE parent \in {"new", "queued"} /\ parent' = "body" /\ StartersOf = {} /\ StartersOf' = {}
  <2>1. CurrentOf' = [CurrentOf EXCEPT ![0] = 0] /\ CurrentOf[0] = N + 2
    BY <1>1, <1>3, <1>4, <1>5, <1>11
  <2>2. TaskOf' = [TaskOf EXCEPT ![0] = "running"] /\ TaskOf[0] = "ready"
    BY <1>2, <1>11, ParentTaskIs
  <2>3. Task!Run(0, 0)
    BY <1>11, <2>1, <2>2 DEF Task!Run
  <2> QED
    BY <1>1, <2>3 DEF Task!Next, T
<1>12. CASE parent = "queued" /\ parent' = "returns" /\ StartersOf' = StartersOf
  <2>1. CurrentOf' = [CurrentOf EXCEPT ![N + 1] = 0] /\ CurrentOf[N + 1] = N + 2
    BY <1>1, <1>3, <1>4, <1>5, <1>12
  <2>2. TaskOf' = [TaskOf EXCEPT ![0] = "running"] /\ TaskOf[0] = "ready"
    BY <1>2, <1>12, ParentTaskIs
  <2>3. Task!Run(N + 1, 0)
    BY <1>6, <1>12, <2>1, <2>2 DEF Task!Run
  <2> QED
    BY <1>1, <2>3 DEF Task!Next, T
<1>13. CASE parent = "body" /\ parent' = "suspended" /\ StartersOf' \in {StartersOf, StartersOf \cup {0}}
  <2>1. CurrentOf' = [CurrentOf EXCEPT ![0] = N + 2] /\ CurrentOf[0] = 0
    BY <1>1, <1>3, <1>4, <1>5, <1>13
  <2>2. TaskOf' = [TaskOf EXCEPT ![0] = "waiting"]
    BY <1>2, <1>13, ParentTaskIs
  <2>3. Task!Await(0)
    BY <1>1, <1>13, <2>1, <2>2 DEF Task!Await, Task!Leave
  <2> QED
    BY <1>1, <2>3 DEF Task!Next, T
<1>14. CASE parent = "body" /\ parent' = "ended" /\ StartersOf' = StartersOf
  <2>1. CurrentOf' = [CurrentOf EXCEPT ![0] = N + 2] /\ CurrentOf[0] = 0
    BY <1>1, <1>3, <1>4, <1>5, <1>14
  <2>2. TaskOf' = [TaskOf EXCEPT ![0] = "done"]
    BY <1>2, <1>14, ParentTaskIs
  <2>3. Task!Finish(0)
    BY <1>1, <1>14, <2>1, <2>2 DEF Task!Finish, Task!Leave
  <2> QED
    BY <1>1, <2>3 DEF Task!Next, T
<1>15. CASE parent = "returns" /\ parent' = "ended" /\ StartersOf' = StartersOf
  <2>1. CurrentOf' = [CurrentOf EXCEPT ![N + 1] = N + 2] /\ CurrentOf[N + 1] = 0
    BY <1>1, <1>3, <1>4, <1>5, <1>15
  <2>2. TaskOf' = [TaskOf EXCEPT ![0] = "done"]
    BY <1>2, <1>15, ParentTaskIs
  <2>3. Task!Finish(N + 1)
    BY <1>1, <1>15, <2>1, <2>2 DEF Task!Finish, Task!Leave
  <2> QED
    BY <1>1, <2>3 DEF Task!Next, T
<1>16. CASE /\ parent = "suspended" /\ parent' = "queued"
            /\ StartersOf' = StartersOf \/ (0 \in StartersOf /\ StartersOf' = StartersOf \ {0})
  <2>1. CurrentOf' = CurrentOf
    BY <1>3, <1>4, <1>5, <1>16
  <2>2. TaskOf' = [TaskOf EXCEPT ![0] = "ready"] /\ TaskOf[0] = "waiting"
    BY <1>2, <1>16, ParentTaskIs
  <2>3. Task!Wake(0)
    BY <1>16, <2>1, <2>2 DEF Task!Wake
  <2> QED
    BY <1>1, <2>3 DEF Task!Next
<1> QED
  BY <1>8, <1>9, <1>10, <1>11, <1>12, <1>13, <1>14, <1>15, <1>16 DEF ParentMove

\* What a step of one handler may do to its task.
ChildMove(x, y) ==
    \/ x = y
    \/ x = "absent" /\ y = "ready" /\ (parent \in {"body", "returns"} \/ StartersOf # {})
    \/ x = "ready" /\ y = "running"
    \/ x = "running" /\ y = "done"

\* Each of these is a step of AsyncTask.
LEMMA ChildMoves ==
    ASSUME TypeOK, NEW c \in Handlers, NEW x, child' = [child EXCEPT ![c] = x],
           UNCHANGED <<parent, looping, kind, main>>, ChildMove(ChildTask(child[c]), ChildTask(x))
    PROVE  [Task!Next]_(Task!vars)
<1> USE CombinatorsAssumption
<1> DEFINE N == MaxHandlers
           T == 0 .. N + 1
           y == ChildTask(x)
<1>1. \A d \in Handlers : child'[d] = IF d = c THEN x ELSE child[d]
  BY DEF TypeOK
<1>2. c \in 0 .. N /\ c \in T /\ c # 0 /\ c # N + 1 /\ c # N + 2 /\ c \notin {0}
  BY DEF Handlers
<1>3. TaskOf' = [TaskOf EXCEPT ![c] = y] /\ TaskOf[c] = ChildTask(child[c])
  <2>1. TaskOf' = [u \in 0 .. N |-> IF u = 0 THEN ParentTask(parent') ELSE ChildTask(child'[u])]
    BY DEF TaskOf
  <2>2. \A u \in 0 .. N : TaskOf'[u] = IF u = c THEN y ELSE TaskOf[u]
    BY <1>1, <1>2, <2>1 DEF TaskOf, Handlers
  <2> QED
    BY <1>2, <2>1, <2>2 DEF TaskOf
<1>4. StartersOf' = StartersOf /\ StartersOf \subseteq {0}
  BY DEF StartersOf
<1>5. \A u \in T : u # c => CurrentOf'[u] = CurrentOf[u]
  BY <1>1, <1>2 DEF CurrentOf
<1>6. CurrentOf = [u \in T |-> CurrentOf[u]] /\ CurrentOf' = [u \in T |-> CurrentOf'[u]]
  BY DEF CurrentOf
<1>7. /\ CurrentOf[c] = IF ChildTask(child[c]) = "running" THEN c ELSE N + 2
      /\ CurrentOf'[c] = IF y = "running" THEN c ELSE N + 2
  BY <1>1, <1>2 DEF CurrentOf
<1>8. TaskOf = [u \in 0 .. N |-> TaskOf[u]]
  BY DEF TaskOf
<1>9. 0 \in 0 .. N /\ TaskOf[0] = ParentTask(parent)
  BY DEF TaskOf
<1> HIDE DEF T, y
<1>10. CASE ChildTask(child[c]) = y
  <2>1. TaskOf' = TaskOf /\ CurrentOf' = CurrentOf
    BY <1>3, <1>5, <1>6, <1>7, <1>8, <1>10
  <2> QED
    BY <1>4, <2>1 DEF Task!vars
<1>11. CASE /\ ChildTask(child[c]) = "absent" /\ y = "ready"
            /\ parent \in {"body", "returns"} \/ StartersOf # {}
  <2>1. CurrentOf' = CurrentOf
    BY <1>5, <1>6, <1>7, <1>11
  <2>2. (\E q \in 0 .. N : TaskOf[q] = "running") \/ StartersOf # {}
    BY <1>9, <1>11, ParentTaskIs
  <2>3. Task!Submit(c)
    BY <1>3, <1>4, <1>11, <2>1, <2>2 DEF Task!Submit
  <2> QED
    BY <1>2, <2>3 DEF Task!Next
<1>12. CASE ChildTask(child[c]) = "ready" /\ y = "running"
  <2>1. CurrentOf' = [CurrentOf EXCEPT ![c] = c] /\ CurrentOf[c] = N + 2
    BY <1>2, <1>5, <1>6, <1>7, <1>12
  <2>2. Task!Run(c, c)
    BY <1>2, <1>3, <1>4, <1>12, <2>1 DEF Task!Run
  <2> QED
    BY <1>2, <2>2 DEF Task!Next, T
<1>13. CASE ChildTask(child[c]) = "running" /\ y = "done"
  <2>1. CurrentOf' = [CurrentOf EXCEPT ![c] = N + 2] /\ CurrentOf[c] = c
    BY <1>2, <1>5, <1>6, <1>7, <1>13
  <2>2. Task!Finish(c)
    BY <1>2, <1>3, <1>4, <1>13, <2>1 DEF Task!Finish, Task!Leave
  <2> QED
    BY <1>2, <2>2 DEF Task!Next, T
<1> QED
  BY <1>10, <1>11, <1>12, <1>13 DEF ChildMove, y

\* RunAsyncWait, Waiter, RunAsyncAnyWait and RunAsyncAnyResult use
\* asynchronous operations as AsyncTask allows: the proceed handler of the
\* parent is called only while it waits, by whoever releases or counts, and
\* operations are started by the outside before WaitAll, by the parent while
\* it runs, or by the loop it has deferred.
THEOREM Refinement == Spec => ImplementsTask
<1>1. Init => Task!Init
  <2> SUFFICES ASSUME Init
               PROVE  Task!Init
    OBVIOUS
  <2>1. TaskOf = [t \in 0 .. MaxHandlers |-> "absent"]
    BY ParentTaskIs, ChildTaskIs, CombinatorsAssumption DEF Init, TaskOf, Handlers
  <2>2. CurrentOf = [t \in 0 .. MaxHandlers + 1 |-> MaxHandlers + 2]
    BY ChildTaskIs DEF Init, CurrentOf
  <2>3. StartersOf = {}
    BY DEF Init, StartersOf
  <2> QED
    BY <2>1, <2>2, <2>3 DEF Init, Task!Init
<1>2. CombInv /\ [Next]_vars => [Task!Next]_(Task!vars)
  <2> SUFFICES ASSUME CombInv, [Next]_vars
               PROVE  [Task!Next]_(Task!vars)
    OBVIOUS
  <2>0. TypeOK /\ Agreement
    BY DEF CombInv
  <2>1. ASSUME UNCHANGED callVars
        PROVE  TaskOf' = TaskOf /\ CurrentOf' = CurrentOf /\ StartersOf' = StartersOf
    BY <2>1 DEF callVars, TaskOf, CurrentOf, StartersOf
  <2>2. CASE (Parent \/ SetEvent) /\ main' = main
    <3>1. child' = child /\ kind' = kind
      BY <2>2 DEF Parent, Launch, Begin, DeferProceed, Resume, Return, WaitUnique, WaitDefer, WaitResume,
         LeaveWaiter, SetEvent
    <3>2. ParentMove
      <4>1. CASE Launch \/ Resume \/ Return \/ WaitUnique \/ SetEvent
        BY <4>1 DEF Launch, Resume, Return, WaitUnique, SetEvent, StartersOf, ParentMove
      <4>2. CASE Begin
        <5>1. kind # "Waiter" => ~looping
          BY <2>0, <4>2 DEF Begin, Agreement, HolderInv, RunAsyncWaitInv, AnyInv, Any, TypeOK, Kinds
        <5> QED
          BY <4>2, <5>1 DEF Begin, StartersOf, ParentMove
      <4>3. CASE DeferProceed
        <5>1. ~looping
          BY <2>0, <4>3 DEF DeferProceed, Agreement, HolderInv, RunAsyncWaitInv, AnyInv, Any, TypeOK, Kinds
        <5>2. StartersOf = {} /\ StartersOf' = IF event THEN {} ELSE {0}
          BY <2>0, <4>3, <5>1 DEF DeferProceed, StartersOf, TypeOK
        <5> QED
          BY <2>0, <4>3, <5>2 DEF DeferProceed, ParentMove, TypeOK
      <4>4. CASE WaitDefer \/ WaitResume \/ LeaveWaiter
        <5>1. StartersOf = {} /\ StartersOf' = {}
          BY <4>4 DEF WaitDefer, WaitResume, LeaveWaiter, StartersOf
        <5> QED
          BY <4>4, <5>1 DEF WaitDefer, WaitResume, LeaveWaiter, ParentMove
      <4> QED
        BY <2>2, <4>1, <4>2, <4>3, <4>4 DEF Parent
    <3> QED
      BY <2>2, <3>1, <3>2, ParentMoves
  <2>3. CASE (StartNext \/ WaiterRunAsync) /\ main' = main
    <3>1. next \in Handlers /\ child' = [child EXCEPT ![next] = "queued"] /\ UNCHANGED <<parent, looping, kind>>
      BY <2>0, <2>3, CombinatorsAssumption DEF TypeOK, Handlers, StartNext, WaiterRunAsync
    <3>2. child[next] = "absent"
      BY <2>0, <3>1, CombinatorsAssumption DEF TypeOK, Agreement, StartedInv, Handlers
    <3>3. parent = "body" \/ StartersOf # {}
      BY <2>3 DEF StartNext, WaiterRunAsync, StartersOf
    <3>4. ChildMove(ChildTask(child[next]), ChildTask("queued"))
      BY <3>2, <3>3, ChildTaskIs DEF ChildMove
    <3> QED
      BY <2>0, <2>3, <3>1, <3>4, ChildMoves
  <2>4. CASE (LoopEnds \/ WaitDeferred) /\ main' = main
    <3>1. child' = child /\ kind' = kind /\ looping /\ ~looping'
      BY <2>4 DEF LoopEnds, WaitDeferred
    <3>2. parent' = parent \/ Releases(Own)
      BY <2>0, <2>4, Released DEF LoopEnds, WaitDeferred
    <3>3. parent' = parent \/ (parent = "suspended" /\ parent' = "queued")
      BY <3>2 DEF Releases
    <3>4. StartersOf' = {} /\ StartersOf \in {{}, {0}}
      BY <3>1 DEF StartersOf
    <3>5. ParentMove
      <4>1. CASE StartersOf = {}
        BY <3>3, <3>4, <4>1 DEF ParentMove
      <4>2. CASE StartersOf = {0}
        <5>1. 0 \in StartersOf /\ StartersOf' = StartersOf \ {0}
          BY <3>4, <4>2
        <5> QED
          BY <3>3, <5>1 DEF ParentMove
      <4> QED
        BY <3>4, <4>1, <4>2
    <3> QED
      BY <2>4, <3>1, <3>5, ParentMoves
  <2>5. ASSUME NEW c \in Handlers, Child(c), main' = main
        PROVE  [Task!Next]_(Task!vars)
    <3>0. UNCHANGED <<kind, looping>> /\ StartersOf' = StartersOf
      BY <2>5 DEF Child, HandlerBegins, HandlerReturns, HandlerFails, Count, Deliver, Finish, DestroyClosure,
         StartersOf
    <3>1. CASE HandlerBegins(c) \/ HandlerReturns(c) \/ HandlerFails(c) \/ Count(c) \/ Finish(c)
      <4>1. PICK x : /\ child' = [child EXCEPT ![c] = x] /\ parent' = parent
                     /\ \/ child[c] = "queued" /\ x = "running"
                        \/ child[c] \in {"running", "counts"} /\ x \in {"counts", "won", "leaves"}
                        \/ child[c] = "leaves" /\ x = "done"
        BY <3>1 DEF HandlerBegins, HandlerReturns, HandlerFails, Count, Finish
      <4>2. ChildMove(ChildTask(child[c]), ChildTask(x))
        BY <4>1, ChildTaskIs DEF ChildMove
      <4> QED
        BY <2>0, <2>5, <3>0, <4>1, <4>2, ChildMoves
    <3>2. CASE Deliver(c)
      <4>1. \A d \in Handlers : ChildTask(child'[d]) = ChildTask(child[d])
        BY <2>0, <3>2, ChildTaskIs DEF Deliver, TypeOK
      <4>2. parent = "suspended" /\ parent' = "queued"
        <5>1. child[c] = "won" /\ parent' = "queued" /\ kind \in Any
          BY <2>0, <3>2 DEF Deliver, Proceed, Agreement, PlainInv
        <5>2. first = c /\ first # 0
          BY <2>0, <5>1, CombinatorsAssumption DEF Agreement, AnyInv, Handlers
        <5> QED
          BY <2>0, <5>1, <5>2 DEF Agreement, AnyInv
      <4> QED
        BY <2>5, <3>0, <4>1, <4>2, ParentMoves DEF ParentMove
    <3>3. CASE DestroyClosure(c)
      <4>1. \A d \in Handlers : ChildTask(child'[d]) = ChildTask(child[d])
        BY <2>0, <3>3, ChildTaskIs DEF DestroyClosure, TypeOK
      <4>2. parent' = parent \/ Releases(c)
        BY <2>0, <3>3, Released, CombinatorsAssumption DEF DestroyClosure, Handlers, Own
      <4>3. parent' = parent \/ (parent = "suspended" /\ parent' = "queued")
        BY <4>2 DEF Releases
      <4> QED
        BY <2>5, <3>0, <4>1, <4>3, ParentMoves DEF ParentMove
    <3> QED
      BY <2>5, <3>1, <3>2, <3>3 DEF Child
  <2>6. CASE WaitAllBegin
    <3>1. Task!WaitAllBegin
      BY <2>1, <2>6 DEF WaitAllBegin, Task!WaitAllBegin
    <3> QED
      BY <3>1 DEF Task!Next
  <2>7. CASE WaitAllReturn
    <3>1. \A t \in 0 .. MaxHandlers : TaskOf[t] \in {"absent", "done"}
      BY <2>7, ParentTaskIs, ChildTaskIs, CombinatorsAssumption DEF WaitAllReturn, TaskOf, Handlers
    <3>2. Task!WaitAllReturn
      BY <2>1, <2>7, <3>1 DEF WaitAllReturn, Task!WaitAllReturn
    <3> QED
      BY <3>2 DEF Task!Next
  <2>8. CASE UNCHANGED vars
    BY <2>1, <2>8 DEF vars, Task!vars
  <2> QED
    BY <2>2, <2>3, <2>4, <2>5, <2>6, <2>7, <2>8 DEF Next, Step, Deferred
<1> QED
  BY <1>1, <1>2, Invariance, PTL DEF Spec, ImplementsTask, Task!Spec

=============================================================================
