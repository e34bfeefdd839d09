------------------------------ MODULE AsyncTask ------------------------------
(***************************************************************************)
(* What the flatasync library promises of RunAsync, whatever schedulers,   *)
(* coroutines and runners are behind it: an operation is submitted once,   *)
(* runs on one thread at a time, may give its thread up to wait, goes on   *)
(* only after it was woken, and ends once; WaitAll comes back only when    *)
(* every submitted operation has ended.  What an operation that waits has  *)
(* deferred may still submit others, also after that.                      *)
(*                                                                         *)
(* AsyncRunner and Combinators implement this specification.               *)
(***************************************************************************)

CONSTANTS
    Tasks,      \* asynchronous operations
    Threads,    \* threads that execute them
    Null        \* no operation

VARIABLES
    task,       \* [Tasks -> TaskStates]
    current,    \* [Threads -> Tasks \cup {Null}], the operation a thread is inside of
    starters,   \* threads that execute what an operation deferred when it left them
    waitAll     \* "no", "blocked" or "returned": the thread that called WaitAll

vars == <<task, current, starters, waitAll>>

TaskStates == {"absent", "ready", "running", "waiting", "done"}

Init ==
    /\ task = [r \in Tasks |-> "absent"]
    /\ current = [t \in Threads |-> Null]
    /\ starters = {}
    /\ waitAll = "no"

-----------------------------------------------------------------------------

\* RunAsync: from the outside before WaitAll, from an operation that runs, or
\* from the deferred handler of one that waits, which may have been woken and
\* have ended meanwhile.
Submit(r) ==
    /\ task[r] = "absent"
    /\ waitAll = "no" \/ (\E q \in Tasks : task[q] = "running") \/ starters # {}
    /\ task' = [task EXCEPT ![r] = "ready"]
    /\ UNCHANGED <<current, starters, waitAll>>

\* A free thread takes a ready operation.
Run(t, r) ==
    /\ current[t] = Null
    /\ t \notin starters
    /\ task[r] = "ready"
    /\ task' = [task EXCEPT ![r] = "running"]
    /\ current' = [current EXCEPT ![t] = r]
    /\ UNCHANGED <<starters, waitAll>>

\* The operation thread t executes moves to `next` and gives the thread up.
Leave(t, next) ==
    /\ current[t] # Null
    /\ task' = [task EXCEPT ![current[t]] = next]
    /\ current' = [current EXCEPT ![t] = Null]
    /\ UNCHANGED waitAll

\* It waits, and the thread may go on with what it deferred.
Await(t) ==
    /\ Leave(t, "waiting")
    /\ starters' \in {starters, starters \cup {t}}

Finish(t) == Leave(t, "done") /\ UNCHANGED starters

\* The deferred handler ends.
Started(t) ==
    /\ t \in starters
    /\ starters' = starters \ {t}
    /\ UNCHANGED <<task, current, waitAll>>

\* Whatever the operation waits for has happened, possibly with the end of a
\* deferred handler.
Wake(r) ==
    /\ task[r] = "waiting"
    /\ task' = [task EXCEPT ![r] = "ready"]
    /\ starters' \in {starters} \cup {starters \ {t} : t \in starters}
    /\ UNCHANGED <<current, waitAll>>

WaitAllBegin ==
    /\ waitAll = "no"
    /\ waitAll' = "blocked"
    /\ UNCHANGED <<task, current, starters>>

WaitAllReturn ==
    /\ waitAll = "blocked"
    /\ \A r \in Tasks : task[r] \in {"absent", "done"}
    /\ waitAll' = "returned"
    /\ UNCHANGED <<task, current, starters>>

Next ==
    \/ \E r \in Tasks : Submit(r) \/ Wake(r)
    \/ \E t \in Threads :
          \/ \E r \in Tasks : Run(t, r)
          \/ Await(t)
          \/ Finish(t)
          \/ Started(t)
    \/ WaitAllBegin
    \/ WaitAllReturn

Spec == Init /\ [][Next]_vars

=============================================================================
