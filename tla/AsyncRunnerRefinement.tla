------------------------ MODULE AsyncRunnerRefinement ------------------------
(***************************************************************************)
(* Proofs that the runners implement AsyncTask and use CoroHelper as that  *)
(* class requires, for every set of runners, threads and schedulers.       *)
(***************************************************************************)
EXTENDS AsyncRunnerProofs, SequenceTheorems

-----------------------------------------------------------------------------
(* What the refinement needs beyond IInv: where a coroutine is when. *)

InBody(t) == pc[t] \in {"body", "unwind"}

\* The handlers that are posted.
Posted == {e \in Entry : \E s \in Schedulers : \E i \in DOMAIN queue[s] : queue[s][i] = e}

\* Start is posted for a coroutine that does not exist yet, and a continuation
\* only after the coroutine was suspended.
PostedInv ==
    /\ \A e \in Posted : coro[e.runner] = IF e.op = "Start" THEN "empty" ELSE "suspended"
    /\ \A r \in waiting : coro[r] = "suspended"
    /\ \A t \in Threads : pc[t] \in {"call", "loop"} => coro[cur[t]] = "suspended"
    /\ \A t \in Threads : pc[t] = "exit" => coro[cur[t]] \in {"suspended", "finished"}

\* A coroutine runs only on a thread, a deferred handler is set only until
\* OnExit, and what the coroutine is goes with the runner's life.
CoroInv ==
    \A r \in Runners :
        /\ life[r] = "none" => coro[r] = "empty"
        /\ life[r] = "dying" => coro[r] \in {"suspended", "finished"}
        /\ life[r] = "deleted" <=> coro[r] = "destroyed"
        /\ coro[r] = "running" => \E t \in Threads : InBody(t) /\ cur[t] = r
        /\ defer[r] # "none" =>
              coro[r] = "suspended" /\ \E t \in Threads : pc[t] = "exit" /\ cur[t] = r

RInv == PostedInv /\ CoroInv

-----------------------------------------------------------------------------
(* The posted handlers. *)

\* A runner is queued when a handler of it is posted.
LEMMA QueuedIsPosted ==
    ASSUME TypeOK, NEW r \in Runners
    PROVE  Queued(r) <=> \E e \in Posted : e.runner = r
<1>1. \A s \in Schedulers : \A i \in DOMAIN queue[s] : queue[s][i] \in Entry
  BY DEF TypeOK
<1> QED
  BY <1>1 DEF Queued, QueuedAt, Posted

\* The same after a step.
LEMMA QueuedIsPostedNext ==
    ASSUME TypeOK', NEW r \in Runners
    PROVE  Queued(r)' <=> \E e \in Posted' : e.runner = r
<1>1. \A s \in Schedulers : \A i \in DOMAIN queue'[s] : queue'[s][i] \in Entry
  BY DEF TypeOK
<1> QED
  BY <1>1 DEF Queued, QueuedAt, Posted

\* Posting adds one handler.
LEMMA PostedAppend ==
    ASSUME TypeOK, NEW s \in Schedulers, NEW e \in Entry,
           queue' = [queue EXCEPT ![s] = Append(queue[s], e)]
    PROVE  Posted' = Posted \cup {e}
<1>1. queue[s] \in Seq(Entry) /\ queue'[s] = Append(queue[s], e)
  BY DEF TypeOK
<1>2. \A q \in Schedulers \ {s} : queue'[q] = queue[q]
  BY DEF TypeOK
<1>3. \A x \in Entry : (\E i \in DOMAIN queue'[s] : queue'[s][i] = x)
                         <=> (\E i \in DOMAIN queue[s] : queue[s][i] = x) \/ x = e
  <2>1. \A i \in DOMAIN queue[s] : i \in DOMAIN queue'[s] /\ queue'[s][i] = queue[s][i]
    BY <1>1
  <2>2. Len(queue[s]) + 1 \in DOMAIN queue'[s] /\ queue'[s][Len(queue[s]) + 1] = e
    BY <1>1
  <2>3. \A i \in DOMAIN queue'[s] : i \in DOMAIN queue[s] \/ i = Len(queue[s]) + 1
    BY <1>1
  <2> QED
    BY <2>1, <2>2, <2>3
<1> QED
  BY <1>2, <1>3 DEF Posted

\* Taking a handler removes the first of its queue.
LEMMA PostedTail ==
    ASSUME TypeOK, NEW s \in Schedulers, queue[s] # <<>>,
           queue' = [queue EXCEPT ![s] = Tail(queue[s])]
    PROVE  Head(queue[s]) \in Posted /\ Posted = Posted' \cup {Head(queue[s])}
<1>1. queue[s] \in Seq(Entry) /\ queue'[s] = Tail(queue[s]) /\ Head(queue[s]) \in Entry
  BY DEF TypeOK
<1>2. \A q \in Schedulers \ {s} : queue'[q] = queue[q]
  BY DEF TypeOK
<1>3. 1 \in DOMAIN queue[s] /\ queue[s][1] = Head(queue[s])
  BY <1>1
<1>4. Len(queue[s]) \in Nat /\ Len(queue[s]) > 0 /\ Len(queue'[s]) = Len(queue[s]) - 1
  <2>1. Len(queue[s]) \in Nat /\ Len(queue[s]) # 0
    BY <1>1
  <2>2. Len(queue'[s]) = Len(queue[s]) - 1
    BY <1>1, HeadTailProperties
  <2> QED
    BY <2>1, <2>2
<1>5. DOMAIN queue[s] = 1 .. Len(queue[s]) /\ DOMAIN queue'[s] = 1 .. Len(queue[s]) - 1
  BY <1>1, <1>4
<1>8. \A i \in 1 .. Len(queue[s]) - 1 : queue'[s][i] = queue[s][i + 1]
  BY <1>1, <1>4
<1>9. \A i \in DOMAIN queue'[s] : i + 1 \in DOMAIN queue[s] /\ queue'[s][i] = queue[s][i + 1]
  BY <1>4, <1>5, <1>8
<1>10. \A i \in DOMAIN queue[s] : i # 1 => i - 1 \in DOMAIN queue'[s] /\ queue'[s][i - 1] = queue[s][i]
  BY <1>4, <1>5, <1>8
<1>6. \A x \in Entry : (\E i \in DOMAIN queue[s] : queue[s][i] = x)
                         <=> (\E i \in DOMAIN queue'[s] : queue'[s][i] = x) \/ x = Head(queue[s])
  BY <1>3, <1>9, <1>10
<1>7. Head(queue[s]) \in Posted
  BY <1>1, <1>3 DEF Posted
<1> QED
  BY <1>1, <1>2, <1>6, <1>7 DEF Posted

\* Nobody is inside a runner that is queued or waits, and whoever waits or is
\* queued is alive.
LEMMA Exclusive ==
    ASSUME IInv
    PROVE  /\ \A e \in Posted : /\ e.runner \in Runners /\ life[e.runner] = "alive"
                                /\ e.runner \notin waiting
                                /\ \A t \in Threads : ~Holds(t, e.runner)
           /\ \A r \in waiting : /\ r \in Runners /\ life[r] = "alive"
                                 /\ \A t \in Threads : ~Holds(t, r)
           /\ \A t, u \in Threads, r \in Runners : Holds(t, r) /\ Holds(u, r) => t = u
           /\ \A t \in Threads, r \in Runners : Holds(t, r) => life[r] = "alive"
<1>1. TypeOK /\ OneContinuation
  BY OwnIsOneContinuation DEF IInv
<1>2. \A e \in Posted : e.runner \in Runners
  BY DEF Posted, Entry
<1>3. \A e \in Posted : Queued(e.runner)
  BY <1>1, <1>2, QueuedIsPosted
<1>4. waiting \subseteq Runners
  BY <1>1 DEF TypeOK
<1> QED
  BY <1>1, <1>2, <1>3, <1>4 DEF OneContinuation, OwnedIsAlive, OneOwner

-----------------------------------------------------------------------------
(* RInv is an invariant. *)

\* A step that moves no coroutine, no runner and no handler.
LEMMA RKeep ==
    ASSUME RInv, UNCHANGED <<queue, waiting, life, coro, defer, cur>>,
           \A u \in Threads : /\ InBody(u)' <=> InBody(u)
                              /\ pc'[u] = "exit" <=> pc[u] = "exit"
                              /\ pc'[u] \in {"call", "loop"} <=> pc[u] \in {"call", "loop"}
    PROVE  RInv'
<1>1. Posted' = Posted
  BY DEF Posted
<1>2. PostedInv'
  BY <1>1 DEF RInv, PostedInv
<1>3. CoroInv'
  BY DEF RInv, CoroInv
<1> QED
  BY <1>2, <1>3 DEF RInv

\* A new runner.
LEMMA RCreate ==
    ASSUME IInv, RInv, NEW r \in Runners, NEW s \in Schedulers, Create(r, s),
           UNCHANGED <<waiting, cur>>,
           \A u \in Threads : /\ InBody(u)' <=> InBody(u)
                              /\ pc'[u] = "exit" <=> pc[u] = "exit"
                              /\ pc'[u] \in {"call", "loop"} <=> pc[u] \in {"call", "loop"}
    PROVE  RInv'
<1>1. TypeOK /\ life[r] = "none" /\ coro[r] = "empty"
  BY DEF IInv, RInv, CoroInv, Create
<1> DEFINE e == [op |-> "Start", runner |-> r]
<1>2. e \in Entry /\ e.op = "Start" /\ e.runner = r
  BY DEF Entry
<1>3. Posted' = Posted \cup {e}
  <2>1. queue' = [queue EXCEPT ![s] = Append(queue[s], e)]
    BY DEF Create
  <2> HIDE DEF e
  <2> QED
    BY <1>1, <1>2, <2>1, PostedAppend
<1> HIDE DEF e
<1>4. PostedInv'
  BY <1>1, <1>2, <1>3 DEF RInv, PostedInv, Create
<1>5. CoroInv'
  BY <1>1 DEF RInv, CoroInv, Create, TypeOK, InBody
<1> QED
  BY <1>4, <1>5 DEF RInv

\* A thread takes a handler: the coroutine it enters is new or suspended.
LEMMA Entered ==
    ASSUME IInv, IInv', RInv, NEW t \in Threads, NEW s \in Schedulers, Dispatch(t, s)
    PROVE  \E r \in Runners :
              /\ pc[t] = "idle" /\ cur' = [cur EXCEPT ![t] = r]
              /\ life[r] = "alive" /\ coro[r] \in {"empty", "suspended"}
              /\ coro' = [coro EXCEPT ![r] = "running"]
              /\ tlsCoro' = [tlsCoro EXCEPT ![t] = r]
              /\ \/ coro[r] = "empty" /\ frame' = [frame EXCEPT ![t] = NoFrame]
                 \/ /\ coro[r] = "suspended"
                    /\ frame' = [frame EXCEPT ![t] = [resumed |-> TRUE, old |-> tlsCoro[t]]]
              /\ pc' = [pc EXCEPT ![t] = pc'[t]] /\ pc'[t] \in {"body", "unwind"}
              /\ Queued(r)
              /\ r \notin waiting /\ \A u \in Threads : ~Holds(u, r)
              /\ \A e \in Posted' : e \in Posted /\ e.runner # r
              /\ \A e \in Posted : e \in Posted' \/ e.runner = r
<1>0. TypeOK /\ TypeOK'
  BY DEF IInv
<1>1. queue[s] # <<>> /\ queue' = [queue EXCEPT ![s] = Tail(queue[s])]
  BY DEF Dispatch, Ready
<1>2. PICK e \in Posted : e = Head(queue[s]) /\ Posted = Posted' \cup {e}
  BY <1>0, <1>1, PostedTail
<1>3. PICK r \in Runners : r = e.runner
  BY DEF Posted, Entry
<1>4. /\ cur' = [cur EXCEPT ![t] = r] /\ pc[t] = "idle"
      /\ IF e.op = "Start" THEN EnterStart(t, r) ELSE EnterResume(t, r)
  BY <1>2, <1>3 DEF Dispatch, Ready
<1>5. coro[r] = IF e.op = "Start" THEN "empty" ELSE "suspended"
  BY <1>3 DEF RInv, PostedInv
<1>6. /\ life[r] = "alive" /\ r \notin waiting /\ \A u \in Threads : ~Holds(u, r)
  BY <1>3, Exclusive
<1>7. Queued(r)
  BY <1>0, <1>3, QueuedIsPosted
<1>8. pc' = [pc EXCEPT ![t] = pc'[t]] /\ pc'[t] \in {"body", "unwind"}
  BY <1>0, <1>4, <1>5 DEF EnterStart, EnterResume, TypeOK
<1>9. cur'[t] = r /\ Holds(t, r)'
  BY <1>0, <1>4, <1>8 DEF TypeOK, Holds
<1>10. ~Queued(r)'
  <2>1. TypeOK' /\ Own'
    BY DEF IInv
  <2>2. \A q \in Schedulers, i \in Nat : ~QueuedAt(q, i, r)'
    BY <1>9, <2>1 DEF Own, QueuedOnly
  <2>3. \A q \in Schedulers : DOMAIN queue'[q] \subseteq Nat
    BY <2>1 DEF TypeOK
  <2> QED
    BY <2>2, <2>3 DEF Queued
<1>11. \A x \in Posted' : x.runner # r
  BY <1>0, <1>10, QueuedIsPostedNext
<1> QED
  BY <1>2, <1>3, <1>4, <1>5, <1>6, <1>7, <1>8, <1>11 DEF EnterStart, EnterResume

\* A thread that takes a handler keeps the coroutines where RInv says.
LEMMA RDispatch ==
    ASSUME IInv, IInv', RInv, NEW t \in Threads, NEW s \in Schedulers, Dispatch(t, s)
    PROVE  RInv'
<1>0. TypeOK /\ UNCHANGED <<life, defer, waiting>>
  BY DEF IInv, Dispatch
<1>1. PICK r \in Runners :
              /\ pc[t] = "idle" /\ cur' = [cur EXCEPT ![t] = r]
              /\ life[r] = "alive" /\ coro[r] \in {"empty", "suspended"}
              /\ coro' = [coro EXCEPT ![r] = "running"]
              /\ pc' = [pc EXCEPT ![t] = pc'[t]] /\ pc'[t] \in {"body", "unwind"}
              /\ r \notin waiting /\ \A u \in Threads : ~Holds(u, r)
              /\ \A e \in Posted' : e \in Posted /\ e.runner # r
  BY Entered
<1>2. \A q \in Runners \ {r} : coro'[q] = coro[q]
  BY <1>0, <1>1 DEF TypeOK
<1>3. \A u \in Threads \ {t} : pc'[u] = pc[u] /\ cur'[u] = cur[u]
  BY <1>0, <1>1 DEF TypeOK
<1>4. coro'[r] = "running" /\ cur'[t] = r
  BY <1>0, <1>1 DEF TypeOK
<1>5. PostedInv'
  <2>1. \A e \in Posted' : e.runner \in Runners \ {r}
    BY <1>1 DEF Posted, Entry
  <2>2. \A q \in waiting' : q \in Runners \ {r}
    BY <1>0, <1>1 DEF TypeOK
  <2>3. \A u \in Threads : pc'[u] \in {"call", "loop", "exit"} => u # t /\ cur[u] \in Runners \ {r}
    BY <1>1, <1>3, Inside DEF Holds
  <2> QED
    BY <1>0, <1>1, <1>2, <1>3, <2>1, <2>2, <2>3 DEF RInv, PostedInv
<1>6. CoroInv'
  <2> SUFFICES ASSUME NEW q \in Runners
               PROVE  /\ life'[q] = "none" => coro'[q] = "empty"
                      /\ life'[q] = "dying" => coro'[q] \in {"suspended", "finished"}
                      /\ life'[q] = "deleted" <=> coro'[q] = "destroyed"
                      /\ coro'[q] = "running" => \E u \in Threads : InBody(u)' /\ cur'[u] = q
                      /\ defer'[q] # "none" =>
                            coro'[q] = "suspended" /\ \E u \in Threads : pc'[u] = "exit" /\ cur'[u] = q
    BY DEF CoroInv, InBody
  <2>1. CASE q = r
    <3>1. defer[r] = "none"
      BY <1>1 DEF RInv, CoroInv, Holds
    <3> QED
      BY <1>0, <1>1, <1>4, <2>1, <3>1 DEF InBody
  <2>2. CASE q # r
    <3>1. \A u \in Threads : InBody(u) \/ pc[u] = "exit" => u # t
      BY <1>1 DEF InBody
    <3> QED
      BY <1>0, <1>2, <1>3, <2>2, <3>1 DEF RInv, CoroInv, InBody
  <2> QED
    BY <2>1, <2>2
<1> QED
  BY <1>5, <1>6 DEF RInv

\* A coroutine leaves its thread: it yields, with a deferred handler or
\* without, or it ends.
LEMMA RLeave ==
    ASSUME IInv, RInv, NEW t \in Threads, InBody(t), NEW x \in {"suspended", "finished"},
           coro' = [coro EXCEPT ![cur[t]] = x], pc' = [pc EXCEPT ![t] = "exit"],
           UNCHANGED <<queue, waiting, life, cur>>,
           \/ defer' = defer
           \/ x = "suspended" /\ \E h \in {"proceed", "io"} : defer' = [defer EXCEPT ![cur[t]] = h]
    PROVE  RInv'
<1>0. TypeOK
  BY DEF IInv
<1>1. PICK r \in Runners : r = cur[t] /\ coro[r] = "running" /\ life[r] = "alive" /\ Holds(t, r)
  BY Inside DEF InBody, Holds
<1>2. coro'[r] = x /\ \A q \in Runners \ {r} : coro'[q] = coro[q]
  BY <1>0, <1>1 DEF TypeOK
<1>3. pc'[t] = "exit" /\ \A u \in Threads \ {t} : pc'[u] = pc[u]
  BY <1>0 DEF TypeOK
<1>4. \A q \in Runners \ {r} : defer'[q] = defer[q]
  BY <1>0, <1>1 DEF TypeOK
<1>5. Posted' = Posted
  BY DEF Posted
<1>6. PostedInv'
  <2>1. \A e \in Posted : e.runner \in Runners \ {r}
    BY <1>1, Exclusive
  <2>2. \A q \in waiting : q \in Runners \ {r}
    BY <1>1, Exclusive
  <2>3. \A u \in Threads \ {t} : pc[u] \in {"call", "loop", "exit"} => cur[u] \in Runners \ {r}
    BY <1>1, Inside, Exclusive DEF Holds
  <2>4. \A e \in Posted' : coro'[e.runner] = IF e.op = "Start" THEN "empty" ELSE "suspended"
    BY <1>2, <1>5, <2>1 DEF RInv, PostedInv
  <2>5. \A q \in waiting' : coro'[q] = "suspended"
    BY <1>2, <2>2 DEF RInv, PostedInv
  <2>6. \A u \in Threads : /\ pc'[u] \in {"call", "loop"} => coro'[cur'[u]] = "suspended"
                           /\ pc'[u] = "exit" => coro'[cur'[u]] \in {"suspended", "finished"}
    BY <1>1, <1>2, <1>3, <2>3 DEF RInv, PostedInv
  <2> QED
    BY <2>4, <2>5, <2>6 DEF PostedInv
<1>7. CoroInv'
  <2> SUFFICES ASSUME NEW q \in Runners
               PROVE  /\ life'[q] = "none" => coro'[q] = "empty"
                      /\ life'[q] = "dying" => coro'[q] \in {"suspended", "finished"}
                      /\ life'[q] = "deleted" <=> coro'[q] = "destroyed"
                      /\ coro'[q] = "running" => \E u \in Threads : InBody(u)' /\ cur'[u] = q
                      /\ defer'[q] # "none" =>
                            coro'[q] = "suspended" /\ \E u \in Threads : pc'[u] = "exit" /\ cur'[u] = q
    BY DEF CoroInv, InBody
  <2>1. CASE q = r
    <3>1. defer[r] = "none"
      BY <1>1 DEF RInv, CoroInv
    <3>2. defer'[r] # "none" => x = "suspended"
      BY <3>1
    <3> QED
      BY <1>1, <1>2, <1>3, <2>1, <3>2
  <2>2. CASE q # r
    BY <1>1, <1>2, <1>3, <1>4, <2>2 DEF RInv, CoroInv, InBody
  <2> QED
    BY <2>1, <2>2
<1> QED
  BY <1>6, <1>7 DEF RInv

\* What the body of an operation does to its coroutine and deferred handler.
LEMMA Leaves ==
    ASSUME IInv, NEW t \in Threads, (Body(t) /\ ~RunAsync(t)) \/ Finish(t)
    PROVE  /\ InBody(t) /\ UNCHANGED <<queue, waiting, life, cur, main>>
           /\ \/ UNCHANGED <<coro, defer, tlsCoro, frame>> /\ pc' = [pc EXCEPT ![t] = pc'[t]] /\ InBody(t)'
              \/ /\ pc' = [pc EXCEPT ![t] = "exit"] /\ frame' = [frame EXCEPT ![t] = NoFrame]
                 /\ coro' = [coro EXCEPT ![cur[t]] = "suspended"]
                 /\ tlsCoro' = [tlsCoro EXCEPT ![t] = IF frame[t].resumed THEN frame[t].old ELSE @]
                 /\ defer' = defer \/ \E h \in {"proceed", "io"} : defer' = [defer EXCEPT ![cur[t]] = h]
              \/ /\ pc' = [pc EXCEPT ![t] = "exit"] /\ frame' = [frame EXCEPT ![t] = NoFrame]
                 /\ coro' = [coro EXCEPT ![cur[t]] = "finished"]
                 /\ tlsCoro' = [tlsCoro EXCEPT ![t] = IF frame[t].resumed THEN frame[t].old ELSE Null]
                 /\ defer' = defer
<1>1. TypeOK /\ UNCHANGED <<queue, waiting, life, cur, main>> /\ InBody(t)
  BY BodyFrame DEF IInv, InBody
<1>2. tlsRunner[t] = cur[t] /\ tlsCoro[t] = cur[t]
  BY <1>1, Inside DEF InBody
<1>3. ASSUME pc' = pc
      PROVE  pc' = [pc EXCEPT ![t] = pc'[t]] /\ InBody(t)'
  BY <1>1, <1>3 DEF TypeOK, InBody
<1>4. ASSUME NEW y \in {"body", "unwind"}, pc' = [pc EXCEPT ![t] = y]
      PROVE  pc' = [pc EXCEPT ![t] = pc'[t]] /\ InBody(t)'
  BY <1>1, <1>4 DEF TypeOK, InBody
<1>5. ASSUME NEW dst \in Schedulers, SwitchTo(t, dst), dst = scheduler[tlsRunner[t]]
      PROVE  UNCHANGED <<coro, defer, tlsCoro, frame>> /\ pc' = [pc EXCEPT ![t] = pc'[t]] /\ InBody(t)'
  BY <1>3, <1>5 DEF SwitchTo
<1>6. ASSUME NEW h \in {"proceed", "io"}, Defer(t, tlsRunner[t], h), EventPending(tlsRunner[t])
      PROVE  UNCHANGED <<coro, defer, tlsCoro, frame>> /\ pc' = [pc EXCEPT ![t] = pc'[t]] /\ InBody(t)'
  BY <1>4, <1>6 DEF Defer
<1>7. ASSUME NEW h \in {"proceed", "io"}, Defer(t, tlsRunner[t], h), ~EventPending(tlsRunner[t])
      PROVE  /\ pc' = [pc EXCEPT ![t] = "exit"] /\ frame' = [frame EXCEPT ![t] = NoFrame]
             /\ coro' = [coro EXCEPT ![cur[t]] = "suspended"]
             /\ tlsCoro' = [tlsCoro EXCEPT ![t] = IF frame[t].resumed THEN frame[t].old ELSE @]
             /\ defer' = [defer EXCEPT ![cur[t]] = h]
  BY <1>2, <1>7 DEF Defer, YieldCoro
<1>8. CASE Yield(t)
  BY <1>1, <1>2, <1>8 DEF Yield, YieldCoro
<1>9. CASE HandleEvents(t) \/ DisableEvents(t) \/ EnableEvents(t) \/ Catch(t)
  <2>1. UNCHANGED <<coro, defer, tlsCoro, frame>>
    BY <1>9 DEF HandleEvents, DisableEvents, EnableEvents, Catch, runnerVars
  <2>2. pc' = pc \/ \E y \in {"body", "unwind"} : pc' = [pc EXCEPT ![t] = y]
    BY <1>9 DEF HandleEvents, DisableEvents, EnableEvents, Catch
  <2> QED
    BY <1>1, <1>3, <1>4, <2>1, <2>2
<1>10. CASE Finish(t)
  BY <1>1, <1>10 DEF Finish
<1>11. CASE DeferProceed(t)
  <2>1. Defer(t, tlsRunner[t], "io")
    BY <1>11 DEF DeferProceed
  <2> QED
    BY <1>1, <1>6, <1>7, <2>1
<1>12. ASSUME NEW dst \in Schedulers, SwitchTo(t, dst), dst # scheduler[tlsRunner[t]]
       PROVE  Defer(t, tlsRunner[t], "proceed")
  BY <1>12 DEF SwitchTo
<1> QED
  BY <1>1, <1>5, <1>6, <1>7, <1>8, <1>9, <1>10, <1>11, <1>12 DEF Body

\* A handler is posted for a runner whose coroutine is suspended.
LEMMA PostedSchedule ==
    ASSUME IInv, NEW r \in Alive, Schedule("Proceed", r)
    PROVE  \E e \in Entry : e.op = "Proceed" /\ e.runner = r /\ Posted' = Posted \cup {e}
<1>0. TypeOK /\ r \in Runners
  BY DEF IInv, Alive
<1>1. PICK s \in Schedulers : s = scheduler[r]
  BY DEF IInv, HomeInv
<1>2. PICK e \in Entry : e = [op |-> "Proceed", runner |-> r]
  BY <1>0 DEF Entry
<1>3. queue' = [queue EXCEPT ![s] = Append(queue[s], e)]
  BY <1>1, <1>2 DEF Schedule
<1> QED
  BY <1>0, <1>2, <1>3, PostedAppend

\* OnExit, up to the point where the thread lets go of the runner.
LEMMA ROnExit ==
    ASSUME IInv, RInv, NEW t \in Threads, OnExit(t)
    PROVE  RInv'
<1>0. TypeOK /\ PostedInv /\ CoroInv
  BY DEF IInv, RInv
<1>1. PICK r \in Runners : r = cur[t]
  BY Inside DEF OnExit, OnExitTake, OnExitRunAsync, OnExitCall, OnExitReturn, OnExitDelete,
     DestroyMembers, OnExitClear
<1>2. \A u \in Threads \ {t} : pc[u] \in {"exit", "call", "loop"} => cur[u] \in Runners /\ Holds(u, cur[u])
  BY Inside DEF Holds
<1>3. CASE OnExitTake(t)
  <2>1. Posted' = Posted
    BY <1>3 DEF OnExitTake, Posted
  <2>2. coro[r] = "suspended"
    BY <1>0, <1>1, <1>3 DEF OnExitTake, CoroInv
  <2>3. PostedInv'
    BY <1>0, <1>1, <1>3, <2>1, <2>2 DEF OnExitTake, PostedInv, TypeOK
  <2>4. CoroInv'
    BY <1>0, <1>1, <1>3 DEF OnExitTake, CoroInv, InBody, TypeOK
  <2> QED
    BY <2>3, <2>4 DEF RInv
<1>4. CASE OnExitCall(t)
  <2>1. coro[r] = "suspended" /\ r \in Alive
    BY <1>0, <1>1, <1>4, Inside DEF OnExitCall, PostedInv, Alive
  <2>2. UNCHANGED <<life, coro, defer, cur>> /\ pc[t] \in {"call", "loop"}
    BY <1>4 DEF OnExitCall, runnerVars
  <2>3. pc'[t] \in {"given", "clear"} /\ \A u \in Threads \ {t} : pc'[u] = pc[u]
    BY <1>0, <1>4 DEF OnExitCall, TypeOK
  <2>4. CoroInv'
    <3>1. \A u \in Threads : (InBody(u)' <=> InBody(u)) /\ (pc'[u] = "exit" <=> pc[u] = "exit")
      BY <2>2, <2>3 DEF InBody
    <3> QED
      BY <1>0, <2>2, <3>1 DEF CoroInv
  <2>5. /\ \A e \in Posted' : coro[e.runner] = IF e.op = "Start" THEN "empty" ELSE "suspended"
        /\ \A q \in waiting' : coro[q] = "suspended"
    <3>1. CASE handler[t] = "proceed"
      <4>1. Schedule("Proceed", r) /\ waiting' = waiting
        BY <1>1, <1>4, <3>1 DEF OnExitCall
      <4>2. PICK e \in Entry : e.op = "Proceed" /\ e.runner = r /\ Posted' = Posted \cup {e}
        BY <2>1, <4>1, PostedSchedule
      <4> QED
        BY <1>0, <2>1, <4>1, <4>2 DEF PostedInv
    <3>2. CASE handler[t] # "proceed"
      <4>1. queue' = queue /\ waiting' = waiting \cup {r}
        BY <1>1, <1>4, <3>2 DEF OnExitCall
      <4>2. Posted' = Posted
        BY <4>1 DEF Posted
      <4> QED
        BY <1>0, <2>1, <4>1, <4>2 DEF PostedInv
    <3> QED
      BY <3>1, <3>2
  <2>6. PostedInv'
    BY <1>0, <2>2, <2>3, <2>5 DEF PostedInv, TypeOK
  <2> QED
    BY <2>4, <2>6 DEF RInv
<1>5. CASE OnExitDelete(t)
  <2>1. UNCHANGED <<queue, waiting, coro, defer, cur>> /\ pc' = [pc EXCEPT ![t] = "destroy"] /\ pc[t] = "exit"
    BY <1>5 DEF OnExitDelete
  <2>2. coro[r] \in {"suspended", "finished"} /\ defer[r] = "none" /\ life' = [life EXCEPT ![r] = "dying"]
    BY <1>0, <1>1, <1>5 DEF OnExitDelete, PostedInv
  <2>3. Posted' = Posted
    BY <2>1 DEF Posted
  <2>4. pc'[t] = "destroy" /\ \A u \in Threads \ {t} : pc'[u] = pc[u]
    BY <1>0, <2>1 DEF TypeOK
  <2>5. PostedInv'
    BY <1>0, <2>1, <2>3, <2>4 DEF PostedInv
  <2>6. CoroInv'
    BY <1>0, <1>1, <2>1, <2>2, <2>4 DEF CoroInv, InBody, TypeOK
  <2> QED
    BY <2>5, <2>6 DEF RInv
<1>6. CASE DestroyMembers(t)
  <2>1. UNCHANGED <<queue, waiting, defer, cur>> /\ pc' = [pc EXCEPT ![t] = "clear"] /\ pc[t] = "destroy"
    BY <1>6 DEF DestroyMembers
  <2>2. /\ coro' = [coro EXCEPT ![r] = "destroyed"] /\ life' = [life EXCEPT ![r] = "deleted"]
        /\ life[r] = "dying"
    BY <1>1, <1>6 DEF DestroyMembers, IInv, ThreadInv
  <2>3. Posted' = Posted
    BY <2>1 DEF Posted
  <2>4. pc'[t] = "clear" /\ \A u \in Threads \ {t} : pc'[u] = pc[u]
    BY <1>0, <2>1 DEF TypeOK
  <2>5. /\ coro'[r] = "destroyed" /\ \A q \in Runners \ {r} : coro'[q] = coro[q]
        /\ life'[r] = "deleted" /\ \A q \in Runners \ {r} : life'[q] = life[q]
    BY <1>0, <2>2 DEF TypeOK
  <2>6. PostedInv'
    <3>1. \A e \in Posted : e.runner \in Runners \ {r}
      BY <2>2, Exclusive
    <3>2. \A q \in waiting : q \in Runners \ {r}
      BY <2>2, Exclusive
    <3>3. \A u \in Threads \ {t} : pc[u] \in {"exit", "call", "loop"} => cur[u] \in Runners \ {r}
      BY <1>2, <2>2, Exclusive
    <3>4. /\ \A e \in Posted' : coro'[e.runner] = IF e.op = "Start" THEN "empty" ELSE "suspended"
          /\ \A q \in waiting' : coro'[q] = "suspended"
      BY <1>0, <2>1, <2>3, <2>5, <3>1, <3>2 DEF PostedInv
    <3>5. \A u \in Threads : /\ pc'[u] \in {"call", "loop"} => coro'[cur'[u]] = "suspended"
                             /\ pc'[u] = "exit" => coro'[cur'[u]] \in {"suspended", "finished"}
      BY <1>0, <2>1, <2>4, <2>5, <3>3 DEF PostedInv
    <3> QED
      BY <3>4, <3>5 DEF PostedInv
  <2>7. CoroInv'
    <3>1. defer[r] = "none"
      <4>1. \A u \in Threads : ~(pc[u] = "exit" /\ cur[u] = r)
        BY <1>2, <2>1, <2>2, Exclusive
      <4> QED
        BY <1>0, <4>1 DEF CoroInv
    <3>2. \A u \in Threads : InBody(u) \/ pc[u] = "exit" => u # t /\ cur'[u] = cur[u] /\ pc'[u] = pc[u]
      BY <2>1, <2>4 DEF InBody
    <3> QED
      BY <1>0, <2>1, <2>5, <3>1, <3>2 DEF CoroInv, InBody
  <2> QED
    BY <2>6, <2>7 DEF RInv
<1>7. CASE OnExitClear(t)
  <2>1. UNCHANGED <<queue, waiting, life, coro, defer>> /\ pc' = [pc EXCEPT ![t] = "idle"]
        /\ pc[t] = "clear" /\ cur' = [cur EXCEPT ![t] = Null]
    BY <1>7 DEF OnExitClear, runnerVars
  <2>2. Posted' = Posted
    BY <2>1 DEF Posted
  <2>3. pc'[t] = "idle" /\ \A u \in Threads \ {t} : pc'[u] = pc[u] /\ cur'[u] = cur[u]
    BY <1>0, <2>1 DEF TypeOK
  <2>4. PostedInv'
    BY <1>0, <2>1, <2>2, <2>3 DEF PostedInv
  <2>5. CoroInv'
    <3>1. \A u \in Threads : InBody(u) \/ pc[u] = "exit" => cur'[u] = cur[u] /\ pc'[u] = pc[u]
      BY <2>1, <2>3 DEF InBody
    <3> QED
      BY <1>0, <2>1, <3>1 DEF CoroInv, InBody
  <2> QED
    BY <2>4, <2>5 DEF RInv
<1>8. CASE OnExitRunAsync(t)
  <2>1. \A u \in Threads : /\ InBody(u)' <=> InBody(u)
                           /\ pc'[u] = "exit" <=> pc[u] = "exit"
                           /\ pc'[u] \in {"call", "loop"} <=> pc[u] \in {"call", "loop"}
    BY <1>8, OnExitCreates DEF InBody
  <2>2. UNCHANGED <<waiting, cur>> /\ \E q \in Runners, s \in Schedulers : Create(q, s)
    BY <1>8, OnExitCreates
  <2> QED
    BY <2>1, <2>2, RCreate
<1>9. CASE OnExitReturn(t)
  <2>1. pc[t] = "given" /\ pc'[t] = "clear" /\ \A u \in Threads \ {t} : pc'[u] = pc[u]
    BY <1>0, <1>9 DEF OnExitReturn, TypeOK
  <2>2. \A u \in Threads : /\ InBody(u)' <=> InBody(u)
                           /\ pc'[u] = "exit" <=> pc[u] = "exit"
                           /\ pc'[u] \in {"call", "loop"} <=> pc[u] \in {"call", "loop"}
    BY <2>1 DEF InBody
  <2> QED
    BY <1>9, <2>2, RKeep DEF OnExitReturn, runnerVars
<1> QED
  BY <1>3, <1>4, <1>5, <1>6, <1>7, <1>8, <1>9 DEF OnExit

\* Where coroutines are when, in every state.
LEMMA RStep ==
    ASSUME IInv, IInv', RInv, [Next]_vars
    PROVE  RInv'
<1>0. TypeOK /\ PostedInv
  BY DEF IInv, RInv
<1>1. ASSUME NEW t \in Threads, NEW s \in Schedulers, Dispatch(t, s) PROVE RInv'
  BY <1>1, RDispatch
<1>2. ASSUME NEW t \in Threads, RunAsync(t) PROVE RInv'
  BY <1>2, RCreate DEF RunAsync, threadVars, InBody
<1>3. ASSUME NEW t \in Threads, (Body(t) /\ ~RunAsync(t)) \/ Finish(t) PROVE RInv'
  <2>1. CASE UNCHANGED <<coro, defer>> /\ pc' = [pc EXCEPT ![t] = pc'[t]] /\ InBody(t)'
    <3>1. InBody(t) /\ UNCHANGED <<queue, waiting, life, cur>>
      BY <1>3, Leaves
    <3>2. \A u \in Threads \ {t} : pc'[u] = pc[u]
      BY <1>0, <2>1 DEF TypeOK
    <3>3. \A u \in Threads : /\ InBody(u)' <=> InBody(u)
                             /\ pc'[u] = "exit" <=> pc[u] = "exit"
                             /\ pc'[u] \in {"call", "loop"} <=> pc[u] \in {"call", "loop"}
      BY <2>1, <3>1, <3>2 DEF InBody
    <3> QED
      BY <2>1, <3>1, <3>3, RKeep
  <2>2. CASE \E x \in {"suspended", "finished"} :
                /\ coro' = [coro EXCEPT ![cur[t]] = x] /\ pc' = [pc EXCEPT ![t] = "exit"]
                /\ \/ defer' = defer
                   \/ /\ x = "suspended"
                      /\ \E h \in {"proceed", "io"} : defer' = [defer EXCEPT ![cur[t]] = h]
    <3>1. InBody(t) /\ UNCHANGED <<queue, waiting, life, cur>>
      BY <1>3, Leaves
    <3> QED
      BY <2>2, <3>1, RLeave
  <2> QED
    BY <1>3, <2>1, <2>2, Leaves
<1>4. ASSUME NEW t \in Threads, OnExit(t) PROVE RInv'
  BY <1>4, ROnExit
<1>5. ASSUME NEW r \in Runners, IoComplete(r) PROVE RInv'
  <2>1. /\ r \in waiting /\ waiting' = waiting \ {r} /\ Schedule("Proceed", r)
        /\ UNCHANGED <<life, coro, defer, cur, pc>>
    BY <1>5 DEF IoComplete, runnerVars, threadVars
  <2>2. r \in Alive /\ coro[r] = "suspended"
    BY <1>0, <2>1, Exclusive DEF PostedInv, Alive
  <2>3. PICK e \in Entry : e.op = "Proceed" /\ e.runner = r /\ Posted' = Posted \cup {e}
    BY <2>1, <2>2, PostedSchedule
  <2>4. PostedInv'
    BY <1>0, <2>1, <2>2, <2>3 DEF PostedInv
  <2>5. CoroInv'
    BY <2>1 DEF RInv, CoroInv, InBody
  <2> QED
    BY <2>4, <2>5 DEF RInv
<1>6. ASSUME NEW r \in Runners, NEW s \in Schedulers, RunAsyncMain(r, s) PROVE RInv'
  BY <1>6, RCreate DEF RunAsyncMain, threadVars, InBody
<1>7. ASSUME UNCHANGED <<queue, waiting, life, coro, defer, cur, pc>> PROVE RInv'
  <2>1. \A u \in Threads : /\ InBody(u)' <=> InBody(u)
                           /\ pc'[u] = "exit" <=> pc[u] = "exit"
                           /\ pc'[u] \in {"call", "loop"} <=> pc[u] \in {"call", "loop"}
    BY <1>7 DEF InBody
  <2> QED
    BY <1>7, <2>1, RKeep
<1>8. ASSUME NEW r \in Runners, Reset(r) \/ \E st \in {"Cancelled", "Timedout"} : SetStatus(r, st)
      PROVE  RInv'
  BY <1>7, <1>8 DEF Reset, SetStatus, threadVars
<1>9. CASE WaitAllBegin \/ WaitAllReturn \/ UNCHANGED vars
  BY <1>7, <1>9 DEF WaitAllBegin, WaitAllReturn, vars, runnerVars, threadVars
<1> QED
  BY <1>1, <1>2, <1>3, <1>4, <1>5, <1>6, <1>8, <1>9 DEF Next, Environment, Terminated

\* The coroutine of a runner is new, running, suspended or gone exactly when
\* its continuations say so.
THEOREM CoroutineInvariance == Spec => []RInv
<1>1. Init => RInv
  <2> SUFFICES ASSUME Init PROVE RInv
    OBVIOUS
  <2>1. Posted = {}
    BY DEF Init, Posted
  <2> QED
    BY <2>1 DEF Init, RInv, PostedInv, CoroInv
<1>2. IInv /\ IInv' /\ RInv /\ [Next]_vars => RInv'
  BY RStep
<1> QED
  BY <1>1, <1>2, Invariance, PTL DEF Spec

-----------------------------------------------------------------------------
(* The runners implement AsyncTask. *)

\* The task of a runner that a step does not touch stays as it is.
LEMMA SameTask ==
    ASSUME NEW q \in Runners, life'[q] = life[q], coro'[q] = coro[q],
           Ended(q)' <=> Ended(q), Queued(q)' <=> Queued(q)
    PROVE  TaskState(q)' = TaskState(q)
BY DEF TaskState

\* Nor does a task end or go on because another thread moves.
LEMMA SameEnd ==
    ASSUME NEW q \in Runners, life'[q] = life[q], coro'[q] = coro[q], defer'[q] = defer[q],
           \A u \in Threads : cur'[u] = q /\ pc'[u] = "exit" <=> cur[u] = q /\ pc[u] = "exit"
    PROVE  Ended(q)' <=> Ended(q)
BY DEF Ended

\* One task moves.
LEMMA OneTask ==
    ASSUME NEW r \in Runners, \A q \in Runners \ {r} : TaskState(q)' = TaskState(q)
    PROVE  TaskOf' = [TaskOf EXCEPT ![r] = TaskState(r)']
<1>1. TaskOf' = [q \in Runners |-> TaskState(q)']
  BY DEF TaskOf
<1>2. TaskOf = [q \in Runners |-> TaskState(q)]
  BY DEF TaskOf
<1> QED
  BY <1>1, <1>2

\* No task moves, and no thread.
LEMMA NoTask ==
    ASSUME \A q \in Runners : TaskState(q)' = TaskState(q), CurrentOf' = CurrentOf,
           StartersOf' = StartersOf, main' = main
    PROVE  UNCHANGED Task!vars
<1>1. TaskOf' = TaskOf
  BY DEF TaskOf
<1> QED
  BY <1>1 DEF Task!vars

\* No thread enters or leaves a deferred handler.
LEMMA SameStarters ==
    ASSUME \A u \in Threads : Starts(u)' <=> Starts(u)
    PROVE  StartersOf' = StartersOf
<1>1. StartersOf' = {u \in Threads : Starts(u)'}
  BY DEF StartersOf
<1> QED
  BY <1>1 DEF StartersOf

\* RunAsync.
LEMMA SubmitStep ==
    ASSUME IInv, IInv', RInv, NEW r \in Runners, NEW s \in Schedulers, Create(r, s),
           UNCHANGED <<main, cur>>,
           \A u \in Threads : /\ InBody(u)' <=> InBody(u)
                              /\ pc'[u] = "exit" <=> pc[u] = "exit"
                              /\ Starts(u)' <=> Starts(u),
           \/ main = "run"
           \/ \E q \in Runners : TaskState(q) = "running"
           \/ \E t \in Threads : Starts(t)
    PROVE  Task!Next
<1>0. TypeOK /\ TypeOK'
  BY DEF IInv
<1> DEFINE e == [op |-> "Start", runner |-> r]
<1>1. e \in Entry /\ e.runner = r
  BY DEF Entry
<1>2. Posted' = Posted \cup {e}
  <2>1. queue' = [queue EXCEPT ![s] = Append(queue[s], e)]
    BY DEF Create
  <2> HIDE DEF e
  <2> QED
    BY <1>0, <1>1, <2>1, PostedAppend
<1> HIDE DEF e
<1>3. Queued(r)'
  BY <1>0, <1>1, <1>2, QueuedIsPostedNext
<1>4. \A q \in Runners \ {r} : Queued(q)' <=> Queued(q)
  BY <1>0, <1>1, <1>2, QueuedIsPosted, QueuedIsPostedNext
<1>5. /\ life[r] = "none" /\ life'[r] = "alive" /\ coro'[r] = "empty"
      /\ \A q \in Runners \ {r} : life'[q] = life[q]
      /\ UNCHANGED <<coro, defer>>
  BY <1>0 DEF Create, TypeOK, RInv, CoroInv
<1>6. \A q \in Runners \ {r} : TaskState(q)' = TaskState(q)
  BY <1>4, <1>5, SameEnd, SameTask
<1>7. TaskState(r) = "absent"
  BY <1>5 DEF TaskState
<1>8. TaskState(r)' = "ready"
  <2>1. \A u \in Threads : ~(cur[u] = r /\ pc[u] = "exit")
    BY <1>5, Inside
  <2>2. ~Ended(r)'
    BY <1>5, <2>1 DEF Ended
  <2> QED
    BY <1>3, <1>5, <2>2 DEF TaskState
<1>9. TaskOf' = [TaskOf EXCEPT ![r] = "ready"] /\ TaskOf[r] = "absent"
  BY <1>6, <1>7, <1>8, OneTask DEF TaskOf
<1>10. CurrentOf' = CurrentOf /\ StartersOf' = StartersOf
  BY SameStarters DEF CurrentOf, InBody
<1>11. main = "run" \/ (\E q \in Runners : TaskOf[q] = "running") \/ StartersOf # {}
  BY DEF TaskOf, StartersOf
<1>12. Task!Submit(r)
  BY <1>9, <1>10, <1>11 DEF Task!Submit
<1> QED
  BY <1>12 DEF Task!Next

\* A thread takes a handler.
LEMMA RunStep ==
    ASSUME IInv, IInv', RInv, NEW t \in Threads, NEW s \in Schedulers, Dispatch(t, s)
    PROVE  Task!Next
<1>0. TypeOK /\ TypeOK' /\ UNCHANGED <<life, defer, main>>
  BY DEF IInv, Dispatch
<1>1. PICK r \in Runners :
              /\ pc[t] = "idle" /\ cur' = [cur EXCEPT ![t] = r]
              /\ life[r] = "alive" /\ coro[r] \in {"empty", "suspended"}
              /\ coro' = [coro EXCEPT ![r] = "running"]
              /\ pc' = [pc EXCEPT ![t] = pc'[t]] /\ pc'[t] \in {"body", "unwind"}
              /\ Queued(r)
              /\ r \notin waiting /\ \A u \in Threads : ~Holds(u, r)
              /\ \A e \in Posted' : e \in Posted /\ e.runner # r
              /\ \A e \in Posted : e \in Posted' \/ e.runner = r
  BY Entered
<1>2. \A q \in Runners \ {r} : coro'[q] = coro[q]
  BY <1>0, <1>1 DEF TypeOK
<1>3. \A u \in Threads \ {t} : pc'[u] = pc[u] /\ cur'[u] = cur[u]
  BY <1>0, <1>1 DEF TypeOK
<1>4. coro'[r] = "running" /\ cur'[t] = r
  BY <1>0, <1>1 DEF TypeOK
<1>5. \A q \in Runners \ {r} : Queued(q)' <=> Queued(q)
  BY <1>0, <1>1, QueuedIsPosted, QueuedIsPostedNext
<1>6. \A q \in Runners \ {r} : TaskState(q)' = TaskState(q)
  <2>1. \A q \in Runners \ {r}, u \in Threads :
           cur'[u] = q /\ pc'[u] = "exit" <=> cur[u] = q /\ pc[u] = "exit"
    BY <1>1, <1>3
  <2> QED
    BY <1>0, <1>2, <1>5, <2>1, SameEnd, SameTask
<1>7. TaskState(r) = "ready"
  <2>1. \A u \in Threads : ~(cur[u] = r /\ pc[u] = "exit")
    BY <1>1 DEF Holds
  <2>2. ~Ended(r)
    BY <1>1, <2>1 DEF Ended
  <2> QED
    BY <1>1, <2>2 DEF TaskState
<1>8. TaskState(r)' = "running"
  BY <1>0, <1>1, <1>4 DEF TaskState
<1>9. TaskOf' = [TaskOf EXCEPT ![r] = "running"] /\ TaskOf[r] = "ready"
  BY <1>6, <1>7, <1>8, OneTask DEF TaskOf
<1>10. CurrentOf' = [CurrentOf EXCEPT ![t] = r] /\ CurrentOf[t] = Null
  <2>1. CurrentOf[t] = Null
    BY <1>1 DEF CurrentOf
  <2>2. CurrentOf' = [u \in Threads |-> IF pc'[u] \in {"body", "unwind"} THEN cur'[u] ELSE Null]
    BY DEF CurrentOf
  <2>3. \A u \in Threads : CurrentOf'[u] = IF u = t THEN r ELSE CurrentOf[u]
    BY <1>1, <1>3, <1>4, <2>2 DEF CurrentOf
  <2> QED
    BY <2>1, <2>2, <2>3 DEF CurrentOf
<1>11. StartersOf' = StartersOf /\ t \notin StartersOf
  <2>1. ~Starts(t) /\ ~Starts(t)'
    BY <1>1 DEF Starts
  <2>2. handler' = handler
    BY DEF Dispatch
  <2>3. \A u \in Threads : Starts(u)' <=> Starts(u)
    BY <1>0, <1>3, <2>1, <2>2 DEF Starts
  <2> QED
    BY <2>1, <2>3, SameStarters DEF StartersOf
<1>12. Task!Run(t, r)
  BY <1>0, <1>9, <1>10, <1>11 DEF Task!Run
<1> QED
  BY <1>12 DEF Task!Next

\* An operation gives its thread up, to wait or because it ends.
LEMMA LeaveStep ==
    ASSUME IInv, IInv', RInv, NEW t \in Threads, (Body(t) /\ ~RunAsync(t)) \/ Finish(t)
    PROVE  [Task!Next]_(Task!vars)
<1>0. TypeOK /\ InBody(t) /\ UNCHANGED <<queue, waiting, life, cur, main>>
  BY Leaves DEF IInv
<1>1. PICK r \in Runners : r = cur[t] /\ coro[r] = "running" /\ life[r] = "alive" /\ Holds(t, r)
  BY <1>0, Inside DEF InBody, Holds
<1>2. \A q \in Runners : Queued(q)' <=> Queued(q)
  BY <1>0 DEF Queued, QueuedAt
<1>5. handler' = handler
  BY DEF Body, SwitchTo, DeferProceed, HandleEvents, DisableEvents, EnableEvents, Catch, Yield, Finish
<1>3. CASE UNCHANGED <<coro, defer>> /\ pc' = [pc EXCEPT ![t] = pc'[t]] /\ InBody(t)'
  <2>1. \A u \in Threads \ {t} : pc'[u] = pc[u]
    BY <1>0, <1>3 DEF TypeOK
  <2>2. \A u \in Threads : pc'[u] = "exit" <=> pc[u] = "exit"
    BY <1>0, <1>3, <2>1 DEF InBody
  <2>3. \A q \in Runners : TaskState(q)' = TaskState(q)
    BY <1>0, <1>2, <1>3, <2>2, SameEnd, SameTask
  <2>4. CurrentOf' = CurrentOf
    BY <1>0, <1>3, <2>1 DEF CurrentOf, InBody
  <2>5. \A u \in Threads : Starts(u)' <=> Starts(u)
    BY <1>0, <1>3, <1>5, <2>1 DEF Starts, InBody
  <2> QED
    BY <1>0, <2>3, <2>4, <2>5, NoTask, SameStarters
<1>4. ASSUME NEW x \in {"suspended", "finished"}, coro' = [coro EXCEPT ![cur[t]] = x],
             pc' = [pc EXCEPT ![t] = "exit"],
             \/ defer' = defer
             \/ /\ x = "suspended"
                /\ \E h \in {"proceed", "io"} : defer' = [defer EXCEPT ![cur[t]] = h]
      PROVE  Task!Next
  <2>1. coro'[r] = x /\ \A q \in Runners \ {r} : coro'[q] = coro[q] /\ defer'[q] = defer[q]
    BY <1>0, <1>1, <1>4 DEF TypeOK
  <2>2. pc'[t] = "exit" /\ \A u \in Threads \ {t} : pc'[u] = pc[u]
    BY <1>0, <1>4 DEF TypeOK
  <2>3. \A q \in Runners \ {r} : TaskState(q)' = TaskState(q)
    <3>1. \A q \in Runners \ {r}, u \in Threads :
             cur'[u] = q /\ pc'[u] = "exit" <=> cur[u] = q /\ pc[u] = "exit"
      BY <1>0, <1>1, <2>2
    <3> QED
      BY <1>0, <1>2, <2>1, <3>1, SameEnd, SameTask
  <2>4. TaskState(r) = "running"
    BY <1>1 DEF TaskState
  <2>5. defer[r] = "none"
    BY <1>1 DEF RInv, CoroInv
  <2>6. TaskState(r)' \in {"waiting", "done"}
    <3>1. ~Queued(r)'
      <4>1. \A e \in Posted : e.runner # r
        BY <1>1, Exclusive
      <4>2. ~Queued(r)
        BY <1>0, <4>1, QueuedIsPosted
      <4> QED
        BY <1>2, <4>2
    <3> QED
      BY <1>0, <1>1, <1>4, <2>1, <3>1 DEF TaskState
  <2>7. PICK y \in {"waiting", "done"} : y = TaskState(r)'
    BY <2>6
  <2>8. TaskOf' = [TaskOf EXCEPT ![r] = y] /\ TaskOf[r] = "running"
    BY <2>3, <2>4, <2>7, OneTask DEF TaskOf
  <2>9. CurrentOf' = [CurrentOf EXCEPT ![t] = Null] /\ CurrentOf[t] = r
    BY <1>0, <1>1, <2>2 DEF CurrentOf, InBody
  <2>10. r # Null
    BY RunnerAssumption
  <2>11. Task!Leave(t, y)
    BY <1>0, <2>8, <2>9, <2>10 DEF Task!Leave
  <2>13. \A u \in Threads \ {t} : Starts(u)' <=> Starts(u)
    <3>1. \A u \in Threads \ {t} : pc[u] = "exit" => cur[u] \in Runners \ {r}
      BY <1>1, Inside, Exclusive DEF Holds
    <3> QED
      BY <1>0, <1>5, <2>1, <2>2, <3>1 DEF Starts
  <2>14. ~Starts(t)
    BY <1>0 DEF Starts, InBody
  <2>15. Starts(t)' => y = "waiting"
    <3>1. Starts(t)' => defer'[r] = "io"
      BY <1>0, <1>1, <2>2 DEF Starts
    <3>2. ASSUME defer'[r] = "io" PROVE ~Ended(r)'
      <4>1. x = "suspended"
        BY <1>4, <2>5, <3>2
      <4>2. \A u \in Threads : cur'[u] = r /\ pc'[u] = "exit" => defer'[r] # "none"
        BY <3>2
      <4> QED
        BY <1>0, <1>1, <2>1, <3>2, <4>1, <4>2 DEF Ended
    <3>3. TaskState(r)' = "done" => Ended(r)'
      BY DEF TaskState
    <3> QED
      BY <2>7, <3>1, <3>2, <3>3
  <2>16. StartersOf' = IF Starts(t)' THEN StartersOf \cup {t} ELSE StartersOf
    <3>1. StartersOf' = {u \in Threads : Starts(u)'}
      BY DEF StartersOf
    <3> QED
      BY <2>13, <2>14, <3>1 DEF StartersOf
  <2>12. Task!Await(t) \/ Task!Finish(t)
    <3>1. CASE y = "waiting"
      BY <2>11, <2>16, <3>1 DEF Task!Await
    <3>2. CASE y = "done"
      BY <2>11, <2>15, <2>16, <3>2 DEF Task!Finish
    <3> QED
      BY <3>1, <3>2
  <2> QED
    BY <2>12 DEF Task!Next
<1> QED
  BY <1>3, <1>4, Leaves

\* A continuation is posted: the task, which waited, is ready.
LEMMA WakeStep ==
    ASSUME IInv, IInv', RInv, NEW r \in Alive, coro[r] = "suspended", defer[r] = "none",
           \A u \in Threads : ~(cur[u] = r /\ pc[u] = "exit"),
           ~Queued(r), Schedule("Proceed", r), UNCHANGED <<life, coro, defer, cur, main>>,
           \A u \in Threads : /\ InBody(u)' <=> InBody(u)
                              /\ pc'[u] = "exit" <=> pc[u] = "exit"
                              /\ Starts(u)' <=> Starts(u)
    PROVE  Task!Next
<1>0. TypeOK /\ TypeOK' /\ r \in Runners /\ life[r] = "alive"
  BY DEF IInv, Alive
<1>1. PICK e \in Entry : e.runner = r /\ Posted' = Posted \cup {e}
  BY PostedSchedule
<1>2. Queued(r)' /\ \A q \in Runners \ {r} : Queued(q)' <=> Queued(q)
  BY <1>0, <1>1, QueuedIsPosted, QueuedIsPostedNext
<1>3. \A q \in Runners : Ended(q)' <=> Ended(q)
  BY SameEnd
<1>4. \A q \in Runners \ {r} : TaskState(q)' = TaskState(q)
  BY <1>2, <1>3, SameTask
<1>5. ~Ended(r)
  BY <1>0 DEF Ended
<1>6. TaskState(r) = "waiting" /\ TaskState(r)' = "ready"
  BY <1>0, <1>2, <1>3, <1>5 DEF TaskState
<1>7. TaskOf' = [TaskOf EXCEPT ![r] = "ready"] /\ TaskOf[r] = "waiting"
  BY <1>0, <1>4, <1>6, OneTask DEF TaskOf
<1>8. CurrentOf' = CurrentOf /\ StartersOf' = StartersOf
  BY SameStarters DEF CurrentOf, InBody
<1>9. Task!Wake(r)
  BY <1>7, <1>8 DEF Task!Wake
<1> QED
  BY <1>0, <1>9 DEF Task!Next

\* OnExit: only a call of Proceed moves a task.
LEMMA ExitStep ==
    ASSUME IInv, IInv', RInv, NEW t \in Threads, OnExit(t), ~OnExitRunAsync(t)
    PROVE  [Task!Next]_(Task!vars)
<1>0. TypeOK /\ PostedInv /\ CoroInv /\ main' = main
  BY DEF IInv, RInv, OnExit, OnExitTake, OnExitCall, OnExitReturn, OnExitDelete,
     DestroyMembers, OnExitClear
<1>1. PICK r \in Runners : r = cur[t]
  BY Inside DEF OnExit, OnExitTake, OnExitCall, OnExitReturn, OnExitDelete,
     DestroyMembers, OnExitClear
<1>2. \A u \in Threads \ {t} : pc'[u] = pc[u] /\ cur'[u] = cur[u]
  BY <1>0 DEF OnExit, OnExitTake, OnExitCall, OnExitReturn, OnExitDelete,
     DestroyMembers, OnExitClear, TypeOK
<1>3. ~InBody(t) /\ ~InBody(t)'
  BY <1>0 DEF OnExit, OnExitTake, OnExitCall, OnExitReturn, OnExitDelete,
     DestroyMembers, OnExitClear, TypeOK, InBody
<1>4. CurrentOf' = CurrentOf
  BY <1>2, <1>3 DEF CurrentOf, InBody
<1>5. \A q \in Runners \ {r} : /\ life'[q] = life[q] /\ coro'[q] = coro[q] /\ defer'[q] = defer[q]
  BY <1>0, <1>1 DEF OnExit, OnExitTake, OnExitCall, OnExitReturn, OnExitDelete,
     DestroyMembers, OnExitClear, TypeOK,
     runnerVars
<1>6. \A q \in Runners \ {r} : Ended(q)' <=> Ended(q)
  <2>1. cur'[t] = r \/ pc'[t] = "idle"
    BY <1>0, <1>1 DEF OnExit, OnExitTake, OnExitCall, OnExitReturn, OnExitDelete,
     DestroyMembers, OnExitClear, TypeOK
  <2>2. \A q \in Runners \ {r}, u \in Threads :
           cur'[u] = q /\ pc'[u] = "exit" <=> cur[u] = q /\ pc[u] = "exit"
    BY <1>1, <1>2, <2>1
  <2> QED
    BY <1>5, <2>2, SameEnd
<1>14. \A u \in Threads \ {t} : handler'[u] = handler[u]
  BY <1>0 DEF OnExit, OnExitTake, OnExitCall, OnExitReturn, OnExitDelete,
     DestroyMembers, OnExitClear, TypeOK
<1>15. \A u \in Threads \ {t} : Starts(u)' <=> Starts(u)
  <2>1. \A u \in Threads \ {t} : pc[u] = "exit" /\ cur[u] # r => defer'[cur[u]] = defer[cur[u]]
    BY <1>5, Inside
  <2>2. \A u \in Threads \ {t} : pc[u] = "exit" /\ cur[u] = r => defer'[r] = defer[r]
    <3>1. CASE OnExitTake(t)
      <4>1. Holds(t, r)
        BY <1>1, <3>1 DEF OnExitTake, Holds
      <4> QED
        BY <4>1, Exclusive DEF Holds
    <3>2. CASE ~OnExitTake(t)
      BY <3>2 DEF OnExit, OnExitCall, OnExitReturn, OnExitDelete, DestroyMembers, OnExitClear, runnerVars
    <3> QED
      BY <3>1, <3>2
  <2> QED
    BY <1>2, <1>14, <2>1, <2>2 DEF Starts
<1>7. ASSUME queue' = queue, TaskState(r)' = TaskState(r), Starts(t)' <=> Starts(t)
      PROVE  UNCHANGED Task!vars
  <2>1. \A q \in Runners : Queued(q)' <=> Queued(q)
    BY <1>7 DEF Queued, QueuedAt
  <2>2. \A q \in Runners : TaskState(q)' = TaskState(q)
    BY <1>5, <1>6, <1>7, <2>1, SameTask
  <2> QED
    BY <1>0, <1>4, <1>7, <1>15, <2>2, NoTask, SameStarters
<1>16. ASSUME queue' = queue, TaskState(r)' = TaskState(r), Starts(t), ~Starts(t)'
       PROVE  Task!Next
  <2>1. \A q \in Runners : Queued(q)' <=> Queued(q)
    BY <1>16 DEF Queued, QueuedAt
  <2>2. \A q \in Runners : TaskState(q)' = TaskState(q)
    BY <1>5, <1>6, <1>16, <2>1, SameTask
  <2>3. TaskOf' = TaskOf
    BY <2>2 DEF TaskOf
  <2>4. t \in StartersOf /\ StartersOf' = StartersOf \ {t}
    <3>1. StartersOf' = {u \in Threads : Starts(u)'}
      BY DEF StartersOf
    <3> QED
      BY <1>15, <1>16, <3>1 DEF StartersOf
  <2>5. Task!Started(t)
    BY <1>0, <1>4, <2>3, <2>4 DEF Task!Started
  <2> QED
    BY <2>5 DEF Task!Next
<1>8. ASSUME Holds(t, r)
      PROVE  ~Queued(r) /\ life[r] = "alive" /\ \A u \in Threads \ {t} : ~(cur[u] = r /\ pc[u] = "exit")
  <2>1. \A e \in Posted : e.runner # r
    BY <1>8, Exclusive
  <2>2. ~Queued(r)
    BY <1>0, <2>1, QueuedIsPosted
  <2> QED
    BY <1>8, <2>2, Exclusive DEF Holds
<1>9. CASE OnExitTake(t)
  <2>1. /\ Holds(t, r) /\ defer[r] # "none" /\ pc'[t] = "call"
        /\ UNCHANGED <<queue, life, coro, cur>>
    BY <1>0, <1>1, <1>9 DEF OnExitTake, Holds, TypeOK
  <2>2. coro[r] = "suspended"
    BY <1>0, <2>1 DEF CoroInv
  <2>3. ~Ended(r)
    BY <1>8, <2>1, <2>2 DEF Ended
  <2>4. ~Ended(r)'
    BY <1>2, <1>8, <2>1, <2>2 DEF Ended
  <2>5. Queued(r)' <=> Queued(r)
    BY <2>1 DEF Queued, QueuedAt
  <2>6. pc[t] = "exit" /\ handler'[t] = defer[r]
    BY <1>0, <1>1, <1>9 DEF OnExitTake, TypeOK
  <2>7. Starts(t)' <=> Starts(t)
    BY <1>1, <2>1, <2>6 DEF Starts
  <2> QED
    BY <1>7, <2>1, <2>3, <2>4, <2>5, <2>7, SameTask
<1>10. CASE OnExitCall(t)
  <2>1. /\ Holds(t, r) /\ pc[t] \in {"call", "loop"}
        /\ pc'[t] = IF pc[t] = "loop" THEN "given" ELSE "clear"
        /\ UNCHANGED <<life, coro, defer, cur>>
    BY <1>0, <1>1, <1>10 DEF OnExitCall, Holds, TypeOK, runnerVars
  <2>2. coro[r] = "suspended" /\ \A u \in Threads : ~(cur[u] = r /\ pc[u] = "exit")
    BY <1>0, <1>1, <1>8, <2>1 DEF PostedInv
  <2>3. defer[r] = "none"
    BY <1>0, <2>2 DEF CoroInv
  <2>4. CASE handler[t] = "proceed"
    <3>1. Schedule("Proceed", r) /\ r \in Alive
      BY <1>1, <1>8, <1>10, <2>1, <2>4 DEF OnExitCall, Alive
    <3>2. \A u \in Threads : (InBody(u)' <=> InBody(u)) /\ (pc'[u] = "exit" <=> pc[u] = "exit")
      BY <1>2, <1>3, <2>1 DEF InBody
    <3>3. Starts(t)' <=> Starts(t)
      BY <2>1, <2>4 DEF Starts
    <3> QED
      BY <1>0, <1>8, <2>1, <2>2, <2>3, <1>15, <3>1, <3>2, <3>3, WakeStep
  <2>5. CASE handler[t] # "proceed"
    <3>1. queue' = queue
      BY <1>10, <2>5 DEF OnExitCall
    <3>2. Queued(r)' <=> Queued(r)
      BY <3>1 DEF Queued, QueuedAt
    <3>3. Ended(r)' <=> Ended(r)
      BY <1>2, <2>1, SameEnd
    <3>4. TaskState(r)' = TaskState(r)
      BY <2>1, <3>2, <3>3, SameTask
    <3>5. Starts(t)' => Starts(t)
      BY <2>1 DEF Starts
    <3> QED
      BY <1>7, <1>16, <3>1, <3>4, <3>5
  <2> QED
    BY <2>4, <2>5
<1>11. CASE OnExitDelete(t)
  <2>1. /\ pc[t] = "exit" /\ defer[r] = "none" /\ life'[r] = "dying" /\ Holds(t, r)
        /\ UNCHANGED <<queue, coro>>
    BY <1>0, <1>1, <1>11 DEF OnExitDelete, TypeOK, Holds
  <2>2. coro[r] # "running" /\ life[r] = "alive"
    BY <1>0, <1>1, <1>8, <2>1 DEF PostedInv
  <2>3. Ended(r) /\ Ended(r)'
    BY <1>1, <2>1 DEF Ended
  <2>4. TaskState(r) = "done" /\ TaskState(r)' = "done"
    BY <2>1, <2>2, <2>3 DEF TaskState
  <2>5. ~Starts(t) /\ ~Starts(t)'
    BY <1>0, <1>1, <1>11 DEF OnExitDelete, Starts, TypeOK
  <2> QED
    BY <1>7, <2>1, <2>4, <2>5
<1>12. CASE DestroyMembers(t)
  <2>1. life[r] = "dying" /\ life'[r] = "deleted" /\ coro'[r] = "destroyed" /\ queue' = queue
    BY <1>0, <1>1, <1>12 DEF DestroyMembers, TypeOK, IInv, ThreadInv
  <2>2. coro[r] # "running"
    BY <1>0, <2>1 DEF CoroInv
  <2>3. Ended(r) /\ Ended(r)'
    BY <2>1 DEF Ended
  <2>4. TaskState(r) = "done" /\ TaskState(r)' = "done"
    BY <2>1, <2>2, <2>3 DEF TaskState
  <2>5. ~Starts(t) /\ ~Starts(t)'
    BY <1>0, <1>12 DEF DestroyMembers, Starts, TypeOK
  <2> QED
    BY <1>7, <2>1, <2>4, <2>5
<1>13. CASE OnExitClear(t)
  <2>1. /\ UNCHANGED <<queue, life, coro, defer>> /\ pc[t] = "clear" /\ pc'[t] = "idle"
    BY <1>0, <1>13 DEF OnExitClear, TypeOK, runnerVars
  <2>2. Queued(r)' <=> Queued(r)
    BY <2>1 DEF Queued, QueuedAt
  <2>3. \A u \in Threads : cur'[u] = r /\ pc'[u] = "exit" <=> cur[u] = r /\ pc[u] = "exit"
    BY <1>2, <2>1
  <2>4. Ended(r)' <=> Ended(r)
    BY <2>1, <2>3, SameEnd
  <2>5. ~Starts(t) /\ ~Starts(t)'
    BY <2>1 DEF Starts
  <2> QED
    BY <1>7, <2>1, <2>2, <2>4, <2>5, SameTask
<1>17. CASE OnExitReturn(t)
  <2>1. /\ UNCHANGED <<queue, life, coro, defer, cur>> /\ pc[t] = "given" /\ pc'[t] = "clear"
    BY <1>0, <1>17 DEF OnExitReturn, TypeOK, runnerVars
  <2>2. Queued(r)' <=> Queued(r)
    BY <2>1 DEF Queued, QueuedAt
  <2>3. \A u \in Threads : cur'[u] = r /\ pc'[u] = "exit" <=> cur[u] = r /\ pc[u] = "exit"
    BY <1>2, <2>1
  <2>4. TaskState(r)' = TaskState(r)
    BY <2>1, <2>2, <2>3, SameEnd, SameTask
  <2>5. Starts(t) /\ ~Starts(t)'
    BY <2>1 DEF Starts
  <2> QED
    BY <1>16, <2>1, <2>4, <2>5
<1> QED
  BY <1>9, <1>10, <1>11, <1>12, <1>13, <1>17 DEF OnExit

\* The deferred handler of a combinator starts an operation.
LEMMA StartStep ==
    ASSUME IInv, IInv', RInv, NEW t \in Threads, OnExitRunAsync(t)
    PROVE  Task!Next
<1>1. PICK r \in Runners, s \in Schedulers : Create(r, s)
  BY OnExitCreates
<1>2. /\ pc[t] \in {"call", "loop", "given"} /\ pc'[t] = IF pc[t] = "call" THEN "loop" ELSE pc[t]
      /\ \A u \in Threads \ {t} : pc'[u] = pc[u]
      /\ UNCHANGED <<main, cur, handler>>
  BY OnExitCreates
<1>3. defer' = defer
  BY <1>1 DEF Create
<1>4. Starts(t)
  BY <1>2 DEF OnExitRunAsync, Starts
<1>5. \A u \in Threads : /\ InBody(u)' <=> InBody(u)
                         /\ pc'[u] = "exit" <=> pc[u] = "exit"
                         /\ Starts(u)' <=> Starts(u)
  BY <1>2, <1>3, <1>4 DEF InBody, Starts
<1> QED
  BY <1>1, <1>2, <1>4, <1>5, SubmitStep

\* The runners, their schedulers and coroutines do what AsyncTask promises, for
\* any number of operations, threads and schedulers: an operation goes on only
\* after it was woken, on one thread at a time, and WaitAll comes back when
\* all have ended; only the loop of a deferred handler submits after that.
THEOREM Refinement == Spec => ImplementsTask
<1>1. Init => Task!Init
  <2> SUFFICES ASSUME Init PROVE Task!Init
    OBVIOUS
  <2>1. TaskOf = [r \in Runners |-> "absent"]
    BY DEF Init, TaskOf, TaskState
  <2>2. CurrentOf = [t \in Threads |-> Null]
    BY DEF Init, CurrentOf
  <2>3. StartersOf = {}
    BY DEF Init, StartersOf, Starts
  <2> QED
    BY <2>1, <2>2, <2>3 DEF Init, Task!Init
<1>2. IInv /\ IInv' /\ RInv /\ [Next]_vars => [Task!Next]_(Task!vars)
  <2> SUFFICES ASSUME IInv, IInv', RInv, [Next]_vars
               PROVE  [Task!Next]_(Task!vars)
    OBVIOUS
  <2>0. TypeOK /\ PostedInv /\ CoroInv
    BY DEF IInv, RInv
  <2>1. ASSUME NEW t \in Threads, NEW s \in Schedulers, Dispatch(t, s) PROVE Task!Next
    BY <2>1, RunStep
  <2>2. ASSUME NEW t \in Threads, RunAsync(t) PROVE Task!Next
    <3>1. PICK q \in Runners : q = cur[t] /\ life[q] = "alive" /\ coro[q] = "running"
      BY <2>2, Inside DEF RunAsync, Call
    <3>2. TaskState(q) = "running"
      BY <3>1 DEF TaskState
    <3>3. UNCHANGED <<defer, main, threadVars>>
      BY <2>2 DEF RunAsync, Create
    <3>4. \A u \in Threads : /\ InBody(u)' <=> InBody(u)
                             /\ pc'[u] = "exit" <=> pc[u] = "exit"
                             /\ Starts(u)' <=> Starts(u)
      BY <3>3 DEF InBody, Starts, threadVars
    <3> QED
      BY <2>2, <3>2, <3>3, <3>4, SubmitStep DEF RunAsync, threadVars
  <2>3. ASSUME NEW t \in Threads, (Body(t) /\ ~RunAsync(t)) \/ Finish(t) PROVE [Task!Next]_(Task!vars)
    BY <2>3, LeaveStep
  <2>4. ASSUME NEW t \in Threads, OnExit(t) PROVE [Task!Next]_(Task!vars)
    BY <2>4, ExitStep, StartStep
  <2>5. ASSUME NEW r \in Runners, IoComplete(r) PROVE Task!Next
    <3>1. r \in waiting /\ Schedule("Proceed", r) /\ UNCHANGED <<life, coro, defer, cur, main, pc, handler>>
      BY <2>5 DEF IoComplete, runnerVars, threadVars
    <3>2. /\ r \in Alive /\ coro[r] = "suspended"
          /\ \A u \in Threads : ~(cur[u] = r /\ pc[u] = "exit")
      BY <2>0, <3>1, Exclusive DEF PostedInv, Alive, Holds
    <3>3. defer[r] = "none"
      BY <2>0, <3>2 DEF CoroInv, Alive
    <3>4. ~Queued(r)
      <4>1. \A e \in Posted : e.runner # r
        BY <3>1, Exclusive
      <4> QED
        BY <2>0, <4>1, QueuedIsPosted
    <3>5. \A u \in Threads : /\ InBody(u)' <=> InBody(u)
                             /\ pc'[u] = "exit" <=> pc[u] = "exit"
                             /\ Starts(u)' <=> Starts(u)
      BY <3>1 DEF InBody, Starts
    <3> QED
      BY <3>1, <3>2, <3>3, <3>4, <3>5, WakeStep
  <2>6. ASSUME NEW r \in Runners, NEW s \in Schedulers, RunAsyncMain(r, s) PROVE Task!Next
    <3>1. UNCHANGED <<defer, main, threadVars>> /\ main = "run" /\ Create(r, s)
      BY <2>6 DEF RunAsyncMain, Create
    <3>2. \A u \in Threads : /\ InBody(u)' <=> InBody(u)
                             /\ pc'[u] = "exit" <=> pc[u] = "exit"
                             /\ Starts(u)' <=> Starts(u)
      BY <3>1 DEF InBody, Starts, threadVars
    <3> QED
      BY <3>1, <3>2, SubmitStep DEF threadVars
  <2>7. ASSUME UNCHANGED <<queue, life, coro, defer, cur, pc, handler>>
        PROVE  TaskOf' = TaskOf /\ CurrentOf' = CurrentOf /\ StartersOf' = StartersOf
    <3>1. \A q \in Runners : (Queued(q)' <=> Queued(q)) /\ (Ended(q)' <=> Ended(q))
      BY <2>7 DEF Queued, QueuedAt, Ended
    <3>2. \A q \in Runners : TaskState(q)' = TaskState(q)
      BY <2>7, <3>1, SameTask
    <3>3. \A u \in Threads : Starts(u)' <=> Starts(u)
      BY <2>7 DEF Starts
    <3> QED
      BY <2>7, <3>2, <3>3, SameStarters DEF TaskOf, CurrentOf
  <2>8. ASSUME NEW r \in Runners, Reset(r) \/ \E st \in {"Cancelled", "Timedout"} : SetStatus(r, st)
        PROVE  UNCHANGED Task!vars
    BY <2>7, <2>8 DEF Reset, SetStatus, threadVars, Task!vars
  <2>9. CASE UNCHANGED vars
    BY <2>7, <2>9 DEF vars, runnerVars, threadVars, Task!vars
  <2>10. CASE WaitAllBegin
    <3>1. TaskOf' = TaskOf /\ CurrentOf' = CurrentOf /\ StartersOf' = StartersOf
      BY <2>7, <2>10 DEF WaitAllBegin, runnerVars, threadVars
    <3>2. Task!WaitAllBegin
      BY <2>10, <3>1 DEF WaitAllBegin, Task!WaitAllBegin
    <3> QED
      BY <3>2 DEF Task!Next
  <2>11. CASE WaitAllReturn
    <3>1. TaskOf' = TaskOf /\ CurrentOf' = CurrentOf /\ StartersOf' = StartersOf
      BY <2>7, <2>11 DEF WaitAllReturn, runnerVars, threadVars
    <3>2. Alive = {}
      <4>1. count = 0
        BY <2>11 DEF WaitAllReturn
      <4>2. Alive # {} => count > 0
        BY CountPositive
      <4> QED
        BY <4>1, <4>2
    <3>3. \A r \in Runners : TaskOf[r] \in {"absent", "done"}
      <4> SUFFICES ASSUME NEW r \in Runners PROVE TaskState(r) \in {"absent", "done"}
        BY DEF TaskOf
      <4>1. life[r] \in {"none", "dying", "deleted"}
        BY <2>0, <3>2 DEF TypeOK, Lives, Alive
      <4>2. life[r] \in {"dying", "deleted"} => coro[r] # "running" /\ Ended(r)
        BY <2>0 DEF CoroInv, Ended
      <4> QED
        BY <4>1, <4>2 DEF TaskState
    <3>4. Task!WaitAllReturn
      BY <2>11, <3>1, <3>3 DEF WaitAllReturn, Task!WaitAllReturn
    <3> QED
      BY <3>4 DEF Task!Next
  <2> QED
    BY <2>1, <2>2, <2>3, <2>4, <2>5, <2>6, <2>8, <2>9, <2>10, <2>11 DEF Next, Environment, Terminated
<1> QED
  BY <1>1, <1>2, Invariance, CoroutineInvariance, PTL DEF Spec, ImplementsTask, Task!Spec


-----------------------------------------------------------------------------
(* The coroutines of the runners, as CoroHelper sees them. *)

\* The body that thread t is inside of.
Activation(t) == [coro |-> cur[t], resumed |-> frame[t].resumed, old |-> frame[t].old]

\* Taking the only frame off a stack leaves none.
LEMMA PopOne ==
    ASSUME NEW x
    PROVE  SubSeq(<<x>>, 1, Len(<<x>>) - 1) = <<>>
<1>1. <<x>> \in Seq({x}) /\ Len(<<x>>) = 1
  OBVIOUS
<1>2. Len(<<x>>) - 1 = 0
  BY <1>1
<1>3. SubSeq(<<x>>, 1, 0) \in Seq({x}) /\ Len(SubSeq(<<x>>, 1, 0)) = 0
  BY <1>1, SubSeqProperties
<1> QED
  BY <1>2, <1>3, EmptySeq

\* A coroutine that is not running is on no stack.
LEMMA NotRunningNotOnStack ==
    ASSUME IInv, NEW r \in Runners, coro[r] # "running"
    PROVE  ~Coroutines!OnSomeStack(r)
<1>1. SUFFICES ASSUME NEW t \in Threads, NEW i \in DOMAIN StackOf[t], StackOf[t][i].coro = r
               PROVE  FALSE
  BY DEF Coroutines!OnSomeStack
<1>2. InBody(t)
  BY <1>1 DEF StackOf, InBody
<1>3. StackOf[t] = <<Activation(t)>>
  BY <1>2 DEF StackOf, InBody, Activation
<1>4. i = 1
  BY <1>1, <1>3
<1>5. cur[t] = r
  BY <1>1, <1>3, <1>4 DEF Activation
<1>6. coro[cur[t]] = "running"
  BY <1>2, Inside DEF InBody
<1> QED
  BY <1>5, <1>6

\* A step that moves no thread into or out of a body leaves the stacks alone.
LEMMA SameStack ==
    ASSUME \A t \in Threads : InBody(t)' <=> InBody(t),
           \A t \in Threads : InBody(t) => cur'[t] = cur[t] /\ frame'[t] = frame[t]
    PROVE  StackOf' = StackOf
BY DEF StackOf, InBody

\* A step of one thread changes that thread's stack only.
LEMMA OneStack ==
    ASSUME NEW t \in Threads, NEW x, StackOf'[t] = x,
           \A u \in Threads \ {t} : pc'[u] = pc[u] /\ cur'[u] = cur[u] /\ frame'[u] = frame[u]
    PROVE  StackOf' = [StackOf EXCEPT ![t] = x]
<1>1. \A u \in Threads \ {t} : StackOf'[u] = StackOf[u]
  BY DEF StackOf
<1>2. StackOf' = [u \in Threads |-> StackOf'[u]] /\ StackOf = [u \in Threads |-> StackOf[u]]
  BY DEF StackOf
<1> QED
  BY <1>1, <1>2

\* A handler that a thread takes starts or resumes a coroutine.
LEMMA CoroutineEnter ==
    ASSUME IInv, IInv', RInv, NEW t \in Threads, NEW s \in Schedulers, Dispatch(t, s)
    PROVE  \E r \in Runners : Coroutines!Start(t, r) \/ Coroutines!Resume(t, r)
<1>0. TypeOK
  BY DEF IInv
<1>1. PICK r \in Runners :
              /\ pc[t] = "idle" /\ cur' = [cur EXCEPT ![t] = r]
              /\ coro[r] \in {"empty", "suspended"}
              /\ coro' = [coro EXCEPT ![r] = "running"]
              /\ tlsCoro' = [tlsCoro EXCEPT ![t] = r]
              /\ \/ coro[r] = "empty" /\ frame' = [frame EXCEPT ![t] = NoFrame]
                 \/ /\ coro[r] = "suspended"
                    /\ frame' = [frame EXCEPT ![t] = [resumed |-> TRUE, old |-> tlsCoro[t]]]
              /\ pc' = [pc EXCEPT ![t] = pc'[t]] /\ pc'[t] \in {"body", "unwind"}
  BY Entered
<1>2. StackOf[t] = <<>>
  BY <1>1 DEF StackOf
<1>3. Coroutines!MayEnter(t, r)
  <2>1. ~Coroutines!OnSomeStack(r)
    BY <1>1, NotRunningNotOnStack
  <2> QED
    BY <1>1, <1>2, <2>1 DEF Coroutines!MayEnter
<1>4. \A u \in Threads \ {t} : pc'[u] = pc[u] /\ cur'[u] = cur[u] /\ frame'[u] = frame[u]
  BY <1>0, <1>1 DEF TypeOK
<1>5. cur'[t] = r
  BY <1>0, <1>1 DEF TypeOK
<1>6. ASSUME NEW x \in Frame, frame' = [frame EXCEPT ![t] = x]
      PROVE  StackOf' = [StackOf EXCEPT ![t] =
                Append(@, [coro |-> r, resumed |-> x.resumed, old |-> x.old])]
  <2>1. frame'[t] = x
    BY <1>0, <1>6 DEF TypeOK
  <2>2. StackOf'[t] = <<[coro |-> r, resumed |-> x.resumed, old |-> x.old]>>
    BY <1>1, <1>5, <2>1 DEF StackOf
  <2>3. Append(<<>>, [coro |-> r, resumed |-> x.resumed, old |-> x.old])
          = <<[coro |-> r, resumed |-> x.resumed, old |-> x.old]>>
    OBVIOUS
  <2>4. StackOf' = [StackOf EXCEPT ![t] = <<[coro |-> r, resumed |-> x.resumed, old |-> x.old]>>]
    BY <1>4, <2>2, OneStack
  <2> QED
    BY <1>2, <2>3, <2>4
<1>7. CASE coro[r] = "empty" /\ frame' = [frame EXCEPT ![t] = NoFrame]
  <2>1. NoFrame \in Frame /\ NoFrame.resumed = FALSE /\ NoFrame.old = Null
    BY DEF NoFrame, Frame
  <2>2. StackOf' = [StackOf EXCEPT ![t] = Append(@, [coro |-> r, resumed |-> FALSE, old |-> Null])]
    BY <1>6, <1>7, <2>1
  <2>3. Coroutines!Start(t, r)
    BY <1>1, <1>3, <2>2 DEF Coroutines!Start
  <2> QED
    BY <2>3
<1>8. CASE /\ coro[r] = "suspended"
           /\ frame' = [frame EXCEPT ![t] = [resumed |-> TRUE, old |-> tlsCoro[t]]]
  <2>1. [resumed |-> TRUE, old |-> tlsCoro[t]] \in Frame
    BY <1>0 DEF TypeOK, Frame
  <2>2. StackOf' = [StackOf EXCEPT ![t] =
                      Append(@, [coro |-> r, resumed |-> TRUE, old |-> tlsCoro[t]])]
    BY <1>6, <1>8, <2>1
  <2>3. Coroutines!Resume(t, r)
    BY <1>1, <1>3, <1>8, <2>2 DEF Coroutines!Resume
  <2> QED
    BY <2>3
<1> QED
  BY <1>1, <1>7, <1>8


\* A call of a body yields or ends its coroutine, or leaves it running.
LEMMA CoroutineLeave ==
    ASSUME IInv, NEW t \in Threads, (Body(t) /\ ~RunAsync(t)) \/ Finish(t)
    PROVE  Coroutines!Yield(t) \/ Coroutines!Return(t) \/ UNCHANGED <<coro, tlsCoro, StackOf>>
<1>0. TypeOK
  BY DEF IInv
<1>1. InBody(t) /\ cur' = cur
  BY Leaves
<1>2. PICK r \in Runners : r = cur[t] /\ tlsCoro[t] = r
  BY <1>1, Inside DEF InBody
<1>3. /\ StackOf[t] = <<Activation(t)>> /\ StackOf[t] # <<>>
      /\ Coroutines!Top(t) = Activation(t) /\ Coroutines!Pop(StackOf[t]) = <<>>
  <2>1. StackOf[t] = <<Activation(t)>>
    BY <1>1 DEF StackOf, InBody, Activation
  <2>2. <<Activation(t)>> # <<>> /\ <<Activation(t)>>[Len(<<Activation(t)>>)] = Activation(t)
    OBVIOUS
  <2> QED
    BY <2>1, <2>2, PopOne DEF Coroutines!Top, Coroutines!Pop
<1>4. Activation(t).coro = r /\ Activation(t).resumed = frame[t].resumed /\ Activation(t).old = frame[t].old
  BY <1>2 DEF Activation
<1>5. ASSUME UNCHANGED <<coro, tlsCoro, frame>>, pc' = [pc EXCEPT ![t] = pc'[t]], InBody(t)'
      PROVE  UNCHANGED <<coro, tlsCoro, StackOf>>
  <2>1. \A u \in Threads \ {t} : pc'[u] = pc[u]
    BY <1>0, <1>5 DEF TypeOK
  <2>2. \A u \in Threads : InBody(u)' <=> InBody(u)
    BY <1>1, <1>5, <2>1 DEF InBody
  <2>3. StackOf' = StackOf
    BY <1>1, <1>5, <2>2, SameStack
  <2> QED
    BY <1>5, <2>3
<1>6. ASSUME pc' = [pc EXCEPT ![t] = "exit"], frame' = [frame EXCEPT ![t] = NoFrame]
      PROVE  StackOf' = [StackOf EXCEPT ![t] = Coroutines!Pop(@)]
  <2>1. \A u \in Threads \ {t} : pc'[u] = pc[u] /\ cur'[u] = cur[u] /\ frame'[u] = frame[u]
    BY <1>0, <1>1, <1>6 DEF TypeOK
  <2>2. StackOf'[t] = <<>>
    BY <1>0, <1>6 DEF StackOf, TypeOK
  <2>3. StackOf' = [StackOf EXCEPT ![t] = <<>>]
    BY <2>1, <2>2, OneStack
  <2> QED
    BY <1>3, <2>3
<1>7. ASSUME pc' = [pc EXCEPT ![t] = "exit"], frame' = [frame EXCEPT ![t] = NoFrame],
             coro' = [coro EXCEPT ![cur[t]] = "suspended"],
             tlsCoro' = [tlsCoro EXCEPT ![t] = IF frame[t].resumed THEN frame[t].old ELSE @]
      PROVE  Coroutines!Yield(t)
  <2>1. StackOf' = [StackOf EXCEPT ![t] = Coroutines!Pop(@)]
    BY <1>6, <1>7
  <2>2. tlsCoro' = [tlsCoro EXCEPT ![t] = Coroutines!PointerAfter(t, tlsCoro[t])]
    BY <1>3, <1>4, <1>7 DEF Coroutines!PointerAfter
  <2> QED
    BY <1>2, <1>3, <1>4, <1>7, <2>1, <2>2 DEF Coroutines!Yield
<1>8. ASSUME pc' = [pc EXCEPT ![t] = "exit"], frame' = [frame EXCEPT ![t] = NoFrame],
             coro' = [coro EXCEPT ![cur[t]] = "finished"],
             tlsCoro' = [tlsCoro EXCEPT ![t] = IF frame[t].resumed THEN frame[t].old ELSE Null]
      PROVE  Coroutines!Return(t)
  <2>1. StackOf' = [StackOf EXCEPT ![t] = Coroutines!Pop(@)]
    BY <1>6, <1>8
  <2>2. tlsCoro' = [tlsCoro EXCEPT ![t] = Coroutines!PointerAfter(t, Null)]
    BY <1>3, <1>4, <1>8 DEF Coroutines!PointerAfter
  <2> QED
    BY <1>2, <1>3, <1>4, <1>8, <2>1, <2>2 DEF Coroutines!Return
<1> QED
  BY <1>5, <1>7, <1>8, Leaves

\* OnExit touches a coroutine only to destroy it with its runner.
LEMMA CoroutineExit ==
    ASSUME IInv, RInv, NEW t \in Threads, OnExit(t)
    PROVE  (\E r \in Runners : Coroutines!Destroy(t, r)) \/ UNCHANGED <<coro, tlsCoro, StackOf>>
<1>0. TypeOK
  BY DEF IInv
<1>1. ~InBody(t) /\ ~InBody(t)' /\ \A u \in Threads \ {t} : InBody(u)' <=> InBody(u)
  BY <1>0 DEF OnExit, OnExitTake, OnExitRunAsync, OnExitCall, OnExitReturn, OnExitDelete,
     DestroyMembers, OnExitClear, InBody, TypeOK
<1>2. frame' = frame /\ \A u \in Threads \ {t} : cur'[u] = cur[u]
  BY <1>0 DEF OnExit, OnExitTake, OnExitRunAsync, OnExitCall, OnExitReturn, OnExitDelete,
     DestroyMembers, OnExitClear, TypeOK
<1>3. StackOf' = StackOf
  BY <1>1, <1>2, SameStack
<1>4. CASE DestroyMembers(t)
  <2>1. PICK r \in Runners : r = cur[t] /\ life[r] = "dying"
    BY <1>4, Inside DEF DestroyMembers, IInv, ThreadInv
  <2>2. coro[r] \in {"suspended", "finished"}
    BY <2>1 DEF RInv, CoroInv
  <2>3. ~Coroutines!OnSomeStack(r)
    BY <2>2, NotRunningNotOnStack
  <2>4. StackOf[t] = <<>> /\ Len(<<>>) < 1
    BY <1>1 DEF StackOf, InBody
  <2>5. coro' = [coro EXCEPT ![r] = "destroyed"]
    BY <1>4, <2>1 DEF DestroyMembers
  <2>6. tlsCoro' = IF coro[r] = "suspended" THEN [tlsCoro EXCEPT ![t] = Null] ELSE tlsCoro
    BY <1>0, <1>4, <2>1 DEF DestroyMembers, TypeOK
  <2>7. Coroutines!Destroy(t, r)
    BY <1>3, <2>2, <2>3, <2>4, <2>5, <2>6 DEF Coroutines!Destroy
  <2> QED
    BY <2>7
<1>5. CASE ~DestroyMembers(t)
  <2>1. UNCHANGED <<coro, tlsCoro>>
    BY <1>5 DEF OnExit, OnExitTake, OnExitRunAsync, OnExitCall, OnExitReturn, OnExitDelete, OnExitClear,
                Create, runnerVars
  <2> QED
    BY <1>3, <2>1
<1> QED
  BY <1>4, <1>5

\* The runners use CoroHelper as the class requires: every step of theirs is
\* a legal call of one coroutine, made outside of all others, or none at all;
\* what CoroHelperProofs shows of such users (Yield suspends the body that
\* calls it) therefore holds of the runners.
THEOREM CoroutineUse == Spec => UsesCoroutines
<1>1. Init => Coroutines!Init
  BY DEF Init, Coroutines!Init, StackOf
<1>2. ASSUME IInv, IInv', RInv, [Next]_vars
      PROVE  [Coroutines!Next]_(Coroutines!vars)
  <2>0. SUFFICES Coroutines!Next \/ UNCHANGED <<coro, tlsCoro, StackOf>>
    BY DEF Coroutines!vars
  <2>1. ASSUME NEW t \in Threads, NEW s \in Schedulers, Dispatch(t, s) PROVE Coroutines!Next
    BY <1>2, <2>1, CoroutineEnter DEF Coroutines!Next
  <2>2. ASSUME NEW t \in Threads, (Body(t) /\ ~RunAsync(t)) \/ Finish(t)
        PROVE  Coroutines!Next \/ UNCHANGED <<coro, tlsCoro, StackOf>>
    BY <1>2, <2>2, CoroutineLeave DEF Coroutines!Next
  <2>3. ASSUME NEW t \in Threads, OnExit(t)
        PROVE  Coroutines!Next \/ UNCHANGED <<coro, tlsCoro, StackOf>>
    BY <1>2, <2>3, CoroutineExit DEF Coroutines!Next
  <2>4. ASSUME UNCHANGED <<coro, threadVars>>
        PROVE  UNCHANGED <<coro, tlsCoro, StackOf>>
    BY <2>4 DEF threadVars, StackOf
  <2>5. ASSUME NEW t \in Threads, RunAsync(t) PROVE UNCHANGED <<coro, threadVars>>
    BY <2>5 DEF RunAsync, Create
  <2>6. CASE \E r \in Runners : IoComplete(r)
    BY <2>4, <2>6 DEF IoComplete, runnerVars
  <2>7. CASE Environment
    BY <2>4, <2>7 DEF Environment, RunAsyncMain, Create, WaitAllBegin, SetStatus, Reset, runnerVars
  <2>8. CASE WaitAllReturn \/ Terminated \/ UNCHANGED vars
    BY <2>4, <2>8 DEF WaitAllReturn, Terminated, vars, runnerVars
  <2> QED
    BY <1>2, <2>1, <2>2, <2>3, <2>4, <2>5, <2>6, <2>7, <2>8 DEF Next
<1> QED
  BY <1>1, <1>2, Invariance, CoroutineInvariance, PTL DEF Spec, UsesCoroutines, Coroutines!Spec

=============================================================================
