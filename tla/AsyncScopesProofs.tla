-------------------------- MODULE AsyncScopesProofs --------------------------
(***************************************************************************)
(* Proofs of the safety properties of AsyncScopes, for every set of        *)
(* operations, threads, schedulers and timers.                             *)
(***************************************************************************)
EXTENDS AsyncScopes, SequenceTheorems, TLAPS

-----------------------------------------------------------------------------
(* The inductive invariant. *)

\* A posted continuation is that of a queued operation, posted where its
\* scheduler_ says, and posted once.
QueueInv ==
    /\ \A s \in Schedulers : \A i \in DOMAIN queue[s] :
          place[queue[s][i]] = "queued" /\ scheduler[queue[s][i]] = s
    /\ \A s, q \in Schedulers : \A i \in DOMAIN queue[s], j \in DOMAIN queue[q] :
          queue[s][i] = queue[q][j] => s = q /\ i = j

\* Where an operation is goes with what it has: scopes and a scheduler once it
\* was started, and a thread of its own.
PlaceInv ==
    /\ \A o \in Ops : place[o] = "absent" => scopes[o] = <<>> /\ resume[o] = "start"
    /\ \A o \in Ops : place[o] # "absent" => scheduler[o] \in Schedulers
    /\ \A o \in Ops : place[o] = "waiting" => resume[o] = "wait"
    /\ \A o, p \in Ops : thread[o] = thread[p] /\ thread[o] # Null => o = p

\* An operation that a proxy is switching is inside that proxy.
ResumeInv ==
    \A o \in Ops :
        place[o] = "queued" /\ resume[o] \in {"enter", "leave"} =>
            /\ scopes[o] # <<>> /\ Last(scopes[o]).kind = "proxy"
            /\ resume[o] = "leave" => scheduler[o] = Last(scopes[o]).source

\* A Timeout has a timer and the others have not; a proxy has two schedulers.
ScopeInv ==
    \A o \in Ops : \A i \in DOMAIN scopes[o] :
        /\ scopes[o][i].kind = "timeout" => scopes[o][i].timer \in Timers
        /\ scopes[o][i].kind # "timeout" => scopes[o][i].timer = Null
        /\ scopes[o][i].kind = "proxy" =>
              scopes[o][i].source \in Schedulers /\ scopes[o][i].destination \in Schedulers

\* An operation that does not nest guards is in at most one.
OneGuard ==
    \A o \in Ops : ~nested[o] => \A i, j \in DOMAIN scopes[o] :
        scopes[o][i].kind = "guard" /\ scopes[o][j].kind = "guard" => i = j

GuardInv == OneGuard /\ EventsFollowGuards

\* Whoever will still write over a status had looked before it was set.
RivalInv == \A o \in Ops : status[o] # "Normal" => Setters(o) \subseteq rivals[o]

\* s is the scheduler that the first n of the scopes sc leave an operation in
\* that was started on h.
InContext(h, sc, n, s) ==
    \/ s = h /\ \A i \in 1 .. n : sc[i].kind # "proxy"
    \/ \E i \in 1 .. n :
          /\ sc[i].kind = "proxy" /\ s = sc[i].destination
          /\ \A j \in i + 1 .. n : sc[j].kind # "proxy"

\* The scheduler a proxy goes back to is the context it was made in.
Chained(o) ==
    ~caught[o] =>
        \A i \in DOMAIN scopes[o] :
            scopes[o][i].kind = "proxy" => InContext(home[o], scopes[o], i - 1, scopes[o][i].source)

\* scheduler_ is the context, except while a proxy switches back and once an
\* event was thrown.
InItsContext(o) ==
    /\ ~caught[o] /\ flight[o] # "event" /\ place[o] # "ended"
    /\ ~(place[o] = "queued" /\ resume[o] = "leave")
    => InContext(home[o], scopes[o], Len(scopes[o]), scheduler[o])

\* An operation runs where its scheduler_ says, unless an event was thrown.
OnItsThread(o) ==
    place[o] = "running" /\ ~caught[o] /\ flight[o] # "event" =>
        thread[o] \in ThreadsOf[scheduler[o]]

ContextInv == \A o \in Ops : Chained(o) /\ InItsContext(o) /\ OnItsThread(o)

\* Until an exception is carried to another thread, std::uncaught_exception
\* tells whether the operation on the thread has one in flight.
UncaughtInv ==
    ~carried =>
        /\ \A o \in Ops : flight[o] # "none" => place[o] = "running"
        /\ \A t \in Threads :
              uncaught[t] = IF \E o \in Ops : thread[o] = t /\ flight[o] # "none" THEN 1 ELSE 0

Undisturbed == ~struck /\ ~carried /\ \A o \in Ops : ~caught[o]

\* A proxy that switches changes the scheduler.
LeaveInv ==
    \A o \in Ops :
        Undisturbed /\ place[o] = "queued" /\ resume[o] = "leave" =>
            Last(scopes[o]).source # Last(scopes[o]).destination

\* A status is set only outside of guards and of proxies that switch.
EventInv ==
    Undisturbed =>
        \A o \in Ops : status[o] # "Normal" =>
            \A i \in DOMAIN scopes[o] :
                /\ scopes[o][i].kind # "guard"
                /\ scopes[o][i].kind = "proxy" => scopes[o][i].source = scopes[o][i].destination

CalmInv == LeaveInv /\ EventInv /\ Survives

StructInv == TypeOK /\ QueueInv /\ PlaceInv /\ ResumeInv /\ ScopeInv

ScopesInv ==
    /\ StructInv
    /\ GuardInv
    /\ RivalInv
    /\ ContextInv
    /\ UncaughtInv /\ CalmInv

-----------------------------------------------------------------------------
(* Scopes as stacks. *)

\* What Front and Last give for a stack that is not empty.
LEMMA PopSeq ==
    ASSUME NEW S, NEW s \in Seq(S), s # <<>>
    PROVE  /\ Len(s) \in Nat \ {0} /\ Last(s) = s[Len(s)] /\ Last(s) \in S
           /\ Front(s) \in Seq(S) /\ Len(Front(s)) = Len(s) - 1
           /\ \A i \in 1 .. Len(s) - 1 : Front(s)[i] = s[i]
<1>1. Len(s) \in Nat \ {0} /\ Last(s) = s[Len(s)] /\ Last(s) \in S
  BY DEF Last
<1>2. 1 \in 1 .. Len(s) + 1 /\ Len(s) - 1 \in 0 .. Len(s)
  BY <1>1
<1>3. Front(s) = SubSeq(s, 1, Len(s) - 1)
  BY DEF Front
<1>4. Front(s) \in Seq(S)
  BY <1>1, <1>3
<1>5. Len(Front(s)) = Len(s) - 1 /\ \A i \in 1 .. Len(s) - 1 : Front(s)[i] = s[i]
  <2>1. PICK n \in Nat : n = Len(s) - 1
    BY <1>1
  <2>2. \A i \in 1 .. n : s[i] \in S
    BY <1>1, <2>1
  <2>3. /\ Len(SubSeq(s, 1, n)) = IF 1 <= n THEN n - 1 + 1 ELSE 0
        /\ \A i \in 1 .. n - 1 + 1 : SubSeq(s, 1, n)[i] = s[1 + i - 1]
    BY <2>2, SubSeqProperties
  <2>4. n - 1 + 1 = n /\ \A i \in 1 .. n : 1 + i - 1 = i
    OBVIOUS
  <2>5. Len(SubSeq(s, 1, n)) = n
    BY <2>3, <2>4
  <2>6. \A i \in 1 .. n : SubSeq(s, 1, n)[i] = s[i]
    BY <2>3, <2>4
  <2> QED
    BY <1>3, <2>1, <2>5, <2>6
<1> QED
  BY <1>1, <1>4, <1>5

\* Entering a scope.
LEMMA Pushed ==
    ASSUME TypeOK, NEW o \in Ops, NEW x \in Scope, Push(o, x)
    PROVE  /\ scopes' \in [Ops -> Seq(Scope)]
           /\ \A p \in Ops \ {o} : scopes'[p] = scopes[p]
           /\ Len(scopes[o]) \in Nat /\ Len(scopes'[o]) = Len(scopes[o]) + 1
           /\ scopes'[o][Len(scopes[o]) + 1] = x
           /\ \A i \in 1 .. Len(scopes[o]) : scopes'[o][i] = scopes[o][i]
           /\ scopes'[o] # <<>> /\ Last(scopes'[o]) = x
<1>1. scopes[o] \in Seq(Scope) /\ scopes'[o] = Append(scopes[o], x)
  BY DEF TypeOK, Push
<1>2. scopes' \in [Ops -> Seq(Scope)] /\ \A p \in Ops \ {o} : scopes'[p] = scopes[p]
  BY <1>1 DEF TypeOK, Push
<1>3. /\ Len(scopes[o]) \in Nat /\ Len(scopes'[o]) = Len(scopes[o]) + 1
      /\ scopes'[o][Len(scopes[o]) + 1] = x
      /\ \A i \in 1 .. Len(scopes[o]) : scopes'[o][i] = scopes[o][i]
      /\ scopes'[o] # <<>>
  BY <1>1, AppendProperties
<1>4. Last(scopes'[o]) = x
  BY <1>3 DEF Last
<1> QED
  BY <1>2, <1>3, <1>4

\* Leaving the innermost scope.
LEMMA Popped ==
    ASSUME TypeOK, NEW o \in Ops, scopes[o] # <<>>, Pop(o)
    PROVE  /\ scopes' \in [Ops -> Seq(Scope)]
           /\ \A p \in Ops \ {o} : scopes'[p] = scopes[p]
           /\ Len(scopes[o]) \in Nat \ {0} /\ Len(scopes'[o]) = Len(scopes[o]) - 1
           /\ Last(scopes[o]) = scopes[o][Len(scopes[o])] /\ Last(scopes[o]) \in Scope
           /\ \A i \in 1 .. Len(scopes[o]) - 1 : scopes'[o][i] = scopes[o][i]
<1>1. scopes[o] \in Seq(Scope) /\ scopes'[o] = Front(scopes[o])
  BY DEF TypeOK, Pop
<1>2. \A p \in Ops \ {o} : scopes'[p] = scopes[p]
  BY DEF TypeOK, Pop
<1>3. scopes' \in [Ops -> Seq(Scope)]
  BY <1>1, PopSeq DEF TypeOK, Pop
<1>4. /\ Len(scopes[o]) \in Nat \ {0} /\ Len(scopes'[o]) = Len(scopes[o]) - 1
      /\ Last(scopes[o]) = scopes[o][Len(scopes[o])] /\ Last(scopes[o]) \in Scope
      /\ \A i \in 1 .. Len(scopes[o]) - 1 : scopes'[o][i] = scopes[o][i]
  BY <1>1, PopSeq
<1> QED
  BY <1>2, <1>3, <1>4

\* Popped, for quantifiers over the stack.
LEMMA PoppedDomain ==
    ASSUME TypeOK, NEW o \in Ops, scopes[o] # <<>>, Pop(o)
    PROVE  /\ \A p \in Ops \ {o} : scopes'[p] = scopes[p]
           /\ \A i \in DOMAIN scopes'[o] : i \in DOMAIN scopes[o] /\ scopes'[o][i] = scopes[o][i]
           /\ \A i \in DOMAIN scopes[o] : i = Len(scopes[o]) \/ i \in DOMAIN scopes'[o]
           /\ Len(scopes[o]) \in DOMAIN scopes[o] /\ Len(scopes[o]) \notin DOMAIN scopes'[o]
           /\ Last(scopes[o]) = scopes[o][Len(scopes[o])]
<1>1. /\ scopes'[o] \in Seq(Scope) /\ scopes[o] \in Seq(Scope)
      /\ Len(scopes[o]) \in Nat \ {0} /\ Len(scopes'[o]) = Len(scopes[o]) - 1
      /\ Last(scopes[o]) = scopes[o][Len(scopes[o])]
      /\ \A i \in 1 .. Len(scopes[o]) - 1 : scopes'[o][i] = scopes[o][i]
      /\ \A p \in Ops \ {o} : scopes'[p] = scopes[p]
  BY Popped DEF TypeOK
<1>2. DOMAIN scopes[o] = 1 .. Len(scopes[o])
  BY <1>1, LenProperties
<1>3. DOMAIN scopes'[o] = 1 .. Len(scopes[o]) - 1
  <2>1. DOMAIN scopes'[o] = 1 .. Len(scopes'[o])
    BY <1>1, LenProperties
  <2> QED
    BY <1>1, <2>1
<1>4. /\ \A i \in 1 .. Len(scopes[o]) - 1 : i \in 1 .. Len(scopes[o])
      /\ \A i \in 1 .. Len(scopes[o]) : i = Len(scopes[o]) \/ i \in 1 .. Len(scopes[o]) - 1
      /\ Len(scopes[o]) \in 1 .. Len(scopes[o]) /\ Len(scopes[o]) \notin 1 .. Len(scopes[o]) - 1
  BY <1>1
<1> QED
  BY <1>1, <1>2, <1>3, <1>4

\* Pushed, for quantifiers over the stack.
LEMMA PushedDomain ==
    ASSUME TypeOK, NEW o \in Ops, NEW x \in Scope, Push(o, x)
    PROVE  /\ \A p \in Ops \ {o} : scopes'[p] = scopes[p]
           /\ \A i \in DOMAIN scopes'[o] :
                 \/ i \in DOMAIN scopes[o] /\ scopes'[o][i] = scopes[o][i]
                 \/ i = Len(scopes[o]) + 1 /\ scopes'[o][i] = x
           /\ \A i \in DOMAIN scopes[o] : i \in DOMAIN scopes'[o] /\ scopes'[o][i] = scopes[o][i]
           /\ Len(scopes[o]) + 1 \in DOMAIN scopes'[o] /\ scopes'[o][Len(scopes[o]) + 1] = x
<1>1. /\ scopes'[o] \in Seq(Scope) /\ scopes[o] \in Seq(Scope)
      /\ Len(scopes[o]) \in Nat /\ Len(scopes'[o]) = Len(scopes[o]) + 1
      /\ scopes'[o][Len(scopes[o]) + 1] = x
      /\ \A i \in 1 .. Len(scopes[o]) : scopes'[o][i] = scopes[o][i]
      /\ \A p \in Ops \ {o} : scopes'[p] = scopes[p]
  BY Pushed DEF TypeOK
<1>2. DOMAIN scopes[o] = 1 .. Len(scopes[o])
  BY <1>1, LenProperties
<1>3. DOMAIN scopes'[o] = 1 .. Len(scopes[o]) + 1
  <2>1. DOMAIN scopes'[o] = 1 .. Len(scopes'[o])
    BY <1>1, LenProperties
  <2> QED
    BY <1>1, <2>1
<1>4. /\ \A i \in 1 .. Len(scopes[o]) : i \in 1 .. Len(scopes[o]) + 1
      /\ \A i \in 1 .. Len(scopes[o]) + 1 : i = Len(scopes[o]) + 1 \/ i \in 1 .. Len(scopes[o])
      /\ Len(scopes[o]) + 1 \in 1 .. Len(scopes[o]) + 1
  BY <1>1
<1> QED
  BY <1>1, <1>2, <1>3, <1>4

\* The innermost scope.
LEMMA LastScope ==
    ASSUME TypeOK, NEW o \in Ops, scopes[o] # <<>>
    PROVE  /\ Len(scopes[o]) \in DOMAIN scopes[o] /\ Len(scopes[o]) \in Nat \ {0}
           /\ Last(scopes[o]) = scopes[o][Len(scopes[o])]
<1>1. scopes[o] \in Seq(Scope)
  BY DEF TypeOK
<1>2. Len(scopes[o]) \in Nat \ {0} /\ Last(scopes[o]) = scopes[o][Len(scopes[o])]
  BY <1>1, PopSeq
<1> QED
  BY <1>1, <1>2

\* The scopes have their type.
LEMMA ScopeTypes ==
    /\ Guard \in Scope /\ Guard.kind = "guard" /\ Guard.timer = Null
    /\ \A k \in Timers : TimeoutOf(k) \in Scope /\ TimeoutOf(k).kind = "timeout" /\ TimeoutOf(k).timer = k
    /\ \A s, q \in Schedulers :
          /\ Proxy(s, q) \in Scope /\ Proxy(s, q).kind = "proxy" /\ Proxy(s, q).timer = Null
          /\ Proxy(s, q).source = s /\ Proxy(s, q).destination = q
BY DEF Guard, TimeoutOf, Proxy, Scope

\* The operation at the head of a queue, and the queue without it.
LEMMA Taken ==
    ASSUME TypeOK, QueueInv, NEW s \in Schedulers, queue[s] # <<>>
    PROVE  /\ Head(queue[s]) \in Ops
           /\ place[Head(queue[s])] = "queued" /\ scheduler[Head(queue[s])] = s
           /\ Tail(queue[s]) \in Seq(Ops) /\ Len(Tail(queue[s])) = Len(queue[s]) - 1
           /\ \A i \in 1 .. Len(queue[s]) - 1 :
                 Tail(queue[s])[i] = queue[s][i + 1] /\ Tail(queue[s])[i] # Head(queue[s])
<1>1. queue[s] \in Seq(Ops) /\ Len(queue[s]) \in Nat \ {0}
  BY DEF TypeOK
<1>2. Head(queue[s]) = queue[s][1] /\ 1 \in DOMAIN queue[s]
  BY <1>1
<1>3. /\ Tail(queue[s]) \in Seq(Ops) /\ Len(Tail(queue[s])) = Len(queue[s]) - 1
      /\ \A i \in 1 .. Len(queue[s]) - 1 : Tail(queue[s])[i] = queue[s][i + 1]
  BY <1>1, HeadTailProperties
<1>4. \A i \in 1 .. Len(queue[s]) - 1 : queue[s][i + 1] # queue[s][1]
  <2> SUFFICES ASSUME NEW i \in 1 .. Len(queue[s]) - 1 PROVE queue[s][i + 1] # queue[s][1]
    OBVIOUS
  <2>1. i + 1 \in DOMAIN queue[s] /\ i + 1 # 1
    BY <1>1
  <2> QED
    BY <1>2, <2>1 DEF QueueInv
<1> QED
  BY <1>1, <1>2, <1>3, <1>4 DEF QueueInv


-----------------------------------------------------------------------------
(* Type correctness. *)

\* A running operation is on a thread, and its thread is its own.
LEMMA OnThread ==
    ASSUME TypeOK, PlaceInv, NEW o \in Ops, place[o] = "running"
    PROVE  /\ thread[o] \in Threads /\ scheduler[o] \in Schedulers
           /\ \A p \in Ops \ {o} : thread[p] # thread[o]
BY DEF TypeOK, PlaceInv

\* The body of an operation keeps the types.
LEMMA TypeBody ==
    ASSUME TypeOK, PlaceInv, ScopeInv, NEW o \in Ops, Body(o)
    PROVE  TypeOK'
<1>0. thread[o] \in Threads /\ scheduler[o] \in Schedulers /\ place[o] = "running"
  BY OnThread DEF Body, HandleEvents, Throw, Catch, Wait, EnterGuard, EnterTimeout, EnterProxy, Call, Running
<1>1. ASSUME NEW t \in Threads, NEW w \in Flights, Raise(o, t, w)
      PROVE  flight' \in [Ops -> Flights] /\ uncaught' \in [Threads -> Int]
  BY <1>1 DEF Raise, TypeOK
<1>2. ASSUME Call(o) PROVE calls' \in [Ops -> 0 .. MaxCalls]
  BY <1>2, ScopesAssumption DEF Call, TypeOK
<1>3. {"event", "other", "none"} = Flights
  BY DEF Flights
<1>4. CASE HandleEvents(o)
  <2>1. flight' \in [Ops -> Flights] /\ uncaught' \in [Threads -> Int] /\ calls' \in [Ops -> 0 .. MaxCalls]
    BY <1>0, <1>1, <1>2, <1>3, <1>4 DEF HandleEvents
  <2> QED
    BY <1>4, <2>1 DEF HandleEvents, TypeOK, stateVars, history
<1>5. CASE Throw(o)
  <2>1. flight' \in [Ops -> Flights] /\ uncaught' \in [Threads -> Int] /\ calls' \in [Ops -> 0 .. MaxCalls]
    BY <1>0, <1>1, <1>2, <1>3, <1>5 DEF Throw
  <2> QED
    BY <1>5, <2>1 DEF Throw, TypeOK, stateVars, history
<1>6. CASE Catch(o)
  <2>1. flight' \in [Ops -> Flights] /\ uncaught' \in [Threads -> Int]
    BY <1>0, <1>3, <1>6 DEF Catch, TypeOK
  <2>2. caught' \in [Ops -> BOOLEAN]
    <3>1. (caught[o] \/ flight[o] = "event") \in BOOLEAN
      OBVIOUS
    <3> QED
      BY <1>6, <3>1 DEF Catch, TypeOK
  <2> QED
    BY <1>6, <2>1, <2>2 DEF Catch, TypeOK, stateVars
<1>7. CASE Wait(o)
  <2>1. calls' \in [Ops -> 0 .. MaxCalls]
    BY <1>2, <1>7 DEF Wait
  <2>2. flight' \in [Ops -> Flights] /\ uncaught' \in [Threads -> Int]
    BY <1>0, <1>1, <1>3, <1>7 DEF Wait, TypeOK
  <2>3. /\ place' \in [Ops -> Places] /\ thread' \in [Ops -> Threads \cup {Null}]
        /\ resume' \in [Ops -> {"start", "wait", "enter", "leave"}]
    BY <1>7 DEF Wait, TypeOK, Places
  <2>4. \A p \in Ops : (thread'[p] # Null) = (place'[p] = "running")
    BY <1>7 DEF Wait, TypeOK
  <2> QED
    BY <1>7, <2>1, <2>2, <2>3, <2>4 DEF Wait, TypeOK, stateVars, history
<1>8. CASE EnterGuard(o)
  <2>1. calls' \in [Ops -> 0 .. MaxCalls]
    BY <1>2, <1>8 DEF EnterGuard
  <2>2. flight' \in [Ops -> Flights] /\ uncaught' \in [Threads -> Int]
    BY <1>0, <1>1, <1>3, <1>8 DEF EnterGuard, DisableEvents, TypeOK
  <2>3. scopes' \in [Ops -> Seq(Scope)] /\ allowed' \in [Ops -> BOOLEAN]
    <3>1. DisableEvents(o)
      BY <1>8 DEF EnterGuard
    <3>2. CASE Throws(o, thread[o])
      BY <3>1, <3>2 DEF DisableEvents, TypeOK
    <3>3. CASE ~Throws(o, thread[o])
      <4>1. Push(o, Guard) /\ allowed' = [allowed EXCEPT ![o] = FALSE]
        BY <3>1, <3>3 DEF DisableEvents
      <4>2. scopes' \in [Ops -> Seq(Scope)]
        BY <4>1, Pushed, ScopeTypes
      <4> QED
        BY <4>1, <4>2 DEF TypeOK
    <3> QED
      BY <3>2, <3>3
  <2> QED
    BY <1>8, <2>1, <2>2, <2>3 DEF EnterGuard, TypeOK, stateVars, history
<1>9. CASE EnterTimeout(o)
  <2>1. calls' \in [Ops -> 0 .. MaxCalls]
    BY <1>2, <1>9 DEF EnterTimeout
  <2>2. scopes' \in [Ops -> Seq(Scope)]
    BY <1>9, Pushed, ScopeTypes DEF EnterTimeout
  <2>3. timer' \in [Timers -> TimerStates] /\ owner' \in [Timers -> Ops \cup {Null}]
    BY <1>9 DEF EnterTimeout, TypeOK, TimerStates
  <2> QED
    BY <1>9, <2>1, <2>2, <2>3 DEF EnterTimeout, TypeOK, runVars, history
<1>10. ASSUME NEW s \in Schedulers, EnterProxy(o, s) PROVE TypeOK'
  <2>1. calls' \in [Ops -> 0 .. MaxCalls] /\ UNCHANGED <<status, allowed, stateVars, terminated, history>>
    BY <1>2, <1>10 DEF EnterProxy
  <2>2. Proxy(scheduler[o], s) \in Scope
    BY <1>0, ScopeTypes
  <2>3. CASE s = scheduler[o]
    <3>1. Push(o, Proxy(scheduler[o], s)) /\ UNCHANGED <<scheduler, flight, runVars>>
      BY <1>10, <2>3 DEF EnterProxy
    <3>2. scopes' \in [Ops -> Seq(Scope)]
      BY <2>2, <3>1, Pushed
    <3> QED
      BY <2>1, <3>1, <3>2 DEF TypeOK, stateVars, history, runVars
  <2>4. CASE s # scheduler[o] /\ Throws(o, thread[o])
    <3>1. /\ scheduler' = [scheduler EXCEPT ![o] = s] /\ Raise(o, thread[o], "event")
          /\ UNCHANGED <<scopes, place, thread, resume, queue>>
      BY <1>10, <2>4 DEF EnterProxy
    <3>2. flight' \in [Ops -> Flights] /\ uncaught' \in [Threads -> Int]
      BY <1>0, <1>1, <1>3, <3>1
    <3> QED
      BY <2>1, <3>1, <3>2 DEF TypeOK, stateVars, history
  <2>5. CASE s # scheduler[o] /\ ~Throws(o, thread[o])
    <3>1. Push(o, Proxy(scheduler[o], s)) /\ Switch(o, s, "enter") /\ UNCHANGED <<flight, uncaught>>
      BY <1>10, <2>5 DEF EnterProxy
    <3>2. scopes' \in [Ops -> Seq(Scope)]
      BY <2>2, <3>1, Pushed
    <3>3. /\ place' \in [Ops -> Places] /\ thread' \in [Ops -> Threads \cup {Null}]
          /\ resume' \in [Ops -> {"start", "wait", "enter", "leave"}]
          /\ scheduler' \in [Ops -> Schedulers \cup {Null}]
      BY <3>1 DEF Switch, TypeOK, Places
    <3>4. queue' \in [Schedulers -> Seq(Ops)]
      BY <3>1 DEF Switch, TypeOK
    <3>5. \A p \in Ops : (thread'[p] # Null) = (place'[p] = "running")
      BY <3>1 DEF Switch, TypeOK
    <3> QED
      BY <2>1, <3>1, <3>2, <3>3, <3>4, <3>5 DEF TypeOK, stateVars, history
  <2> QED
    BY <2>3, <2>4, <2>5
<1> QED
  BY <1>4, <1>5, <1>6, <1>7, <1>8, <1>9, <1>10 DEF Body


\* Leaving scopes, and the operation, keeps the types.
LEMMA TypeLeave ==
    ASSUME TypeOK, PlaceInv, ScopeInv, NEW o \in Ops, Leave(o)
    PROVE  TypeOK'
<1>0. thread[o] \in Threads /\ scheduler[o] \in Schedulers /\ place[o] = "running"
  BY OnThread DEF Leave, LeaveGuard, LeaveTimeout, LeaveProxy, Finish, Leaves, Running
<1>1. ASSUME NEW x, Leaves(o, x), Pop(o)
      PROVE  scopes' \in [Ops -> Seq(Scope)]
  BY <1>1, Popped DEF Leaves
<1>2. CASE LeaveGuard(o)
  <2>1. scopes' \in [Ops -> Seq(Scope)]
    BY <1>1, <1>2 DEF LeaveGuard
  <2>2. allowed' \in [Ops -> BOOLEAN]
    BY <1>2 DEF LeaveGuard, TypeOK
  <2>3. terminated' \in BOOLEAN
    BY <1>2 DEF LeaveGuard
  <2> QED
    BY <1>2, <2>1, <2>2, <2>3 DEF LeaveGuard, TypeOK, runVars, stateVars, history
<1>3. CASE LeaveTimeout(o)
  <2>1. scopes' \in [Ops -> Seq(Scope)]
    BY <1>1, <1>3 DEF LeaveTimeout
  <2>2. timer' \in [Timers -> TimerStates]
    BY <1>3 DEF LeaveTimeout, TypeOK, TimerStates
  <2> QED
    BY <1>3, <2>1, <2>2 DEF LeaveTimeout, TypeOK, runVars, history
<1>4. CASE LeaveProxy(o)
  <2>0. /\ UNCHANGED <<status, allowed, flight, calls, uncaught, stateVars, home, caught, struck, rivals, nested>>
        /\ Leaves(o, "proxy")
    BY <1>4 DEF LeaveProxy
  <2>1. CASE Last(scopes[o]).source = scheduler[o]
    <3>1. Pop(o) /\ UNCHANGED <<scheduler, place, thread, resume, queue, terminated, carried>>
      BY <1>4, <2>1 DEF LeaveProxy
    <3>2. scopes' \in [Ops -> Seq(Scope)]
      BY <1>1, <2>0, <3>1
    <3> QED
      BY <2>0, <3>1, <3>2 DEF TypeOK, stateVars
  <2>2. CASE Last(scopes[o]).source # scheduler[o]
    <3>1. /\ terminated' = Throws(o, thread[o]) /\ Switch(o, Last(scopes[o]).source, "leave")
          /\ carried' = (carried \/ flight[o] # "none") /\ scopes' = scopes
      BY <1>4, <2>2 DEF LeaveProxy
    <3>2. Last(scopes[o]).source \in Schedulers
      <4>1. Len(scopes[o]) \in DOMAIN scopes[o] /\ Last(scopes[o]) = scopes[o][Len(scopes[o])]
        BY <2>0, LastScope DEF Leaves
      <4> QED
        BY <2>0, <4>1 DEF ScopeInv, Leaves
    <3>3. /\ place' \in [Ops -> Places] /\ thread' \in [Ops -> Threads \cup {Null}]
          /\ resume' \in [Ops -> {"start", "wait", "enter", "leave"}]
          /\ scheduler' \in [Ops -> Schedulers \cup {Null}]
      BY <3>1, <3>2 DEF Switch, TypeOK, Places
    <3>4. queue' \in [Schedulers -> Seq(Ops)]
      BY <3>1, <3>2 DEF Switch, TypeOK
    <3>5. \A p \in Ops : (thread'[p] # Null) = (place'[p] = "running")
      BY <3>1 DEF Switch, TypeOK
    <3>6. terminated' \in BOOLEAN
      BY <3>1 DEF Throws
    <3>7. carried' \in BOOLEAN
      BY <3>1
    <3> QED
      BY <2>0, <3>1, <3>3, <3>4, <3>5, <3>6, <3>7 DEF TypeOK, stateVars
  <2> QED
    BY <2>1, <2>2
<1>5. CASE Finish(o)
  <2>1. flight' \in [Ops -> Flights] /\ uncaught' \in [Threads -> Int]
    BY <1>0, <1>5 DEF Finish, TypeOK, Flights
  <2>2. place' \in [Ops -> Places] /\ thread' \in [Ops -> Threads \cup {Null}]
    BY <1>5 DEF Finish, TypeOK, Places
  <2>3. \A p \in Ops : (thread'[p] # Null) = (place'[p] = "running")
    BY <1>5 DEF Finish, TypeOK
  <2> QED
    BY <1>5, <2>1, <2>2, <2>3 DEF Finish, TypeOK, stateVars, history
<1> QED
  BY <1>2, <1>3, <1>4, <1>5 DEF Leave

\* What taking a continuation does: the operation at the head of the queue
\* runs on the thread, and goes on.
LEMMA Dispatched ==
    ASSUME StructInv, NEW t \in Threads, NEW s \in Schedulers, Dispatch(t, s)
    PROVE  \E o \in Ops :
              /\ place[o] = "queued" /\ scheduler[o] = s /\ thread[o] = Null /\ t \in ThreadsOf[s]
              /\ o = Head(queue[s]) /\ \A p \in Ops : thread[p] # t
              /\ place' = [place EXCEPT ![o] = "running"] /\ thread' = [thread EXCEPT ![o] = t]
              /\ resume[o] \in {"enter", "leave"} => scopes[o] # <<>> /\ Last(scopes[o]).kind = "proxy"
              /\ GoesOn(o, t)
<1>1. queue[s] # <<>> /\ TypeOK /\ QueueInv
  BY DEF Dispatch, StructInv
<1>2. PICK o \in Ops : o = Head(queue[s]) /\ place[o] = "queued" /\ scheduler[o] = s
  BY <1>1, Taken
<1>3. thread[o] = Null
  BY <1>1, <1>2 DEF TypeOK
<1> QED
  BY <1>1, <1>2, <1>3 DEF Dispatch, StructInv, ResumeInv

\* Every step keeps the types.
LEMMA TypeStep ==
    ASSUME StructInv, [Next]_vars
    PROVE  TypeOK'
<1>0. TypeOK /\ PlaceInv /\ ScopeInv
  BY DEF StructInv
<1>1. ASSUME NEW o \in Ops, Proceed(o) PROVE TypeOK'
  <2>0. scheduler[o] \in Schedulers
    BY <1>0, <1>1 DEF Proceed, PlaceInv
  <2>1. place' \in [Ops -> Places] /\ queue' \in [Schedulers -> Seq(Ops)]
    <3>1. place' \in [Ops -> Places]
      BY <1>0, <1>1 DEF Proceed, TypeOK, Places
    <3>2. queue' = [queue EXCEPT ![scheduler[o]] = Append(queue[scheduler[o]], o)]
      BY <1>1 DEF Proceed
    <3>3. Append(queue[scheduler[o]], o) \in Seq(Ops)
      BY <1>0, <2>0 DEF TypeOK
    <3> QED
      BY <1>0, <3>1, <3>2, <3>3 DEF TypeOK
  <2>2. \A p \in Ops : (thread'[p] # Null) = (place'[p] = "running")
    BY <1>0, <1>1 DEF Proceed, TypeOK
  <2> QED
    BY <1>0, <1>1, <2>1, <2>2 DEF Proceed, TypeOK, opVars, stateVars, history
<1>2. ASSUME NEW t \in Threads, NEW s \in Schedulers, Dispatch(t, s) PROVE TypeOK'
  <2>1. PICK o \in Ops :
              /\ place[o] = "queued" /\ thread[o] = Null
              /\ place' = [place EXCEPT ![o] = "running"] /\ thread' = [thread EXCEPT ![o] = t]
              /\ resume[o] \in {"enter", "leave"} => scopes[o] # <<>> /\ Last(scopes[o]).kind = "proxy"
              /\ GoesOn(o, t)
    BY <1>2, Dispatched
  <2>2. place' \in [Ops -> Places] /\ thread' \in [Ops -> Threads \cup {Null}]
    BY <1>0, <2>1 DEF TypeOK, Places
  <2>3. \A p \in Ops : (thread'[p] # Null) = (place'[p] = "running")
    BY <1>0, <2>1, ScopesAssumption DEF TypeOK
  <2>4. flight' \in [Ops -> Flights] /\ uncaught' \in [Threads -> Int]
    <3>1. (flight' = flight /\ uncaught' = uncaught) \/ Raise(o, t, "event")
      BY <2>1 DEF GoesOn
    <3>2. CASE Raise(o, t, "event")
      BY <1>0, <3>2 DEF Raise, TypeOK, Flights
    <3> QED
      BY <1>0, <3>1, <3>2 DEF TypeOK
  <2>5. scopes' \in [Ops -> Seq(Scope)]
    <3>1. scopes' = scopes \/ (scopes[o] # <<>> /\ Pop(o))
      BY <2>1 DEF GoesOn
    <3> QED
      BY <1>0, <3>1, Popped DEF TypeOK
  <2>6. terminated' \in BOOLEAN
    BY <1>0, <2>1 DEF GoesOn, TypeOK
  <2>7. queue' \in [Schedulers -> Seq(Ops)]
    <3>1. queue' = [queue EXCEPT ![s] = Tail(queue[s])] /\ queue[s] # <<>>
      BY <1>2 DEF Dispatch
    <3>2. Tail(queue[s]) \in Seq(Ops)
      BY <3>1, Taken DEF StructInv
    <3> QED
      BY <1>0, <3>1, <3>2 DEF TypeOK
  <2> QED
    BY <1>0, <1>2, <2>2, <2>3, <2>4, <2>5, <2>6, <2>7 DEF Dispatch, TypeOK, stateVars, history
<1>3. ASSUME NEW o \in Ops, NEW s \in Schedulers, RunAsync(o, s) PROVE TypeOK'
  <2>1. /\ place' \in [Ops -> Places] /\ scheduler' \in [Ops -> Schedulers \cup {Null}]
        /\ home' \in [Ops -> Schedulers \cup {Null}] /\ queue' \in [Schedulers -> Seq(Ops)]
    BY <1>0, <1>3 DEF RunAsync, TypeOK, Places
  <2>2. \A p \in Ops : (thread'[p] # Null) = (place'[p] = "running")
    BY <1>0, <1>3 DEF RunAsync, TypeOK
  <2> QED
    BY <1>0, <1>3, <2>1, <2>2 DEF RunAsync, TypeOK, stateVars
<1>4. ASSUME NEW o \in Ops \cup {Null}, NEW st \in AsyncOpStatus, ChangeStatus(o, st)
      PROVE  /\ status' \in [Ops -> AsyncOpStatus] /\ struck' \in BOOLEAN
             /\ rivals' \in [Ops -> SUBSET (Ops \cup Timers)]
  <2>1. Setters(o) \in SUBSET (Ops \cup Timers)
    BY <1>0 DEF Setters, TypeOK
  <2>2. struck' \in BOOLEAN
    BY <1>4 DEF ChangeStatus
  <2> QED
    BY <1>0, <1>4, <2>1, <2>2 DEF ChangeStatus, TypeOK
<1>5. ASSUME NEW o \in Ops, CancelBegin(o) \/ CancelEnd(o) \/ Reset(o) PROVE TypeOK'
  <2>1. CASE CancelBegin(o)
    BY <1>0, <2>1 DEF CancelBegin, TypeOK, opVars, runVars, history
  <2>2. CASE CancelEnd(o)
    <3>1. /\ status' \in [Ops -> AsyncOpStatus] /\ struck' \in BOOLEAN
          /\ rivals' \in [Ops -> SUBSET (Ops \cup Timers)]
      BY <1>4, <2>2 DEF CancelEnd, AsyncOpStatus
    <3> QED
      BY <1>0, <2>2, <3>1 DEF CancelEnd, TypeOK, runVars
  <2>3. CASE Reset(o)
    BY <1>0, <2>3 DEF Reset, TypeOK, runVars, stateVars, history, AsyncOpStatus
  <2> QED
    BY <1>5, <2>1, <2>2, <2>3
<1>6. ASSUME NEW k \in Timers, TimerExpires(k) \/ TimedoutBegin(k) \/ TimedoutEnd(k) PROVE TypeOK'
  <2>1. timer' \in [Timers -> TimerStates]
    BY <1>0, <1>6 DEF TimerExpires, TimedoutBegin, TimedoutEnd, TypeOK, TimerStates
  <2>2. CASE TimerExpires(k) \/ TimedoutBegin(k)
    BY <1>0, <2>1, <2>2 DEF TimerExpires, TimedoutBegin, TypeOK, opVars, runVars, history
  <2>3. CASE TimedoutEnd(k)
    <3>1. owner[k] \in Ops \cup {Null}
      BY <1>0 DEF TypeOK
    <3>2. /\ status' \in [Ops -> AsyncOpStatus] /\ struck' \in BOOLEAN
          /\ rivals' \in [Ops -> SUBSET (Ops \cup Timers)]
      BY <1>4, <2>3, <3>1 DEF TimedoutEnd, AsyncOpStatus
    <3> QED
      BY <1>0, <2>1, <2>3, <3>2 DEF TimedoutEnd, TypeOK, runVars
  <2> QED
    BY <1>6, <2>2, <2>3
<1>7. CASE UNCHANGED vars
  BY <1>0, <1>7 DEF vars, opVars, runVars, stateVars, history, TypeOK
<1> QED
  BY <1>0, <1>1, <1>2, <1>3, <1>5, <1>6, <1>7, TypeBody, TypeLeave DEF Next, Others


-----------------------------------------------------------------------------
(* Continuations and scopes. *)

\* A step that posts nothing and leaves the queued operations alone.
LEMMA QueueKeep ==
    ASSUME TypeOK, QueueInv, queue' = queue,
           \A p \in Ops : place[p] = "queued" => place'[p] = "queued" /\ scheduler'[p] = scheduler[p]
    PROVE  QueueInv'
<1>1. \A s \in Schedulers : \A i \in DOMAIN queue[s] : queue[s][i] \in Ops
  BY DEF TypeOK
<1> QED
  BY <1>1 DEF QueueInv

\* An operation that was not queued is posted.
LEMMA QueuePost ==
    ASSUME TypeOK, QueueInv, NEW o \in Ops, NEW s \in Schedulers,
           queue' = [queue EXCEPT ![s] = Append(queue[s], o)],
           place[o] # "queued", place'[o] = "queued", scheduler'[o] = s,
           \A p \in Ops \ {o} : place'[p] = place[p] /\ scheduler'[p] = scheduler[p]
    PROVE  QueueInv'
<1>1. \A q \in Schedulers : queue[q] \in Seq(Ops) /\ Len(queue[q]) \in Nat
  BY DEF TypeOK
<1>2. \A q \in Schedulers : \A i \in DOMAIN queue[q] :
         queue[q][i] \in Ops \ {o} /\ place[queue[q][i]] = "queued" /\ scheduler[queue[q][i]] = q
  BY <1>1 DEF QueueInv
<1>3. \A q \in Schedulers \ {s} : queue'[q] = queue[q]
  BY DEF TypeOK
<1>4. /\ DOMAIN queue'[s] = 1 .. Len(queue[s]) + 1 /\ queue'[s][Len(queue[s]) + 1] = o
      /\ \A i \in DOMAIN queue[s] : queue'[s][i] = queue[s][i]
  <2>1. queue'[s] = Append(queue[s], o)
    BY DEF TypeOK
  <2> QED
    BY <1>1, <2>1
<1>5. \A i \in DOMAIN queue'[s] : i \in DOMAIN queue[s] \/ i = Len(queue[s]) + 1
  BY <1>1, <1>4
<1>6. \A q \in Schedulers : \A i \in DOMAIN queue'[q] :
         \/ i \in DOMAIN queue[q] /\ queue'[q][i] = queue[q][i]
         \/ q = s /\ i = Len(queue[s]) + 1 /\ queue'[q][i] = o
  BY <1>3, <1>4, <1>5
<1>7. \A q \in Schedulers : \A i \in DOMAIN queue'[q] :
         place'[queue'[q][i]] = "queued" /\ scheduler'[queue'[q][i]] = q
  BY <1>2, <1>6
<1>8. \A q, r \in Schedulers : \A i \in DOMAIN queue'[q], j \in DOMAIN queue'[r] :
         queue'[q][i] = queue'[r][j] => q = r /\ i = j
  BY <1>2, <1>6 DEF QueueInv
<1> QED
  BY <1>7, <1>8 DEF QueueInv

\* The operation at the head of a queue is taken.
LEMMA QueueTake ==
    ASSUME TypeOK, QueueInv, NEW s \in Schedulers, queue[s] # <<>>,
           queue' = [queue EXCEPT ![s] = Tail(queue[s])], scheduler' = scheduler,
           \A p \in Ops \ {Head(queue[s])} : place'[p] = place[p]
    PROVE  QueueInv'
<1>1. \A q \in Schedulers : queue[q] \in Seq(Ops) /\ Len(queue[q]) \in Nat
  BY DEF TypeOK
<1>2. Len(queue[s]) > 0 /\ Head(queue[s]) = queue[s][1] /\ 1 \in DOMAIN queue[s]
  BY <1>1
<1>3. \A q \in Schedulers \ {s} : queue'[q] = queue[q]
  BY DEF TypeOK
<1>4. \A i \in DOMAIN queue'[s] : i + 1 \in DOMAIN queue[s] /\ i \in Nat /\ i > 0 /\ queue'[s][i] = queue[s][i + 1]
  <2>1. queue'[s] = Tail(queue[s])
    BY DEF TypeOK
  <2>2. Tail(queue[s]) \in Seq(Ops) /\ Len(Tail(queue[s])) = Len(queue[s]) - 1
    BY Taken
  <2>3. DOMAIN queue'[s] = 1 .. Len(queue[s]) - 1
    <3>1. DOMAIN Tail(queue[s]) = 1 .. Len(Tail(queue[s]))
      BY <2>2, LenProperties
    <3> QED
      BY <2>1, <2>2, <3>1
  <2>4. \A i \in 1 .. Len(queue[s]) - 1 : Tail(queue[s])[i] = queue[s][i + 1]
    BY Taken
  <2> QED
    BY <1>1, <1>2, <2>1, <2>3, <2>4
<1>5. \A q \in Schedulers : \A i \in DOMAIN queue'[q] :
         \E j \in DOMAIN queue[q] : /\ queue'[q][i] = queue[q][j] /\ (q # s => i = j)
                                    /\ q = s => j = i + 1 /\ j # 1
  BY <1>3, <1>4
<1>6. \A q \in Schedulers : \A i \in DOMAIN queue'[q] : queue'[q][i] \in Ops \ {Head(queue[s])}
  BY <1>1, <1>2, <1>5 DEF QueueInv
<1>7. \A q \in Schedulers : \A i \in DOMAIN queue'[q] :
         place'[queue'[q][i]] = "queued" /\ scheduler'[queue'[q][i]] = q
  BY <1>5, <1>6 DEF QueueInv
<1>8. \A q, r \in Schedulers : \A i \in DOMAIN queue'[q], j \in DOMAIN queue'[r] :
         queue'[q][i] = queue'[r][j] => q = r /\ i = j
  <2> SUFFICES ASSUME NEW q \in Schedulers, NEW r \in Schedulers,
                      NEW i \in DOMAIN queue'[q], NEW j \in DOMAIN queue'[r],
                      queue'[q][i] = queue'[r][j]
               PROVE  q = r /\ i = j
    OBVIOUS
  <2>1. PICK a \in DOMAIN queue[q] : /\ queue'[q][i] = queue[q][a] /\ (q # s => i = a)
                                     /\ q = s => a = i + 1
    BY <1>5
  <2>2. PICK b \in DOMAIN queue[r] : /\ queue'[r][j] = queue[r][b] /\ (r # s => j = b)
                                     /\ r = s => b = j + 1
    BY <1>5
  <2>3. q = r /\ a = b
    BY <2>1, <2>2 DEF QueueInv
  <2> QED
    BY <1>4, <2>1, <2>2, <2>3
<1> QED
  BY <1>7, <1>8 DEF QueueInv


\* What a step does to the operations and the queues: an operation leaves its
\* thread, is posted, or is taken, and the others stay where they are.
Moves(o) ==
    /\ \A p \in Ops \ {o} : UNCHANGED <<place[p], thread[p], resume[p], scheduler[p]>>
    /\ \/ /\ queue' = queue /\ place[o] = "running"
          /\ \/ place'[o] = "running" /\ thread'[o] = thread[o]
             \/ place'[o] = "waiting" /\ thread'[o] = Null /\ resume'[o] = "wait"
             \/ place'[o] = "ended" /\ thread'[o] = Null
          /\ scheduler'[o] \in Schedulers
       \/ /\ place[o] # "queued" /\ place'[o] = "queued" /\ thread'[o] = Null
          /\ scheduler'[o] \in Schedulers
          /\ queue' = [queue EXCEPT ![scheduler'[o]] = Append(queue[scheduler'[o]], o)]
       \/ \E s \in Schedulers, t \in Threads :
             /\ queue[s] # <<>> /\ o = Head(queue[s]) /\ queue' = [queue EXCEPT ![s] = Tail(queue[s])]
             /\ place[o] = "queued" /\ place'[o] = "running" /\ thread'[o] = t /\ scheduler' = scheduler
             /\ \A p \in Ops : thread[p] # t

\* The body of an operation, and what leaves it, moves that operation.
LEMMA MovesBody ==
    ASSUME StructInv, NEW o \in Ops, Body(o) \/ Leave(o)
    PROVE  Moves(o)
<1>0. TypeOK /\ PlaceInv /\ ScopeInv
  BY DEF StructInv
<1>1. thread[o] \in Threads /\ scheduler[o] \in Schedulers /\ place[o] = "running"
  <2>1. place[o] = "running"
    BY DEF Body, HandleEvents, Throw, Catch, Wait, EnterGuard, EnterTimeout, EnterProxy, Call, Running,
           Leave, LeaveGuard, LeaveTimeout, LeaveProxy, Finish, Leaves
  <2> QED
    BY <1>0, <2>1, OnThread
<1>2. ASSUME NEW dst \in Schedulers, NEW how, Switch(o, dst, how) PROVE Moves(o)
  <2>1. /\ scheduler'[o] = dst /\ place'[o] = "queued" /\ thread'[o] = Null
        /\ \A p \in Ops \ {o} : UNCHANGED <<place[p], thread[p], resume[p], scheduler[p]>>
    BY <1>0, <1>2 DEF Switch, TypeOK
  <2>2. queue' = [queue EXCEPT ![dst] = Append(queue[dst], o)]
    BY <1>2 DEF Switch
  <2> QED
    BY <1>1, <2>1, <2>2 DEF Moves
<1>3. ASSUME UNCHANGED <<queue, place, thread, resume, scheduler>> PROVE Moves(o)
  BY <1>1, <1>3 DEF Moves
<1>4. CASE HandleEvents(o) \/ Throw(o) \/ Catch(o) \/ EnterGuard(o)
  BY <1>3, <1>4 DEF HandleEvents, Throw, Catch, EnterGuard
<1>5. CASE EnterTimeout(o) \/ LeaveGuard(o) \/ LeaveTimeout(o)
  BY <1>3, <1>5 DEF EnterTimeout, LeaveGuard, LeaveTimeout, runVars
<1>6. CASE Wait(o)
  <2>1. CASE Throws(o, thread[o])
    BY <1>3, <1>6, <2>1 DEF Wait
  <2>2. CASE ~Throws(o, thread[o])
    <3>1. /\ place' = [place EXCEPT ![o] = "waiting"] /\ thread' = [thread EXCEPT ![o] = Null]
          /\ resume' = [resume EXCEPT ![o] = "wait"] /\ UNCHANGED <<queue, scheduler>>
      BY <1>6, <2>2 DEF Wait
    <3>2. place'[o] = "waiting" /\ thread'[o] = Null /\ resume'[o] = "wait"
      BY <1>0, <3>1 DEF TypeOK
    <3>3. \A p \in Ops \ {o} : UNCHANGED <<place[p], thread[p], resume[p], scheduler[p]>>
      BY <1>0, <3>1 DEF TypeOK
    <3> QED
      BY <1>1, <3>1, <3>2, <3>3 DEF Moves
  <2> QED
    BY <2>1, <2>2
<1>7. ASSUME NEW s \in Schedulers, EnterProxy(o, s) PROVE Moves(o)
  <2>1. CASE s = scheduler[o]
    BY <1>3, <1>7, <2>1 DEF EnterProxy, runVars
  <2>2. CASE s # scheduler[o] /\ Throws(o, thread[o])
    <3>1. scheduler' = [scheduler EXCEPT ![o] = s] /\ UNCHANGED <<place, thread, resume, queue>>
      BY <1>7, <2>2 DEF EnterProxy
    <3>2. scheduler'[o] = s /\ \A p \in Ops \ {o} : scheduler'[p] = scheduler[p]
      BY <1>0, <3>1 DEF TypeOK
    <3> QED
      BY <1>1, <3>1, <3>2 DEF Moves
  <2>3. CASE s # scheduler[o] /\ ~Throws(o, thread[o])
    <3>1. Switch(o, s, "enter")
      BY <1>7, <2>3 DEF EnterProxy
    <3> QED
      BY <1>2, <3>1
  <2> QED
    BY <2>1, <2>2, <2>3
<1>8. CASE LeaveProxy(o)
  <2>1. CASE Last(scopes[o]).source = scheduler[o]
    BY <1>3, <1>8, <2>1 DEF LeaveProxy
  <2>2. CASE Last(scopes[o]).source # scheduler[o]
    <3>1. Switch(o, Last(scopes[o]).source, "leave") /\ Leaves(o, "proxy")
      BY <1>8, <2>2 DEF LeaveProxy
    <3>2. Last(scopes[o]).source \in Schedulers
      BY <1>0, <3>1, LastScope DEF Leaves, ScopeInv
    <3> QED
      BY <1>2, <3>1, <3>2
  <2> QED
    BY <2>1, <2>2
<1>9. CASE Finish(o)
  <2>1. /\ place' = [place EXCEPT ![o] = "ended"] /\ thread' = [thread EXCEPT ![o] = Null]
        /\ UNCHANGED <<queue, scheduler, resume>>
    BY <1>9 DEF Finish
  <2>2. place'[o] = "ended" /\ thread'[o] = Null
    BY <1>0, <2>1 DEF TypeOK
  <2>3. \A p \in Ops \ {o} : UNCHANGED <<place[p], thread[p], resume[p], scheduler[p]>>
    BY <1>0, <2>1 DEF TypeOK
  <2> QED
    BY <1>1, <2>1, <2>2, <2>3 DEF Moves
<1> QED
  BY <1>4, <1>5, <1>6, <1>7, <1>8, <1>9 DEF Body, Leave

\* Every step moves one operation, or none.
LEMMA MovesStep ==
    ASSUME StructInv, [Next]_vars
    PROVE  (\E o \in Ops : Moves(o)) \/ UNCHANGED <<queue, place, thread, resume, scheduler>>
<1>0. TypeOK /\ PlaceInv /\ ScopeInv
  BY DEF StructInv
<1>1. ASSUME NEW o \in Ops, Proceed(o) PROVE Moves(o)
  <2>1. /\ place' = [place EXCEPT ![o] = "queued"] /\ UNCHANGED <<thread, resume, scheduler>>
        /\ queue' = [queue EXCEPT ![scheduler[o]] = Append(queue[scheduler[o]], o)]
        /\ place[o] = "waiting"
    BY <1>1 DEF Proceed, opVars
  <2>2. thread[o] = Null /\ scheduler[o] \in Schedulers
    BY <1>0, <2>1 DEF TypeOK, PlaceInv
  <2>3. place'[o] = "queued" /\ \A p \in Ops \ {o} : place'[p] = place[p]
    BY <1>0, <2>1 DEF TypeOK
  <2> QED
    BY <2>1, <2>2, <2>3 DEF Moves
<1>2. ASSUME NEW o \in Ops, NEW s \in Schedulers, RunAsync(o, s) PROVE Moves(o)
  <2>1. /\ place' = [place EXCEPT ![o] = "queued"] /\ UNCHANGED <<thread, resume>>
        /\ scheduler' = [scheduler EXCEPT ![o] = s]
        /\ queue' = [queue EXCEPT ![s] = Append(queue[s], o)]
        /\ place[o] = "absent"
    BY <1>2 DEF RunAsync
  <2>2. thread[o] = Null
    BY <1>0, <2>1 DEF TypeOK
  <2>3. /\ place'[o] = "queued" /\ \A p \in Ops \ {o} : place'[p] = place[p]
        /\ scheduler'[o] = s /\ \A p \in Ops \ {o} : scheduler'[p] = scheduler[p]
    BY <1>0, <2>1 DEF TypeOK
  <2> QED
    BY <2>1, <2>2, <2>3 DEF Moves
<1>3. ASSUME NEW t \in Threads, NEW s \in Schedulers, Dispatch(t, s) PROVE \E o \in Ops : Moves(o)
  <2>1. PICK o \in Ops :
              /\ place[o] = "queued" /\ o = Head(queue[s]) /\ \A p \in Ops : thread[p] # t
              /\ place' = [place EXCEPT ![o] = "running"] /\ thread' = [thread EXCEPT ![o] = t]
    BY <1>3, Dispatched
  <2>2. /\ queue[s] # <<>> /\ queue' = [queue EXCEPT ![s] = Tail(queue[s])]
        /\ UNCHANGED <<scheduler, resume>>
    BY <1>3 DEF Dispatch
  <2>3. /\ place'[o] = "running" /\ \A p \in Ops \ {o} : place'[p] = place[p]
        /\ thread'[o] = t /\ \A p \in Ops \ {o} : thread'[p] = thread[p]
    BY <1>0, <2>1 DEF TypeOK
  <2> QED
    BY <2>1, <2>2, <2>3 DEF Moves
<1>4. ASSUME NEW o \in Ops, CancelBegin(o) \/ CancelEnd(o) \/ Reset(o)
      PROVE  UNCHANGED <<queue, place, thread, resume, scheduler>>
  BY <1>4 DEF CancelBegin, CancelEnd, Reset, opVars, runVars
<1>5. ASSUME NEW k \in Timers, TimerExpires(k) \/ TimedoutBegin(k) \/ TimedoutEnd(k)
      PROVE  UNCHANGED <<queue, place, thread, resume, scheduler>>
  BY <1>5 DEF TimerExpires, TimedoutBegin, TimedoutEnd, opVars, runVars
<1>6. CASE UNCHANGED vars
  BY <1>6 DEF vars, opVars, runVars
<1> QED
  BY <1>1, <1>2, <1>3, <1>4, <1>5, <1>6, MovesBody DEF Next, Others


\* The scopes an operation can enter.
Enters(o, x) ==
    \/ x = Guard
    \/ \E k \in Timers : x = TimeoutOf(k)
    \/ \E s \in Schedulers : x = Proxy(scheduler[o], s) /\ scheduler[o] \in Schedulers

\* Every step enters or leaves one scope, or none; and not of a waiting
\* operation, nor of one that is not there.
LEMMA ScopesStep ==
    ASSUME StructInv, [Next]_vars
    PROVE  \/ scopes' = scopes
           \/ \E o \in Ops : /\ place[o] \in {"running", "queued"}
                             /\ \/ scopes[o] # <<>> /\ Pop(o)
                                \/ place[o] = "running" /\ \E x \in Scope : Enters(o, x) /\ Push(o, x)
<1>0. TypeOK /\ PlaceInv /\ ScopeInv
  BY DEF StructInv
<1>1. ASSUME NEW o \in Ops, place[o] = "running", scopes[o] # <<>>, Pop(o)
      PROVE  \E p \in Ops : place[p] \in {"running", "queued"} /\ scopes[p] # <<>> /\ Pop(p)
  BY <1>1
<1>2. ASSUME NEW o \in Ops, place[o] = "running", scheduler[o] \in Schedulers,
             NEW x, Enters(o, x), Push(o, x)
      PROVE  \E p \in Ops : /\ place[p] = "running"
                            /\ \E y \in Scope : Enters(p, y) /\ Push(p, y)
  <2>1. x \in Scope
    BY <1>2, ScopeTypes DEF Enters
  <2> QED
    BY <1>2, <2>1
<1>3. ASSUME NEW o \in Ops, HandleEvents(o) \/ Throw(o) \/ Catch(o) \/ Wait(o) \/ Finish(o) \/ Proceed(o)
      PROVE  scopes' = scopes
  BY <1>3 DEF HandleEvents, Throw, Catch, Wait, Finish, Proceed, opVars
<1>4. ASSUME NEW o \in Ops, LeaveGuard(o) \/ LeaveTimeout(o)
      PROVE  place[o] = "running" /\ scopes[o] # <<>> /\ Pop(o)
  BY <1>4 DEF LeaveGuard, LeaveTimeout, Leaves, Running
<1>5. ASSUME NEW o \in Ops, LeaveProxy(o)
      PROVE  scopes' = scopes \/ (place[o] = "running" /\ scopes[o] # <<>> /\ Pop(o))
  BY <1>5 DEF LeaveProxy, Leaves, Running
<1>6. ASSUME NEW o \in Ops, EnterGuard(o)
      PROVE  /\ place[o] = "running" /\ scheduler[o] \in Schedulers
             /\ scopes' = scopes \/ \E x : Enters(o, x) /\ Push(o, x)
  <2>1. place[o] = "running"
    BY <1>6 DEF EnterGuard, Call, Running
  <2>2. scopes' = scopes \/ Push(o, Guard)
    BY <1>6 DEF EnterGuard, DisableEvents
  <2> QED
    BY <1>0, <2>1, <2>2, OnThread DEF Enters
<1>7. ASSUME NEW o \in Ops, EnterTimeout(o)
      PROVE  /\ place[o] = "running" /\ scheduler[o] \in Schedulers
             /\ \E x : Enters(o, x) /\ Push(o, x)
  <2>1. place[o] = "running"
    BY <1>7 DEF EnterTimeout, Call, Running
  <2>2. PICK k \in Timers : Push(o, TimeoutOf(k))
    BY <1>7 DEF EnterTimeout
  <2> QED
    BY <1>0, <2>1, <2>2, OnThread DEF Enters
<1>8. ASSUME NEW o \in Ops, NEW s \in Schedulers, EnterProxy(o, s)
      PROVE  /\ place[o] = "running" /\ scheduler[o] \in Schedulers
             /\ scopes' = scopes \/ \E x : Enters(o, x) /\ Push(o, x)
  <2>1. place[o] = "running"
    BY <1>8 DEF EnterProxy, Call, Running
  <2>2. scopes' = scopes \/ Push(o, Proxy(scheduler[o], s))
    BY <1>8 DEF EnterProxy
  <2> QED
    BY <1>0, <2>1, <2>2, OnThread DEF Enters
<1>9. ASSUME NEW t \in Threads, NEW s \in Schedulers, Dispatch(t, s)
      PROVE  \/ scopes' = scopes
             \/ \E p \in Ops : place[p] \in {"running", "queued"} /\ scopes[p] # <<>> /\ Pop(p)
  <2>1. PICK o \in Ops :
              /\ place[o] = "queued"
              /\ resume[o] \in {"enter", "leave"} => scopes[o] # <<>> /\ Last(scopes[o]).kind = "proxy"
              /\ GoesOn(o, t)
    BY <1>9, Dispatched
  <2> QED
    BY <2>1 DEF GoesOn
<1>10. CASE Others
  BY <1>10 DEF Others, RunAsync, CancelBegin, CancelEnd, Reset, TimerExpires, TimedoutBegin, TimedoutEnd, opVars
<1>11. CASE UNCHANGED vars
  BY <1>11 DEF vars, opVars
<1>12. ASSUME NEW o \in Ops, Body(o)
       PROVE  scopes' = scopes \/ \E p \in Ops : place[p] = "running" /\ \E y \in Scope : Enters(p, y) /\ Push(p, y)
  BY <1>2, <1>3, <1>6, <1>7, <1>8, <1>12 DEF Body
<1>13. ASSUME NEW o \in Ops, Leave(o)
       PROVE  scopes' = scopes \/ \E p \in Ops : place[p] \in {"running", "queued"} /\ scopes[p] # <<>> /\ Pop(p)
  BY <1>1, <1>3, <1>4, <1>5, <1>13 DEF Leave
<1> QED
  BY <1>3, <1>9, <1>10, <1>11, <1>12, <1>13 DEF Next

\* The scopes an operation enters are well formed.
LEMMA ScopeStep ==
    ASSUME StructInv, [Next]_vars
    PROVE  ScopeInv'
<1>0. TypeOK /\ ScopeInv
  BY DEF StructInv
<1>1. CASE scopes' = scopes
  BY <1>0, <1>1 DEF ScopeInv
<1>2. ASSUME NEW o \in Ops, scopes[o] # <<>>, Pop(o) PROVE ScopeInv'
  <2>1. /\ \A p \in Ops \ {o} : scopes'[p] = scopes[p]
        /\ \A i \in DOMAIN scopes'[o] : i \in DOMAIN scopes[o] /\ scopes'[o][i] = scopes[o][i]
    BY <1>0, <1>2, PoppedDomain
  <2> QED
    BY <1>0, <2>1 DEF ScopeInv
<1>3. ASSUME NEW o \in Ops, NEW x \in Scope, Enters(o, x), Push(o, x) PROVE ScopeInv'
  <2>1. /\ \A p \in Ops \ {o} : scopes'[p] = scopes[p]
        /\ \A i \in DOMAIN scopes'[o] :
              (i \in DOMAIN scopes[o] /\ scopes'[o][i] = scopes[o][i]) \/ scopes'[o][i] = x
    BY <1>0, <1>3, PushedDomain
  <2>2. /\ x.kind = "timeout" => x.timer \in Timers
        /\ x.kind # "timeout" => x.timer = Null
        /\ x.kind = "proxy" => x.source \in Schedulers /\ x.destination \in Schedulers
    BY <1>3, ScopeTypes DEF Enters
  <2> QED
    BY <1>0, <2>1, <2>2 DEF ScopeInv
<1> QED
  BY <1>1, <1>2, <1>3, ScopesStep


\* Continuations stay posted once, where scheduler_ says, and operations keep
\* their threads to themselves.
LEMMA PlaceStep ==
    ASSUME StructInv, [Next]_vars
    PROVE  QueueInv' /\ PlaceInv'
<1>0. TypeOK /\ QueueInv /\ PlaceInv
  BY DEF StructInv
<1>1. \A p \in Ops : place[p] = "absent" => scopes'[p] = scopes[p]
  BY <1>0, ScopesStep DEF Pop, Push, TypeOK
<1>2. CASE UNCHANGED <<queue, place, thread, resume, scheduler>>
  <2>1. QueueInv'
    BY <1>0, <1>2, QueueKeep
  <2> QED
    BY <1>0, <1>1, <1>2, <2>1 DEF PlaceInv
<1>3. ASSUME NEW o \in Ops, Moves(o) PROVE QueueInv' /\ PlaceInv'
  <2>0. \A p \in Ops \ {o} : UNCHANGED <<place[p], thread[p], resume[p], scheduler[p]>>
    BY <1>3 DEF Moves
  <2>1. CASE /\ queue' = queue /\ place[o] = "running"
             /\ \/ place'[o] = "running" /\ thread'[o] = thread[o]
                \/ place'[o] = "waiting" /\ thread'[o] = Null /\ resume'[o] = "wait"
                \/ place'[o] = "ended" /\ thread'[o] = Null
             /\ scheduler'[o] \in Schedulers
    <3>1. QueueInv'
      BY <1>0, <2>0, <2>1, QueueKeep
    <3>2. PlaceInv'
      BY <1>0, <1>1, <2>0, <2>1 DEF PlaceInv
    <3> QED
      BY <3>1, <3>2
  <2>2. CASE /\ place[o] # "queued" /\ place'[o] = "queued" /\ thread'[o] = Null
             /\ scheduler'[o] \in Schedulers
             /\ queue' = [queue EXCEPT ![scheduler'[o]] = Append(queue[scheduler'[o]], o)]
    <3>1. QueueInv'
      BY <1>0, <2>0, <2>2, QueuePost
    <3>2. PlaceInv'
      BY <1>0, <1>1, <2>0, <2>2 DEF PlaceInv
    <3> QED
      BY <3>1, <3>2
  <2>3. ASSUME NEW s \in Schedulers, NEW t \in Threads,
               queue[s] # <<>>, o = Head(queue[s]), queue' = [queue EXCEPT ![s] = Tail(queue[s])],
               place[o] = "queued", place'[o] = "running", thread'[o] = t, scheduler' = scheduler,
               \A p \in Ops : thread[p] # t
        PROVE  QueueInv' /\ PlaceInv'
    <3>1. QueueInv'
      BY <1>0, <2>0, <2>3, QueueTake
    <3>2. PlaceInv'
      BY <1>0, <1>1, <2>0, <2>3 DEF PlaceInv
    <3> QED
      BY <3>1, <3>2
  <2> QED
    BY <1>3, <2>1, <2>2, <2>3 DEF Moves
<1> QED
  BY <1>2, <1>3, MovesStep

\* An operation that a proxy is switching stays inside that proxy.
LEMMA ResumeStep ==
    ASSUME StructInv, [Next]_vars
    PROVE  ResumeInv'
<1>0. TypeOK /\ PlaceInv /\ ResumeInv /\ ScopeInv
  BY DEF StructInv
<1>1. ASSUME NEW p \in Ops,
             UNCHANGED <<place[p], resume[p], scheduler[p], scopes[p]>>
                \/ place'[p] # "queued" \/ resume'[p] \notin {"enter", "leave"}
      PROVE  place'[p] = "queued" /\ resume'[p] \in {"enter", "leave"} =>
                /\ scopes'[p] # <<>> /\ Last(scopes'[p]).kind = "proxy"
                /\ resume'[p] = "leave" => scheduler'[p] = Last(scopes'[p]).source
  BY <1>0, <1>1 DEF ResumeInv
<1>2. ASSUME NEW o \in Ops, Moves(o), \A p \in Ops \ {o} : scopes'[p] = scopes[p],
             /\ place'[o] = "queued" /\ resume'[o] \in {"enter", "leave"} =>
                /\ scopes'[o] # <<>> /\ Last(scopes'[o]).kind = "proxy"
                /\ resume'[o] = "leave" => scheduler'[o] = Last(scopes'[o]).source
      PROVE  ResumeInv'
  BY <1>1, <1>2 DEF ResumeInv, Moves
<1>3. ASSUME NEW o \in Ops, Body(o) \/ Leave(o), scopes' = scopes \/ Pop(o) \/ \E x : Push(o, x)
      PROVE  Moves(o) /\ place[o] = "running" /\ \A p \in Ops \ {o} : scopes'[p] = scopes[p]
  <2>1. place[o] = "running"
    BY <1>3 DEF Body, HandleEvents, Throw, Catch, Wait, EnterGuard, EnterTimeout, EnterProxy, Call, Running,
           Leave, LeaveGuard, LeaveTimeout, LeaveProxy, Finish, Leaves
  <2> QED
    BY <1>0, <1>3, <2>1, MovesBody DEF Pop, Push, TypeOK
<1>4. ASSUME NEW o \in Ops, HandleEvents(o) \/ Throw(o) \/ Catch(o) \/ Wait(o) \/ Finish(o)
      PROVE  ResumeInv'
  <2>1. Body(o) \/ Leave(o)
    BY <1>4 DEF Body, Leave
  <2>2. scopes' = scopes
    BY <1>4 DEF HandleEvents, Throw, Catch, Wait, Finish
  <2>3. Moves(o) /\ place[o] = "running" /\ \A p \in Ops \ {o} : scopes'[p] = scopes[p]
    BY <1>3, <2>1, <2>2
  <2>4. place'[o] # "queued"
    BY <1>0, <1>4, <2>3 DEF HandleEvents, Throw, Catch, Wait, Finish, TypeOK
  <2> QED
    BY <1>2, <2>3, <2>4
<1>5. ASSUME NEW o \in Ops, EnterGuard(o) \/ EnterTimeout(o) \/ LeaveGuard(o) \/ LeaveTimeout(o)
      PROVE  ResumeInv'
  <2>1. Body(o) \/ Leave(o)
    BY <1>5 DEF Body, Leave
  <2>2. scopes' = scopes \/ Pop(o) \/ \E x : Push(o, x)
    BY <1>5 DEF EnterGuard, DisableEvents, EnterTimeout, LeaveGuard, LeaveTimeout
  <2>3. Moves(o) /\ place[o] = "running" /\ \A p \in Ops \ {o} : scopes'[p] = scopes[p]
    BY <1>3, <2>1, <2>2
  <2>4. place'[o] # "queued"
    BY <1>0, <1>5, <2>3 DEF EnterGuard, EnterTimeout, LeaveGuard, LeaveTimeout, runVars
  <2> QED
    BY <1>2, <2>3, <2>4
<1>6. ASSUME NEW o \in Ops, NEW s \in Schedulers, EnterProxy(o, s) PROVE ResumeInv'
  <2>1. Body(o)
    BY <1>6 DEF Body
  <2>2. scopes' = scopes \/ Pop(o) \/ \E x : Push(o, x)
    BY <1>6 DEF EnterProxy
  <2>3. Moves(o) /\ place[o] = "running" /\ \A p \in Ops \ {o} : scopes'[p] = scopes[p]
    BY <1>3, <2>1, <2>2
  <2>4. place' = place \/ (Push(o, Proxy(scheduler[o], s)) /\ Switch(o, s, "enter"))
    BY <1>6 DEF EnterProxy, runVars
  <2>5. CASE Push(o, Proxy(scheduler[o], s)) /\ Switch(o, s, "enter")
    <3>1. Proxy(scheduler[o], s) \in Scope /\ Proxy(scheduler[o], s).kind = "proxy"
      BY <1>0, <2>3, OnThread, ScopeTypes
    <3>2. scopes'[o] # <<>> /\ Last(scopes'[o]).kind = "proxy"
      BY <1>0, <2>5, <3>1, Pushed
    <3>3. resume'[o] = "enter"
      BY <1>0, <2>5 DEF Switch, TypeOK
    <3> QED
      BY <1>2, <2>3, <3>2, <3>3
  <2> QED
    BY <1>2, <2>3, <2>4, <2>5
<1>7. ASSUME NEW o \in Ops, LeaveProxy(o) PROVE ResumeInv'
  <2>1. Leave(o)
    BY <1>7 DEF Leave
  <2>2. scopes' = scopes \/ Pop(o) \/ \E x : Push(o, x)
    BY <1>7 DEF LeaveProxy
  <2>3. Moves(o) /\ place[o] = "running" /\ \A p \in Ops \ {o} : scopes'[p] = scopes[p]
    BY <1>3, <2>1, <2>2
  <2>4. place' = place \/ (scopes' = scopes /\ Switch(o, Last(scopes[o]).source, "leave"))
    BY <1>7 DEF LeaveProxy
  <2>5. CASE scopes' = scopes /\ Switch(o, Last(scopes[o]).source, "leave")
    <3>1. scheduler'[o] = Last(scopes[o]).source
      BY <1>0, <2>5 DEF Switch, TypeOK
    <3>2. scopes[o] # <<>> /\ Last(scopes[o]).kind = "proxy"
      BY <1>7 DEF LeaveProxy, Leaves
    <3> QED
      BY <1>2, <2>3, <2>5, <3>1, <3>2
  <2> QED
    BY <1>2, <2>3, <2>4, <2>5
<1>8. ASSUME NEW o \in Ops, Proceed(o) PROVE ResumeInv'
  <2>1. /\ place[o] = "waiting" /\ UNCHANGED <<resume, scheduler, scopes>>
        /\ \A p \in Ops \ {o} : place'[p] = place[p]
    BY <1>0, <1>8 DEF Proceed, opVars, TypeOK
  <2>2. resume[o] = "wait"
    BY <1>0, <2>1 DEF PlaceInv
  <2> QED
    BY <1>1, <2>1, <2>2 DEF ResumeInv
<1>9. ASSUME NEW o \in Ops, NEW s \in Schedulers, RunAsync(o, s) PROVE ResumeInv'
  <2>1. /\ place[o] = "absent" /\ UNCHANGED <<resume, scopes>>
        /\ \A p \in Ops \ {o} : place'[p] = place[p] /\ scheduler'[p] = scheduler[p]
    BY <1>0, <1>9 DEF RunAsync, TypeOK
  <2>2. resume[o] = "start"
    BY <1>0, <2>1 DEF PlaceInv
  <2> QED
    BY <1>1, <2>1, <2>2 DEF ResumeInv
<1>10. ASSUME NEW t \in Threads, NEW s \in Schedulers, Dispatch(t, s) PROVE ResumeInv'
  <2>1. PICK o \in Ops : place' = [place EXCEPT ![o] = "running"] /\ GoesOn(o, t)
    BY <1>10, Dispatched
  <2>2. UNCHANGED <<resume, scheduler>>
    BY <1>10 DEF Dispatch
  <2>3. \A p \in Ops \ {o} : place'[p] = place[p] /\ scopes'[p] = scopes[p]
    BY <1>0, <2>1 DEF GoesOn, Pop, TypeOK
  <2>4. place'[o] # "queued"
    BY <1>0, <2>1 DEF TypeOK
  <2> QED
    BY <1>1, <2>2, <2>3, <2>4 DEF ResumeInv
<1>11. ASSUME UNCHANGED <<place, resume, scheduler, scopes>> PROVE ResumeInv'
  BY <1>0, <1>11 DEF ResumeInv
<1>12. ASSUME NEW o \in Ops, CancelBegin(o) \/ CancelEnd(o) \/ Reset(o) PROVE ResumeInv'
  BY <1>11, <1>12 DEF CancelBegin, CancelEnd, Reset, opVars, runVars
<1>13. ASSUME NEW k \in Timers, TimerExpires(k) \/ TimedoutBegin(k) \/ TimedoutEnd(k) PROVE ResumeInv'
  BY <1>11, <1>13 DEF TimerExpires, TimedoutBegin, TimedoutEnd, opVars, runVars
<1>14. CASE UNCHANGED vars
  BY <1>11, <1>14 DEF vars, opVars, runVars
<1> QED
  BY <1>4, <1>5, <1>6, <1>7, <1>8, <1>9, <1>10, <1>12, <1>13, <1>14 DEF Next, Body, Leave, Others

\* The structure of queues, places and scopes is kept by every step.
LEMMA StructStep ==
    ASSUME StructInv, [Next]_vars
    PROVE  StructInv'
BY TypeStep, PlaceStep, ResumeStep, ScopeStep DEF StructInv


-----------------------------------------------------------------------------
(* Guards. *)

\* Entering another scope than a guard.
LEMMA GuardPush ==
    ASSUME TypeOK, GuardInv, NEW o \in Ops, NEW x \in Scope, x.kind # "guard", Push(o, x),
           UNCHANGED <<allowed, nested>>
    PROVE  GuardInv'
<1>1. /\ \A p \in Ops \ {o} : scopes'[p] = scopes[p]
      /\ \A i \in DOMAIN scopes'[o] :
            \/ i \in DOMAIN scopes[o] /\ scopes'[o][i] = scopes[o][i]
            \/ i = Len(scopes[o]) + 1 /\ scopes'[o][i] = x
      /\ \A i \in DOMAIN scopes[o] : i \in DOMAIN scopes'[o] /\ scopes'[o][i] = scopes[o][i]
  BY PushedDomain
<1>2. OneGuard'
  BY <1>1 DEF OneGuard, GuardInv
<1>3. \A p \in Ops : InScope(p, "guard")' <=> InScope(p, "guard")
  BY <1>1 DEF InScope
<1>4. EventsFollowGuards'
  BY <1>3 DEF EventsFollowGuards, GuardInv
<1> QED
  BY <1>2, <1>4 DEF GuardInv

\* Leaving another scope than a guard.
LEMMA GuardPop ==
    ASSUME TypeOK, GuardInv, NEW o \in Ops, scopes[o] # <<>>, Last(scopes[o]).kind # "guard", Pop(o),
           UNCHANGED <<allowed, nested>>
    PROVE  GuardInv'
<1>1. /\ \A p \in Ops \ {o} : scopes'[p] = scopes[p]
      /\ \A i \in DOMAIN scopes'[o] : i \in DOMAIN scopes[o] /\ scopes'[o][i] = scopes[o][i]
      /\ \A i \in DOMAIN scopes[o] : i = Len(scopes[o]) \/ i \in DOMAIN scopes'[o]
      /\ Last(scopes[o]) = scopes[o][Len(scopes[o])]
  BY PoppedDomain
<1>2. OneGuard'
  BY <1>1 DEF OneGuard, GuardInv
<1>3. \A p \in Ops : InScope(p, "guard")' <=> InScope(p, "guard")
  BY <1>1 DEF InScope
<1>4. EventsFollowGuards'
  BY <1>3 DEF EventsFollowGuards, GuardInv
<1> QED
  BY <1>2, <1>4 DEF GuardInv

\* A step that leaves scopes and flags alone.
LEMMA GuardKeep ==
    ASSUME GuardInv, UNCHANGED <<allowed, scopes, nested>>
    PROVE  GuardInv'
BY DEF GuardInv, OneGuard, EventsFollowGuards, InScope

\* Events are off exactly inside of guards that are not nested.
LEMMA GuardStep ==
    ASSUME StructInv, GuardInv, [Next]_vars
    PROVE  GuardInv'
<1>0. TypeOK /\ PlaceInv /\ ScopeInv
  BY DEF StructInv
<1>1. ASSUME NEW o \in Ops, HandleEvents(o) \/ Throw(o) \/ Catch(o) \/ Wait(o) \/ Finish(o) \/ Proceed(o)
      PROVE  GuardInv'
  BY <1>1, GuardKeep DEF HandleEvents, Throw, Catch, Wait, Finish, Proceed, opVars, history
<1>2. ASSUME NEW o \in Ops, EnterGuard(o) PROVE GuardInv'
  <2>0. /\ nested'[o] = FALSE => nested[o] = FALSE /\ ~InScope(o, "guard")
        /\ nested[o] => nested'[o]
        /\ \A p \in Ops \ {o} : nested'[p] = nested[p]
    <3>1. nested' = [nested EXCEPT ![o] = @ \/ InScope(o, "guard")]
      BY <1>2 DEF EnterGuard
    <3>2. nested'[o] = (nested[o] \/ InScope(o, "guard")) /\ \A p \in Ops \ {o} : nested'[p] = nested[p]
      BY <1>0, <3>1 DEF TypeOK
    <3> QED
      BY <1>0, <3>2 DEF TypeOK
  <2>1. CASE Throws(o, thread[o])
    <3>1. UNCHANGED <<allowed, scopes>>
      BY <1>2, <2>1 DEF EnterGuard, DisableEvents
    <3>2. \A p \in Ops : nested[p] => nested'[p]
      BY <2>0
    <3> QED
      BY <3>1, <3>2 DEF GuardInv, OneGuard, EventsFollowGuards, InScope
  <2>2. CASE ~Throws(o, thread[o])
    <3>1. Push(o, Guard) /\ allowed' = [allowed EXCEPT ![o] = FALSE]
      BY <1>2, <2>2 DEF EnterGuard, DisableEvents
    <3>2. /\ \A p \in Ops \ {o} : scopes'[p] = scopes[p]
          /\ \A i \in DOMAIN scopes'[o] :
                \/ i \in DOMAIN scopes[o] /\ scopes'[o][i] = scopes[o][i]
                \/ i = Len(scopes[o]) + 1 /\ scopes'[o][i] = Guard
          /\ Len(scopes[o]) + 1 \in DOMAIN scopes'[o] /\ scopes'[o][Len(scopes[o]) + 1] = Guard
      BY <1>0, <3>1, PushedDomain, ScopeTypes
    <3>3. OneGuard'
      <4>1. SUFFICES ASSUME NEW p \in Ops, ~nested'[p], NEW i \in DOMAIN scopes'[p], NEW j \in DOMAIN scopes'[p],
                            scopes'[p][i].kind = "guard", scopes'[p][j].kind = "guard"
                     PROVE  i = j
        BY DEF OneGuard
      <4>2. CASE p # o
        BY <2>0, <3>2, <4>1, <4>2 DEF OneGuard, GuardInv
      <4>3. CASE p = o
        <5>1. \A k \in DOMAIN scopes[o] : scopes[o][k].kind # "guard"
          BY <2>0, <4>1, <4>3 DEF InScope
        <5> QED
          BY <3>2, <4>1, <4>3, <5>1
      <4> QED
        BY <4>2, <4>3
    <3>4. InScope(o, "guard")' /\ \A p \in Ops \ {o} : InScope(p, "guard")' <=> InScope(p, "guard")
      BY <3>2, ScopeTypes DEF InScope
    <3>5. allowed'[o] = FALSE /\ \A p \in Ops \ {o} : allowed'[p] = allowed[p]
      BY <1>0, <3>1 DEF TypeOK
    <3>6. EventsFollowGuards'
      BY <2>0, <3>4, <3>5 DEF EventsFollowGuards, GuardInv
    <3> QED
      BY <3>3, <3>6 DEF GuardInv
  <2> QED
    BY <2>1, <2>2
<1>3. ASSUME NEW o \in Ops, LeaveGuard(o) PROVE GuardInv'
  <2>1. /\ scopes[o] # <<>> /\ Last(scopes[o]).kind = "guard" /\ Pop(o)
        /\ allowed' = [allowed EXCEPT ![o] = TRUE] /\ nested' = nested
    BY <1>3 DEF LeaveGuard, Leaves, history
  <2>2. /\ \A p \in Ops \ {o} : scopes'[p] = scopes[p]
        /\ \A i \in DOMAIN scopes'[o] : i \in DOMAIN scopes[o] /\ scopes'[o][i] = scopes[o][i]
        /\ Len(scopes[o]) \in DOMAIN scopes[o] /\ Len(scopes[o]) \notin DOMAIN scopes'[o]
        /\ Last(scopes[o]) = scopes[o][Len(scopes[o])]
    BY <1>0, <2>1, PoppedDomain
  <2>3. OneGuard'
    BY <2>1, <2>2 DEF OneGuard, GuardInv
  <2>4. ~nested[o] => ~InScope(o, "guard")'
    BY <2>1, <2>2 DEF InScope, OneGuard, GuardInv
  <2>5. \A p \in Ops \ {o} : InScope(p, "guard")' <=> InScope(p, "guard")
    BY <2>2 DEF InScope
  <2>6. allowed'[o] = TRUE /\ \A p \in Ops \ {o} : allowed'[p] = allowed[p]
    BY <1>0, <2>1 DEF TypeOK
  <2>7. EventsFollowGuards'
    BY <2>1, <2>4, <2>5, <2>6 DEF EventsFollowGuards, GuardInv
  <2> QED
    BY <2>3, <2>7 DEF GuardInv
<1>4. ASSUME NEW o \in Ops, EnterTimeout(o) PROVE GuardInv'
  <2>1. PICK k \in Timers : Push(o, TimeoutOf(k)) /\ UNCHANGED <<allowed, nested>>
    BY <1>4 DEF EnterTimeout, history
  <2> QED
    BY <1>0, <2>1, GuardPush, ScopeTypes
<1>5. ASSUME NEW o \in Ops, LeaveTimeout(o) PROVE GuardInv'
  BY <1>0, <1>5, GuardPop DEF LeaveTimeout, Leaves, history
<1>6. ASSUME NEW o \in Ops, NEW s \in Schedulers, EnterProxy(o, s) PROVE GuardInv'
  <2>1. UNCHANGED <<allowed, nested>> /\ (scopes' = scopes \/ Push(o, Proxy(scheduler[o], s))) /\ place[o] = "running"
    BY <1>6 DEF EnterProxy, Call, Running, history
  <2>2. Proxy(scheduler[o], s) \in Scope /\ Proxy(scheduler[o], s).kind = "proxy"
    BY <1>0, <2>1, OnThread, ScopeTypes
  <2> QED
    BY <1>0, <2>1, <2>2, GuardPush, GuardKeep
<1>7. ASSUME NEW o \in Ops, LeaveProxy(o) PROVE GuardInv'
  <2>1. /\ scopes[o] # <<>> /\ Last(scopes[o]).kind = "proxy" /\ UNCHANGED <<allowed, nested>>
        /\ scopes' = scopes \/ Pop(o)
    BY <1>7 DEF LeaveProxy, Leaves
  <2> QED
    BY <1>0, <2>1, GuardPop, GuardKeep
<1>8. ASSUME NEW t \in Threads, NEW s \in Schedulers, Dispatch(t, s) PROVE GuardInv'
  <2>1. PICK o \in Ops :
              /\ resume[o] \in {"enter", "leave"} => scopes[o] # <<>> /\ Last(scopes[o]).kind = "proxy"
              /\ GoesOn(o, t)
    BY <1>8, Dispatched
  <2>2. scopes' = scopes \/ (scopes[o] # <<>> /\ Last(scopes[o]).kind = "proxy" /\ Pop(o))
    BY <2>1 DEF GoesOn
  <2>3. UNCHANGED <<allowed, nested>>
    BY <1>8 DEF Dispatch, history
  <2> QED
    BY <1>0, <2>2, <2>3, GuardPop, GuardKeep
<1>9. CASE Others
  BY <1>9, GuardKeep DEF Others, RunAsync, CancelBegin, CancelEnd, Reset, TimerExpires, TimedoutBegin,
                         TimedoutEnd, opVars, history
<1>10. CASE UNCHANGED vars
  BY <1>10, GuardKeep DEF vars, opVars, history
<1> QED
  BY <1>1, <1>2, <1>3, <1>4, <1>5, <1>6, <1>7, <1>8, <1>9, <1>10 DEF Next, Body, Leave

-----------------------------------------------------------------------------
(* The status. *)

\* A setter that finds Normal is under way before the status is set.
LEMMA RivalStep ==
    ASSUME StructInv, RivalInv, [Next]_vars
    PROVE  RivalInv'
<1>0. TypeOK
  BY DEF StructInv
<1>1. ASSUME UNCHANGED <<status, cancelling, rivals>>,
             \A k \in Timers : timer'[k] = "checked" => timer[k] = "checked" /\ owner'[k] = owner[k]
      PROVE  RivalInv'
  BY <1>1 DEF RivalInv, Setters
<1>2. ASSUME NEW o \in Ops, Body(o) \/ Leave(o) \/ Proceed(o) PROVE UNCHANGED <<status, cancelling, rivals>>
  BY <1>2 DEF Body, HandleEvents, Throw, Catch, Wait, EnterGuard, EnterTimeout, EnterProxy,
              Leave, LeaveGuard, LeaveTimeout, LeaveProxy, Finish, Proceed, opVars, stateVars, history
<1>3. ASSUME NEW o \in Ops, EnterTimeout(o) PROVE RivalInv'
  <2>1. PICK k \in Timers : timer' = [timer EXCEPT ![k] = "armed"] /\ owner' = [owner EXCEPT ![k] = o]
    BY <1>3 DEF EnterTimeout
  <2>2. \A j \in Timers : timer'[j] = "checked" => timer[j] = "checked" /\ owner'[j] = owner[j]
    BY <1>0, <2>1 DEF TypeOK
  <2> QED
    BY <1>1, <1>2, <1>3, <2>2 DEF Body
<1>4. ASSUME NEW o \in Ops, LeaveTimeout(o) PROVE RivalInv'
  <2>1. \A k \in Timers : timer'[k] = "checked" => timer[k] = "checked" /\ owner'[k] = owner[k]
    BY <1>0, <1>4 DEF LeaveTimeout, TypeOK
  <2> QED
    BY <1>1, <1>2, <1>4, <2>1 DEF Leave
<1>5. ASSUME NEW o \in Ops, Body(o) \/ Leave(o) \/ Proceed(o), ~EnterTimeout(o), ~LeaveTimeout(o)
      PROVE  UNCHANGED <<timer, owner>>
  BY <1>5 DEF Body, HandleEvents, Throw, Catch, Wait, EnterGuard, EnterProxy,
              Leave, LeaveGuard, LeaveProxy, Finish, Proceed, stateVars
<1>6. ASSUME NEW o \in Ops, Body(o) \/ Leave(o) \/ Proceed(o) PROVE RivalInv'
  BY <1>1, <1>2, <1>3, <1>4, <1>5, <1>6
<1>7. ASSUME NEW t \in Threads, NEW s \in Schedulers, Dispatch(t, s) PROVE RivalInv'
  BY <1>1, <1>7 DEF Dispatch, stateVars, history
<1>8. ASSUME NEW o \in Ops, NEW s \in Schedulers, RunAsync(o, s) PROVE RivalInv'
  BY <1>1, <1>8 DEF RunAsync, stateVars
<1>9. ASSUME NEW o \in Ops, CancelBegin(o) PROVE RivalInv'
  <2>1. status[o] = "Normal" /\ cancelling' = cancelling \cup {o} /\ UNCHANGED <<status, timer, owner, rivals>>
    BY <1>9 DEF CancelBegin, MayChange, opVars, history
  <2>2. \A p \in Ops \ {o} : Setters(p)' = Setters(p)
    BY <2>1 DEF Setters
  <2> QED
    BY <2>1, <2>2 DEF RivalInv
<1>10. ASSUME NEW o \in Ops \cup {Null}, NEW st, ChangeStatus(o, st), \A p \in Ops : Setters(p)' \subseteq Setters(p)
       PROVE  RivalInv'
  <2>1. \A p \in Ops : IF p = o THEN rivals'[p] = Setters(p)
                                ELSE rivals'[p] = rivals[p] /\ status'[p] = status[p]
    BY <1>0, <1>10 DEF ChangeStatus, TypeOK
  <2> QED
    BY <1>10, <2>1 DEF RivalInv
<1>11. ASSUME NEW o \in Ops, CancelEnd(o) PROVE RivalInv'
  <2>1. \A p \in Ops : Setters(p)' \subseteq Setters(p)
    BY <1>11 DEF CancelEnd, Setters
  <2> QED
    BY <1>10, <1>11, <2>1 DEF CancelEnd
<1>12. ASSUME NEW o \in Ops, Reset(o) PROVE RivalInv'
  <2>1. \A p \in Ops : status'[p] # "Normal" => status[p] # "Normal"
    BY <1>0, <1>12 DEF Reset, TypeOK
  <2>2. \A p \in Ops : Setters(p)' = Setters(p) /\ rivals' = rivals
    BY <1>12 DEF Reset, Setters, stateVars, history
  <2> QED
    BY <2>1, <2>2 DEF RivalInv
<1>13. ASSUME NEW k \in Timers, TimerExpires(k) PROVE RivalInv'
  <2>1. UNCHANGED <<status, cancelling, rivals>>
    BY <1>13 DEF TimerExpires, opVars, history
  <2>2. \A j \in Timers : timer'[j] = "checked" => timer[j] = "checked" /\ owner'[j] = owner[j]
    BY <1>0, <1>13 DEF TimerExpires, TypeOK
  <2> QED
    BY <1>1, <2>1, <2>2
<1>14. ASSUME NEW k \in Timers, TimedoutBegin(k) PROVE RivalInv'
  <2>1. UNCHANGED <<status, cancelling, rivals, owner>>
    BY <1>14 DEF TimedoutBegin, opVars, history
  <2>2. timer' = [timer EXCEPT ![k] = IF MayChange(owner[k]) THEN "checked" ELSE "done"]
    BY <1>14 DEF TimedoutBegin
  <2>3. \A j \in Timers : timer'[j] = "checked" => timer[j] = "checked" \/ status[owner[j]] = "Normal"
    BY <1>0, <2>2 DEF TypeOK, MayChange
  <2>4. \A p \in Ops : status[p] # "Normal" => Setters(p)' \subseteq Setters(p)
    BY <2>1, <2>3 DEF Setters
  <2> QED
    BY <2>1, <2>4 DEF RivalInv
<1>15. ASSUME NEW k \in Timers, TimedoutEnd(k) PROVE RivalInv'
  <2>1. \A j \in Timers : timer'[j] = "checked" => timer[j] = "checked"
    BY <1>0, <1>15 DEF TimedoutEnd, TypeOK
  <2>2. UNCHANGED <<cancelling, owner>>
    BY <1>15 DEF TimedoutEnd
  <2>3. \A p \in Ops : Setters(p)' \subseteq Setters(p)
    BY <2>1, <2>2 DEF Setters
  <2>4. owner[k] \in Ops \cup {Null}
    BY <1>0 DEF TypeOK
  <2> QED
    BY <1>10, <1>15, <2>3, <2>4 DEF TimedoutEnd
<1>16. CASE UNCHANGED vars
  BY <1>1, <1>16 DEF vars, opVars, stateVars, history
<1> QED
  BY <1>6, <1>7, <1>8, <1>9, <1>11, <1>12, <1>13, <1>14, <1>15, <1>16 DEF Next, Others


-----------------------------------------------------------------------------
(* Contexts. *)

\* The context depends on the scopes up to there only.
LEMMA ContextPrefix ==
    ASSUME NEW h, NEW sc, NEW sd, NEW s, NEW n \in Nat, \A i \in 1 .. n : sd[i] = sc[i]
    PROVE  InContext(h, sc, n, s) <=> InContext(h, sd, n, s)
<1>1. \A i \in 1 .. n : \A j \in i + 1 .. n : j \in 1 .. n
  OBVIOUS
<1>2. ASSUME InContext(h, sc, n, s) PROVE InContext(h, sd, n, s)
  BY <1>1, <1>2 DEF InContext
<1>3. ASSUME InContext(h, sd, n, s) PROVE InContext(h, sc, n, s)
  BY <1>1, <1>3 DEF InContext
<1> QED
  BY <1>2, <1>3

\* Guards and timeouts do not change the context.
LEMMA ContextPlain ==
    ASSUME NEW h, NEW sc, NEW s, NEW n \in Nat, sc[n + 1].kind # "proxy"
    PROVE  InContext(h, sc, n, s) <=> InContext(h, sc, n + 1, s)
<1>1. \A i \in 1 .. n + 1 : i = n + 1 \/ i \in 1 .. n
  OBVIOUS
<1>2. \A i \in 1 .. n : i \in 1 .. n + 1
  OBVIOUS
<1>3. \A i \in 1 .. n : \A j \in i + 1 .. n + 1 : j = n + 1 \/ j \in i + 1 .. n
  OBVIOUS
<1>4. \A i \in 1 .. n : \A j \in i + 1 .. n : j \in i + 1 .. n + 1
  OBVIOUS
<1>5. ASSUME InContext(h, sc, n, s) PROVE InContext(h, sc, n + 1, s)
  BY <1>1, <1>2, <1>3, <1>5 DEF InContext
<1>6. ASSUME InContext(h, sc, n + 1, s) PROVE InContext(h, sc, n, s)
  BY <1>1, <1>2, <1>4, <1>6 DEF InContext
<1> QED
  BY <1>5, <1>6

\* A proxy does: inside it the context is its destination.
LEMMA ContextProxy ==
    ASSUME NEW h, NEW sc, NEW s, NEW n \in Nat \ {0}, sc[n].kind = "proxy"
    PROVE  InContext(h, sc, n, s) <=> s = sc[n].destination
<1>1. n \in 1 .. n /\ \A j \in n + 1 .. n : FALSE
  OBVIOUS
<1>2. \A i \in 1 .. n : i # n => n \in i + 1 .. n
  OBVIOUS
<1> QED
  BY <1>1, <1>2 DEF InContext

\* What the contexts depend on does not change for p.
Untouched(p) ==
    /\ caught'[p] = caught[p] /\ flight'[p] = flight[p] /\ place'[p] = place[p]
    /\ resume'[p] = resume[p] /\ thread'[p] = thread[p] /\ scopes'[p] = scopes[p]
    /\ scheduler'[p] = scheduler[p] /\ home'[p] = home[p]

\* An operation acts for itself.
LEMMA ActsForItself ==
    ASSUME StructInv, NEW o \in Ops,
           Body(o) \/ Leave(o) \/ Proceed(o) \/ \E s \in Schedulers : RunAsync(o, s)
    PROVE  \A p \in Ops \ {o} : Untouched(p)
<1> SUFFICES ASSUME NEW p \in Ops \ {o} PROVE Untouched(p)
  OBVIOUS
<1>0. TypeOK
  BY DEF StructInv
<1>1. CASE HandleEvents(o) \/ Throw(o) \/ Catch(o) \/ Finish(o)
  BY <1>0, <1>1 DEF HandleEvents, Throw, Catch, Finish, Raise, Untouched, TypeOK, history
<1>2. CASE Wait(o)
  BY <1>0, <1>2 DEF Wait, Raise, Untouched, TypeOK, history
<1>3. CASE EnterGuard(o)
  BY <1>0, <1>3 DEF EnterGuard, DisableEvents, Push, Raise, Untouched, TypeOK, history
<1>4. CASE EnterTimeout(o)
  BY <1>0, <1>4 DEF EnterTimeout, Push, Untouched, TypeOK, history, runVars
<1>5. CASE LeaveGuard(o) \/ LeaveTimeout(o)
  BY <1>0, <1>5 DEF LeaveGuard, LeaveTimeout, Pop, Untouched, TypeOK, history, runVars
<1>6. ASSUME NEW s \in Schedulers, EnterProxy(o, s) PROVE Untouched(p)
  <2>1. CASE s = scheduler[o]
    BY <1>0, <1>6, <2>1 DEF EnterProxy, Push, Untouched, TypeOK, history, runVars
  <2>2. CASE s # scheduler[o] /\ Throws(o, thread[o])
    BY <1>0, <1>6, <2>2 DEF EnterProxy, Raise, Untouched, TypeOK, history
  <2>3. CASE s # scheduler[o] /\ ~Throws(o, thread[o])
    BY <1>0, <1>6, <2>3 DEF EnterProxy, Push, Switch, Untouched, TypeOK, history
  <2> QED
    BY <2>1, <2>2, <2>3
<1>7. CASE LeaveProxy(o)
  BY <1>0, <1>7 DEF LeaveProxy, Pop, Switch, Untouched, TypeOK
<1>8. CASE Proceed(o)
  BY <1>0, <1>8 DEF Proceed, Untouched, TypeOK, history, opVars
<1>9. CASE \E s \in Schedulers : RunAsync(o, s)
  BY <1>0, <1>9 DEF RunAsync, Untouched, TypeOK
<1> QED
  BY <1>1, <1>2, <1>3, <1>4, <1>5, <1>6, <1>7, <1>8, <1>9 DEF Body, Leave

\* What the rest of the program does to the status touches no operation.
LEMMA TouchesNone ==
    ASSUME \/ \E o \in Ops : CancelBegin(o) \/ CancelEnd(o) \/ Reset(o)
           \/ \E k \in Timers : TimerExpires(k) \/ TimedoutBegin(k) \/ TimedoutEnd(k)
           \/ UNCHANGED vars
    PROVE  /\ UNCHANGED <<caught, flight, place, resume, thread, scopes, scheduler, home>>
           /\ UNCHANGED <<uncaught, carried, terminated, allowed, queue>>
BY DEF CancelBegin, CancelEnd, Reset, TimerExpires, TimedoutBegin, TimedoutEnd, vars, opVars, runVars, history

\* The context of an operation that is not touched.
LEMMA ContextUntouched ==
    ASSUME ContextInv, NEW p \in Ops, Untouched(p)
    PROVE  Chained(p)' /\ InItsContext(p)' /\ OnItsThread(p)'
<1>1. Chained(p) /\ InItsContext(p) /\ OnItsThread(p)
  BY DEF ContextInv
<1>2. Chained(p)'
  BY <1>1 DEF Chained, InContext, Untouched
<1>3. InItsContext(p)'
  BY <1>1 DEF InItsContext, InContext, Untouched
<1>4. OnItsThread(p)'
  BY <1>1 DEF OnItsThread, Untouched
<1> QED
  BY <1>2, <1>3, <1>4

\* Entering a scope, when a proxy knows the context it is made in.
LEMMA ContextPush ==
    ASSUME TypeOK, NEW o \in Ops, NEW x \in Scope, Push(o, x), Chained(o), home'[o] = home[o],
           caught'[o] = caught[o],
           x.kind = "proxy" /\ ~caught[o] => InContext(home[o], scopes[o], Len(scopes[o]), x.source)
    PROVE  /\ Chained(o)'
           /\ x.kind = "proxy" => InContext(home'[o], scopes'[o], Len(scopes'[o]), x.destination)
           /\ x.kind # "proxy" =>
                 \A s : InContext(home[o], scopes[o], Len(scopes[o]), s) =>
                           InContext(home'[o], scopes'[o], Len(scopes'[o]), s)
<1> DEFINE n == Len(scopes[o])
<1>1. /\ n \in Nat /\ Len(scopes'[o]) = n + 1 /\ scopes'[o][n + 1] = x
      /\ \A i \in 1 .. n : scopes'[o][i] = scopes[o][i]
  BY Pushed
<1>2. \A i \in DOMAIN scopes'[o] :
         (i \in DOMAIN scopes[o] /\ scopes'[o][i] = scopes[o][i]) \/ (i = n + 1 /\ scopes'[o][i] = x)
  BY PushedDomain
<1>3. DOMAIN scopes[o] = 1 .. n
  BY DEF TypeOK
<1> HIDE DEF n
<1>4. ASSUME NEW m \in Nat, m <= n, NEW s
      PROVE  InContext(home[o], scopes[o], m, s) <=> InContext(home'[o], scopes'[o], m, s)
  <2>1. \A i \in 1 .. m : scopes'[o][i] = scopes[o][i]
    BY <1>1, <1>4
  <2> QED
    BY <1>4, <2>1, ContextPrefix
<1>5. Chained(o)'
  <2>1. SUFFICES ASSUME ~caught[o], NEW i \in DOMAIN scopes'[o], scopes'[o][i].kind = "proxy"
                 PROVE  InContext(home'[o], scopes'[o], i - 1, scopes'[o][i].source)
    BY DEF Chained
  <2>2. CASE i \in DOMAIN scopes[o] /\ scopes'[o][i] = scopes[o][i]
    <3>1. InContext(home[o], scopes[o], i - 1, scopes[o][i].source)
      BY <2>1, <2>2 DEF Chained
    <3>2. i - 1 \in Nat /\ i - 1 <= n
      BY <1>1, <1>3, <2>2
    <3> QED
      BY <1>4, <2>2, <3>1, <3>2
  <2>3. CASE i = n + 1 /\ scopes'[o][i] = x
    <3>1. i - 1 = n
      BY <1>1, <2>3
    <3>2. InContext(home[o], scopes[o], n, x.source)
      BY <2>1, <2>3 DEF n
    <3> QED
      BY <1>1, <1>4, <2>3, <3>1, <3>2
  <2> QED
    BY <1>2, <2>2, <2>3
<1>6. ASSUME x.kind = "proxy" PROVE InContext(home'[o], scopes'[o], Len(scopes'[o]), x.destination)
  BY <1>1, <1>6, ContextProxy
<1>7. ASSUME x.kind # "proxy", NEW s, InContext(home[o], scopes[o], n, s)
      PROVE  InContext(home'[o], scopes'[o], Len(scopes'[o]), s)
  <2>1. InContext(home'[o], scopes'[o], n, s)
    BY <1>1, <1>4, <1>7
  <2> QED
    BY <1>1, <1>7, <2>1, ContextPlain
<1> QED
  BY <1>5, <1>6, <1>7 DEF n

\* Leaving a scope: outside a proxy the context is the scheduler it goes back
\* to, and guards and timeouts change nothing.
LEMMA ContextPop ==
    ASSUME TypeOK, NEW o \in Ops, scopes[o] # <<>>, Pop(o), Chained(o), home'[o] = home[o],
           caught'[o] = caught[o]
    PROVE  /\ Chained(o)'
           /\ Last(scopes[o]).kind = "proxy" /\ ~caught[o] =>
                 InContext(home'[o], scopes'[o], Len(scopes'[o]), Last(scopes[o]).source)
           /\ Last(scopes[o]).kind # "proxy" =>
                 \A s : InContext(home[o], scopes[o], Len(scopes[o]), s) =>
                           InContext(home'[o], scopes'[o], Len(scopes'[o]), s)
<1>1. PICK n \in Nat : Len(scopes[o]) = n + 1
  <2>1. Len(scopes[o]) \in Nat \ {0}
    BY LastScope
  <2>2. Len(scopes[o]) - 1 \in Nat /\ Len(scopes[o]) = (Len(scopes[o]) - 1) + 1
    BY <2>1
  <2> QED
    BY <2>2
<1>2. /\ Len(scopes'[o]) = n /\ Last(scopes[o]) = scopes[o][n + 1]
      /\ \A i \in 1 .. n : scopes'[o][i] = scopes[o][i]
  <2>1. n + 1 - 1 = n
    OBVIOUS
  <2> QED
    BY <1>1, <2>1, Popped
<1>3. /\ n + 1 \in DOMAIN scopes[o]
      /\ \A i \in DOMAIN scopes'[o] : i \in DOMAIN scopes[o] /\ scopes'[o][i] = scopes[o][i]
  BY <1>1, PoppedDomain
<1>4. ASSUME NEW m \in Nat, m <= n, NEW s
      PROVE  InContext(home[o], scopes[o], m, s) <=> InContext(home'[o], scopes'[o], m, s)
  <2>1. \A i \in 1 .. m : scopes'[o][i] = scopes[o][i]
    BY <1>2, <1>4
  <2> QED
    BY <1>4, <2>1, ContextPrefix
<1>5. Chained(o)'
  <2>1. SUFFICES ASSUME ~caught[o], NEW i \in DOMAIN scopes'[o], scopes'[o][i].kind = "proxy"
                 PROVE  InContext(home'[o], scopes'[o], i - 1, scopes'[o][i].source)
    BY DEF Chained
  <2>2. InContext(home[o], scopes[o], i - 1, scopes[o][i].source) /\ scopes'[o][i] = scopes[o][i]
    BY <1>3, <2>1 DEF Chained
  <2>3. i - 1 \in Nat /\ i - 1 <= n
    <3>1. DOMAIN scopes[o] = 1 .. n + 1
      BY <1>1 DEF TypeOK
    <3> QED
      BY <1>3, <3>1
  <2> QED
    BY <1>4, <2>2, <2>3
<1>6. ASSUME Last(scopes[o]).kind = "proxy", ~caught[o]
      PROVE  InContext(home'[o], scopes'[o], Len(scopes'[o]), Last(scopes[o]).source)
  <2>1. InContext(home[o], scopes[o], n + 1 - 1, scopes[o][n + 1].source)
    BY <1>2, <1>3, <1>6 DEF Chained
  <2>2. n + 1 - 1 = n
    OBVIOUS
  <2> QED
    BY <1>2, <1>4, <2>1, <2>2
<1>7. ASSUME Last(scopes[o]).kind # "proxy", NEW s, InContext(home[o], scopes[o], Len(scopes[o]), s)
      PROVE  InContext(home'[o], scopes'[o], Len(scopes'[o]), s)
  <2>1. InContext(home[o], scopes[o], n, s)
    BY <1>1, <1>2, <1>7, ContextPlain
  <2> QED
    BY <1>2, <1>4, <2>1
<1> QED
  BY <1>5, <1>6, <1>7


\* Operations stay in their contexts.
LEMMA ContextStep ==
    ASSUME StructInv, ContextInv, [Next]_vars
    PROVE  ContextInv'
<1>0. TypeOK /\ PlaceInv /\ ResumeInv /\ ScopeInv
  BY DEF StructInv
<1> DEFINE Good(o) == Chained(o)' /\ InItsContext(o)' /\ OnItsThread(o)'
<1>1. ASSUME NEW o \in Ops, Good(o), \A p \in Ops \ {o} : Untouched(p) PROVE ContextInv'
  BY <1>1, ContextUntouched DEF ContextInv
<1>2. ASSUME NEW o \in Ops PROVE Chained(o) /\ InItsContext(o) /\ OnItsThread(o)
  BY DEF ContextInv
<1>3. ASSUME NEW o \in Ops, scopes'[o] = scopes[o], home'[o] = home[o], caught'[o] = caught[o]
      PROVE  Chained(o)'
  BY <1>2, <1>3 DEF Chained, InContext
<1>4. ASSUME NEW o \in Ops, Chained(o)', flight'[o] = "event" PROVE Good(o)
  BY <1>4 DEF InItsContext, OnItsThread
<1>5. ASSUME NEW o \in Ops, Chained(o)', ~caught'[o] => InContext(home'[o], scopes'[o], Len(scopes'[o]), scheduler'[o]),
             place'[o] # "running"
      PROVE  Good(o)
  BY <1>5 DEF InItsContext, OnItsThread
<1>6. ASSUME NEW o \in Ops, HandleEvents(o) PROVE Good(o)
  <2>1. flight'[o] = "event" /\ scopes' = scopes /\ home' = home /\ caught' = caught
    BY <1>0, <1>6 DEF HandleEvents, Raise, TypeOK, history
  <2> QED
    BY <1>3, <1>4, <2>1
<1>7. ASSUME NEW o \in Ops, Throw(o) PROVE Good(o)
  <2>1. /\ flight[o] = "none" /\ flight'[o] = "other"
        /\ UNCHANGED <<scopes, home, caught, place, resume, thread, scheduler>>
    BY <1>0, <1>7 DEF Throw, Call, Raise, TypeOK, history
  <2> QED
    BY <1>2, <1>3, <2>1 DEF InItsContext, OnItsThread, InContext
<1>8. ASSUME NEW o \in Ops, Catch(o) PROVE Good(o)
  <2>1. /\ flight'[o] = "none" /\ UNCHANGED <<scopes, home, place, resume, thread, scheduler>>
        /\ caught'[o] <=> caught[o] \/ flight[o] = "event"
    <3>1. caught'[o] = (caught[o] \/ flight[o] = "event")
      BY <1>0, <1>8 DEF Catch, TypeOK
    <3> QED
      BY <1>0, <1>8, <3>1 DEF Catch, TypeOK
  <2>2. Chained(o)'
    BY <1>2, <2>1 DEF Chained, InContext
  <2> QED
    BY <1>2, <2>1, <2>2 DEF InItsContext, OnItsThread, InContext
<1>9. ASSUME NEW o \in Ops, Wait(o) PROVE Good(o)
  <2>1. /\ UNCHANGED <<scopes, home, caught, scheduler>> /\ flight[o] = "none" /\ place[o] = "running"
    BY <1>9 DEF Wait, Call, Running, history
  <2>2. Chained(o)'
    BY <1>3, <2>1
  <2>3. CASE Throws(o, thread[o])
    <3>1. flight'[o] = "event"
      BY <1>0, <1>9, <2>3 DEF Wait, Raise, TypeOK
    <3> QED
      BY <1>4, <2>2, <3>1
  <2>4. CASE ~Throws(o, thread[o])
    <3>1. place'[o] = "waiting"
      BY <1>0, <1>9, <2>4 DEF Wait, TypeOK
    <3>2. ~caught[o] => InContext(home[o], scopes[o], Len(scopes[o]), scheduler[o])
      BY <1>2, <2>1 DEF InItsContext
    <3> QED
      BY <1>5, <2>1, <2>2, <3>1, <3>2
  <2> QED
    BY <2>3, <2>4
<1>10. ASSUME NEW o \in Ops, NEW x \in Scope, Push(o, x), x.kind # "proxy",
              UNCHANGED <<home, caught, scheduler, flight, place, resume, thread>>
       PROVE  Good(o)
  <2>1. /\ Chained(o)'
        /\ \A s : InContext(home[o], scopes[o], Len(scopes[o]), s) =>
                     InContext(home'[o], scopes'[o], Len(scopes'[o]), s)
    BY <1>0, <1>2, <1>10, ContextPush
  <2> QED
    BY <1>2, <1>10, <2>1 DEF InItsContext, OnItsThread
<1>11. ASSUME NEW o \in Ops, EnterGuard(o) PROVE Good(o)
  <2>1. CASE Throws(o, thread[o])
    <3>1. flight'[o] = "event" /\ scopes' = scopes /\ home' = home /\ caught' = caught
      BY <1>0, <1>11, <2>1 DEF EnterGuard, DisableEvents, Raise, TypeOK, history
    <3> QED
      BY <1>3, <1>4, <3>1
  <2>2. CASE ~Throws(o, thread[o])
    <3>1. Push(o, Guard) /\ UNCHANGED <<home, caught, scheduler, flight, place, resume, thread>>
      BY <1>11, <2>2 DEF EnterGuard, DisableEvents, history
    <3> QED
      BY <1>10, <3>1, ScopeTypes
  <2> QED
    BY <2>1, <2>2
<1>12. ASSUME NEW o \in Ops, EnterTimeout(o) PROVE Good(o)
  <2>1. PICK k \in Timers : Push(o, TimeoutOf(k))
    BY <1>12 DEF EnterTimeout
  <2>2. UNCHANGED <<home, caught, scheduler, flight, place, resume, thread>>
    BY <1>12 DEF EnterTimeout, history, runVars
  <2>3. TimeoutOf(k) \in Scope /\ TimeoutOf(k).kind # "proxy"
    BY ScopeTypes
  <2> QED
    BY <1>10, <2>1, <2>2, <2>3
<1>13. ASSUME NEW o \in Ops, NEW s \in Schedulers, EnterProxy(o, s) PROVE Good(o)
  <2>0. /\ place[o] = "running" /\ flight[o] = "none" /\ UNCHANGED <<home, caught>>
    BY <1>13 DEF EnterProxy, Call, Running, history
  <2>1. ~caught[o] => InContext(home[o], scopes[o], Len(scopes[o]), scheduler[o])
    BY <1>2, <2>0 DEF InItsContext
  <2>2. /\ Proxy(scheduler[o], s) \in Scope /\ Proxy(scheduler[o], s).kind = "proxy"
        /\ Proxy(scheduler[o], s).source = scheduler[o] /\ Proxy(scheduler[o], s).destination = s
    BY <1>0, <2>0, OnThread, ScopeTypes
  <2>3. ASSUME Push(o, Proxy(scheduler[o], s))
        PROVE  Chained(o)' /\ InContext(home'[o], scopes'[o], Len(scopes'[o]), s)
    BY <1>0, <1>2, <2>0, <2>1, <2>2, <2>3, ContextPush
  <2>4. CASE s = scheduler[o]
    <3>1. Push(o, Proxy(scheduler[o], s)) /\ UNCHANGED <<scheduler, flight, place, resume, thread>>
      BY <1>13, <2>4 DEF EnterProxy, runVars
    <3> QED
      BY <1>2, <2>0, <2>3, <2>4, <3>1 DEF InItsContext, OnItsThread
  <2>5. CASE s # scheduler[o] /\ Throws(o, thread[o])
    <3>1. flight'[o] = "event" /\ scopes' = scopes
      BY <1>0, <1>13, <2>5 DEF EnterProxy, Raise, TypeOK
    <3> QED
      BY <1>3, <1>4, <2>0, <3>1
  <2>6. CASE s # scheduler[o] /\ ~Throws(o, thread[o])
    <3>1. Push(o, Proxy(scheduler[o], s)) /\ Switch(o, s, "enter")
      BY <1>13, <2>6 DEF EnterProxy
    <3>2. scheduler'[o] = s /\ place'[o] = "queued"
      BY <1>0, <3>1 DEF Switch, TypeOK
    <3> QED
      BY <1>5, <2>3, <3>1, <3>2
  <2> QED
    BY <2>4, <2>5, <2>6
<1>14. ASSUME NEW o \in Ops, LeaveGuard(o) \/ LeaveTimeout(o) PROVE Good(o)
  <2>1. /\ scopes[o] # <<>> /\ Last(scopes[o]).kind # "proxy" /\ Pop(o)
        /\ UNCHANGED <<home, caught, scheduler, flight, place, resume, thread>>
    BY <1>14 DEF LeaveGuard, LeaveTimeout, Leaves, history, runVars
  <2>2. /\ Chained(o)'
        /\ \A s : InContext(home[o], scopes[o], Len(scopes[o]), s) =>
                     InContext(home'[o], scopes'[o], Len(scopes'[o]), s)
    BY <1>0, <1>2, <2>1, ContextPop
  <2> QED
    BY <1>2, <2>1, <2>2 DEF InItsContext, OnItsThread
<1>15. ASSUME NEW o \in Ops, LeaveProxy(o) PROVE Good(o)
  <2>0. scopes[o] # <<>> /\ Last(scopes[o]).kind = "proxy" /\ UNCHANGED <<home, caught, flight>>
    BY <1>15 DEF LeaveProxy, Leaves
  <2>1. CASE Last(scopes[o]).source = scheduler[o]
    <3>1. Pop(o) /\ UNCHANGED <<scheduler, place, resume, thread>>
      BY <1>15, <2>1 DEF LeaveProxy
    <3>2. /\ Chained(o)'
          /\ ~caught[o] => InContext(home'[o], scopes'[o], Len(scopes'[o]), Last(scopes[o]).source)
      BY <1>0, <1>2, <2>0, <3>1, ContextPop
    <3> QED
      BY <1>2, <2>0, <2>1, <3>1, <3>2 DEF InItsContext, OnItsThread
  <2>2. CASE Last(scopes[o]).source # scheduler[o]
    <3>1. scopes' = scopes /\ Switch(o, Last(scopes[o]).source, "leave")
      BY <1>15, <2>2 DEF LeaveProxy
    <3>2. Chained(o)' /\ place'[o] = "queued" /\ resume'[o] = "leave"
      BY <1>0, <1>3, <2>0, <3>1 DEF Switch, TypeOK
    <3> QED
      BY <3>2 DEF InItsContext, OnItsThread
  <2> QED
    BY <2>1, <2>2
<1>16. ASSUME NEW o \in Ops, Finish(o) PROVE Good(o)
  <2>1. place'[o] = "ended" /\ UNCHANGED <<scopes, home, caught>>
    BY <1>0, <1>16 DEF Finish, TypeOK, history
  <2> QED
    BY <1>3, <2>1 DEF InItsContext, OnItsThread
<1>17. ASSUME NEW o \in Ops, Proceed(o) PROVE Good(o)
  <2>1. /\ place[o] = "waiting" /\ place'[o] = "queued"
        /\ UNCHANGED <<scopes, home, caught, resume, scheduler, flight>>
    BY <1>0, <1>17 DEF Proceed, TypeOK, history, opVars
  <2>2. Chained(o)'
    BY <1>3, <2>1
  <2> QED
    BY <1>2, <2>1, <2>2 DEF InItsContext, OnItsThread, InContext
<1>18. ASSUME NEW o \in Ops, NEW s \in Schedulers, RunAsync(o, s) PROVE Good(o)
  <2>1. /\ place[o] = "absent" /\ place'[o] = "queued" /\ scopes' = scopes
        /\ scheduler'[o] = s /\ home'[o] = s
    BY <1>0, <1>18 DEF RunAsync, TypeOK
  <2>2. scopes'[o] = <<>> /\ Len(scopes'[o]) = 0 /\ DOMAIN scopes'[o] = {}
    <3>1. scopes'[o] = <<>>
      BY <1>0, <2>1 DEF PlaceInv
    <3> QED
      BY <3>1
  <2>3. Chained(o)'
    BY <2>2 DEF Chained
  <2>4. InContext(home'[o], scopes'[o], Len(scopes'[o]), scheduler'[o])
    BY <2>1, <2>2 DEF InContext
  <2> QED
    BY <1>5, <2>1, <2>3, <2>4
<1>19. ASSUME NEW t \in Threads, NEW s \in Schedulers, Dispatch(t, s) PROVE ContextInv'
  <2>1. PICK o \in Ops :
              /\ place[o] = "queued" /\ scheduler[o] = s /\ t \in ThreadsOf[s]
              /\ place' = [place EXCEPT ![o] = "running"] /\ thread' = [thread EXCEPT ![o] = t]
              /\ resume[o] \in {"enter", "leave"} => scopes[o] # <<>> /\ Last(scopes[o]).kind = "proxy"
              /\ GoesOn(o, t)
    BY <1>19, Dispatched
  <2>2. UNCHANGED <<scheduler, resume, home, caught>>
    BY <1>19 DEF Dispatch, history
  <2>3. \A p \in Ops \ {o} : Untouched(p)
    BY <1>0, <2>1, <2>2 DEF GoesOn, Raise, Pop, TypeOK, Untouched
  <2>4. scopes' = scopes \/ (scopes[o] # <<>> /\ Pop(o))
    BY <2>1 DEF GoesOn
  <2>5. Chained(o)'
    <3>1. CASE scopes' = scopes
      BY <1>3, <2>2, <3>1
    <3>2. CASE scopes[o] # <<>> /\ Pop(o)
      BY <1>0, <1>2, <2>2, <3>2, ContextPop
    <3> QED
      BY <2>4, <3>1, <3>2
  <2>6. CASE resume[o] # "start" /\ Throws(o, t)
    <3>1. flight'[o] = "event"
      BY <1>0, <2>1, <2>6 DEF GoesOn, Raise, TypeOK
    <3> QED
      BY <1>1, <1>4, <2>3, <2>5, <3>1
  <2>7. CASE ~(resume[o] # "start" /\ Throws(o, t))
    <3>1. flight' = flight /\ IF resume[o] = "leave" THEN Pop(o) ELSE scopes' = scopes
      BY <2>1, <2>7 DEF GoesOn
    <3>2. place'[o] = "running" /\ thread'[o] = t
      BY <1>0, <2>1 DEF TypeOK
    <3>3. OnItsThread(o)'
      BY <2>1, <2>2, <3>2 DEF OnItsThread
    <3>4. CASE resume[o] = "leave"
      <4>1. scheduler[o] = Last(scopes[o]).source
        BY <1>0, <2>1, <3>4 DEF ResumeInv
      <4>2. ~caught[o] => InContext(home'[o], scopes'[o], Len(scopes'[o]), Last(scopes[o]).source)
        BY <1>0, <1>2, <2>1, <2>2, <3>1, <3>4, ContextPop
      <4>3. InItsContext(o)'
        BY <2>2, <4>1, <4>2 DEF InItsContext
      <4> QED
        BY <1>1, <2>3, <2>5, <3>3, <4>3
    <3>5. CASE resume[o] # "leave"
      <4>1. InItsContext(o)'
        BY <1>2, <2>1, <2>2, <3>1, <3>2, <3>5 DEF InItsContext, InContext
      <4> QED
        BY <1>1, <2>3, <2>5, <3>3, <4>1
    <3> QED
      BY <3>4, <3>5
  <2> QED
    BY <2>6, <2>7
<1>20. ASSUME NEW o \in Ops, Body(o) \/ Leave(o) \/ Proceed(o) PROVE ContextInv'
  <2>1. Good(o)
    BY <1>6, <1>7, <1>8, <1>9, <1>11, <1>12, <1>13, <1>14, <1>15, <1>16, <1>17, <1>20 DEF Body, Leave
  <2> QED
    BY <1>1, <1>20, <2>1, ActsForItself
<1>21. ASSUME NEW o \in Ops, NEW s \in Schedulers, RunAsync(o, s) PROVE ContextInv'
  BY <1>1, <1>18, <1>21, ActsForItself
<1>22. ASSUME \/ \E o \in Ops : CancelBegin(o) \/ CancelEnd(o) \/ Reset(o)
              \/ \E k \in Timers : TimerExpires(k) \/ TimedoutBegin(k) \/ TimedoutEnd(k)
              \/ UNCHANGED vars
       PROVE  ContextInv'
  <2>1. \A p \in Ops : Untouched(p)
    BY <1>22, TouchesNone DEF Untouched
  <2> QED
    BY <2>1, ContextUntouched DEF ContextInv
<1> QED
  BY <1>19, <1>20, <1>21, <1>22 DEF Next, Others


-----------------------------------------------------------------------------
(* Exceptions in flight. *)

\* What std::uncaught_exception tells an operation.
LEMMA UncaughtIs ==
    ASSUME TypeOK, PlaceInv, UncaughtInv, ~carried, NEW o \in Ops, place[o] = "running"
    PROVE  uncaught[thread[o]] = IF flight[o] # "none" THEN 1 ELSE 0
<1>1. thread[o] \in Threads /\ \A p \in Ops \ {o} : thread[p] # thread[o]
  BY OnThread
<1>2. (\E p \in Ops : thread[p] = thread[o] /\ flight[p] # "none") <=> flight[o] # "none"
  BY <1>1
<1> QED
  BY <1>1, <1>2 DEF UncaughtInv

\* A step of one operation, on a thread that is its own.
LEMMA UncaughtOne ==
    ASSUME TypeOK, UncaughtInv, ~carried, NEW o \in Ops, NEW t \in Threads,
           \A p \in Ops \ {o} :
              thread[p] # t /\ flight'[p] = flight[p] /\ thread'[p] = thread[p] /\ place'[p] = place[p],
           thread[o] \in {t, Null}, thread'[o] \in {t, Null},
           flight'[o] # "none" => place'[o] = "running" /\ thread'[o] = t,
           \A u \in Threads \ {t} : uncaught'[u] = uncaught[u],
           uncaught'[t] = IF flight'[o] # "none" THEN 1 ELSE 0
    PROVE  UncaughtInv'
<1>1. \A p \in Ops : flight'[p] # "none" => place'[p] = "running"
  BY DEF UncaughtInv
<1>2. \A u \in Threads :
         uncaught'[u] = IF \E p \in Ops : thread'[p] = u /\ flight'[p] # "none" THEN 1 ELSE 0
  <2> SUFFICES ASSUME NEW u \in Threads
               PROVE  uncaught'[u] = IF \E p \in Ops : thread'[p] = u /\ flight'[p] # "none" THEN 1 ELSE 0
    OBVIOUS
  <2>1. CASE u = t
    <3>1. (\E p \in Ops : thread'[p] = t /\ flight'[p] # "none") <=> flight'[o] # "none"
      OBVIOUS
    <3> QED
      BY <2>1, <3>1
  <2>2. CASE u # t
    <3>1. thread[o] # u /\ thread'[o] # u
      BY <2>2, ScopesAssumption
    <3>2. (\E p \in Ops : thread'[p] = u /\ flight'[p] # "none")
             <=> (\E p \in Ops : thread[p] = u /\ flight[p] # "none")
      BY <3>1
    <3> QED
      BY <2>2, <3>2 DEF UncaughtInv
  <2> QED
    BY <2>1, <2>2
<1> QED
  BY <1>1, <1>2 DEF UncaughtInv

\* A step that neither throws nor catches and leaves the running operations
\* where they are.
LEMMA UncaughtKeep ==
    ASSUME UncaughtInv, carried' \/ ~carried, UNCHANGED <<flight, thread, uncaught>>,
           \A p \in Ops : place[p] = "running" => place'[p] = "running"
    PROVE  UncaughtInv'
BY DEF UncaughtInv

\* std::uncaught_exception stays right until an exception changes threads.
LEMMA UncaughtStep ==
    ASSUME StructInv, UncaughtInv, [Next]_vars
    PROVE  UncaughtInv'
<1>0. TypeOK /\ PlaceInv /\ ScopeInv
  BY DEF StructInv
<1>1. CASE carried'
  BY <1>1 DEF UncaughtInv
<1>2. ASSUME NEW o \in Ops, place[o] = "running", ~carried,
             \A p \in Ops \ {o} : Untouched(p), thread'[o] \in {thread[o], Null},
             flight'[o] # "none" => place'[o] = "running" /\ thread'[o] = thread[o],
             \/ uncaught' = uncaught /\ (flight'[o] = "none" <=> flight[o] = "none")
             \/ /\ uncaught' = [uncaught EXCEPT ![thread[o]] = @ + 1]
                /\ flight[o] = "none" /\ flight'[o] # "none"
             \/ /\ uncaught' = [uncaught EXCEPT ![thread[o]] = @ - 1]
                /\ flight[o] # "none" /\ flight'[o] = "none"
      PROVE  UncaughtInv'
  <2>1. thread[o] \in Threads /\ \A p \in Ops \ {o} : thread[p] # thread[o]
    BY <1>0, <1>2, OnThread
  <2>2. uncaught[thread[o]] = IF flight[o] # "none" THEN 1 ELSE 0
    BY <1>0, <1>2, UncaughtIs
  <2>3. /\ \A u \in Threads \ {thread[o]} : uncaught'[u] = uncaught[u]
        /\ uncaught'[thread[o]] = IF flight'[o] # "none" THEN 1 ELSE 0
    BY <1>0, <1>2, <2>1, <2>2 DEF TypeOK
  <2>4. \A p \in Ops \ {o} : flight'[p] = flight[p] /\ thread'[p] = thread[p] /\ place'[p] = place[p]
    BY <1>2 DEF Untouched
  <2> QED
    BY <1>0, <1>2, <2>1, <2>3, <2>4, UncaughtOne
<1>3. ASSUME NEW o \in Ops, Body(o) \/ Leave(o), ~carried' PROVE UncaughtInv'
  <2>0. place[o] = "running"
    BY <1>3 DEF Body, HandleEvents, Throw, Catch, Wait, EnterGuard, EnterTimeout, EnterProxy, Call, Running,
           Leave, LeaveGuard, LeaveTimeout, LeaveProxy, Finish, Leaves
  <2>1. ~carried
    BY <1>3 DEF Body, HandleEvents, Throw, Catch, Wait, EnterGuard, EnterTimeout, EnterProxy,
           Leave, LeaveGuard, LeaveTimeout, LeaveProxy, Finish, history
  <2>2. \A p \in Ops \ {o} : Untouched(p)
    BY <1>3, ActsForItself
  <2>3. ASSUME Raise(o, thread[o], "event") \/ Raise(o, thread[o], "other"), flight[o] = "none",
               UNCHANGED <<place, thread>>
        PROVE  UncaughtInv'
    <3>1. flight'[o] # "none" /\ uncaught' = [uncaught EXCEPT ![thread[o]] = @ + 1]
      BY <1>0, <2>3 DEF Raise, TypeOK
    <3> QED
      BY <1>2, <2>0, <2>1, <2>2, <2>3, <3>1
  <2>4. ASSUME UNCHANGED <<flight, uncaught>>, flight[o] = "none", thread'[o] = Null PROVE UncaughtInv'
    BY <1>2, <2>0, <2>1, <2>2, <2>4
  <2>5. ASSUME UNCHANGED <<flight, uncaught, thread, place>> PROVE UncaughtInv'
    BY <2>1, <2>5, UncaughtKeep
  <2>6. CASE HandleEvents(o) \/ Throw(o)
    BY <2>3, <2>6 DEF HandleEvents, Throw, Call
  <2>7. CASE Catch(o)
    <3>1. flight[o] # "none" /\ flight'[o] = "none" /\ uncaught' = [uncaught EXCEPT ![thread[o]] = @ - 1]
      BY <1>0, <2>7 DEF Catch, TypeOK
    <3>2. thread' = thread
      BY <2>7 DEF Catch
    <3> QED
      BY <1>2, <2>0, <2>1, <2>2, <3>1, <3>2
  <2>8. CASE Wait(o)
    <3>1. flight[o] = "none"
      BY <2>8 DEF Wait, Call
    <3>2. CASE Throws(o, thread[o])
      BY <2>3, <2>8, <3>1, <3>2 DEF Wait
    <3>3. CASE ~Throws(o, thread[o])
      <4>1. thread'[o] = Null /\ UNCHANGED <<flight, uncaught>>
        BY <1>0, <2>8, <3>3 DEF Wait, TypeOK
      <4> QED
        BY <2>4, <3>1, <4>1
    <3> QED
      BY <3>2, <3>3
  <2>9. CASE EnterGuard(o)
    <3>1. flight[o] = "none" /\ UNCHANGED <<place, thread>>
      BY <2>9 DEF EnterGuard, Call
    <3>2. Raise(o, thread[o], "event") \/ UNCHANGED <<flight, uncaught>>
      BY <2>9 DEF EnterGuard, DisableEvents
    <3> QED
      BY <2>3, <2>5, <3>1, <3>2
  <2>10. CASE EnterTimeout(o) \/ LeaveGuard(o) \/ LeaveTimeout(o)
    BY <2>5, <2>10 DEF EnterTimeout, LeaveGuard, LeaveTimeout, runVars
  <2>11. ASSUME NEW s \in Schedulers, EnterProxy(o, s) PROVE UncaughtInv'
    <3>1. flight[o] = "none"
      BY <2>11 DEF EnterProxy, Call
    <3>2. \/ UNCHANGED <<flight, uncaught, thread, place>>
          \/ Raise(o, thread[o], "event") /\ UNCHANGED <<place, thread>>
          \/ Switch(o, s, "enter") /\ UNCHANGED <<flight, uncaught>>
      BY <2>11 DEF EnterProxy, runVars
    <3>3. Switch(o, s, "enter") => thread'[o] = Null
      BY <1>0 DEF Switch, TypeOK
    <3> QED
      BY <2>3, <2>4, <2>5, <3>1, <3>2, <3>3
  <2>12. CASE LeaveProxy(o)
    <3>1. \/ UNCHANGED <<flight, uncaught, thread, place>>
          \/ /\ Switch(o, Last(scopes[o]).source, "leave") /\ UNCHANGED <<flight, uncaught>>
             /\ flight[o] = "none"
      BY <1>3, <2>12 DEF LeaveProxy
    <3>2. Switch(o, Last(scopes[o]).source, "leave") => thread'[o] = Null
      BY <1>0 DEF Switch, TypeOK
    <3> QED
      BY <2>4, <2>5, <3>1, <3>2
  <2>13. CASE Finish(o)
    <3>1. flight'[o] = "none" /\ thread'[o] = Null
      BY <1>0, <2>13 DEF Finish, TypeOK
    <3>2. IF flight[o] = "none" THEN uncaught' = uncaught
                                ELSE uncaught' = [uncaught EXCEPT ![thread[o]] = @ - 1]
      BY <2>13 DEF Finish
    <3> QED
      BY <1>2, <2>0, <2>1, <2>2, <3>1, <3>2
  <2> QED
    BY <1>3, <2>6, <2>7, <2>8, <2>9, <2>10, <2>11, <2>12, <2>13 DEF Body, Leave
<1>4. ASSUME NEW o \in Ops, Proceed(o) \/ \E s \in Schedulers : RunAsync(o, s) PROVE UncaughtInv'
  <2>1. carried' = carried /\ UNCHANGED <<flight, thread, uncaught>>
    BY <1>4 DEF Proceed, RunAsync, opVars, history
  <2>2. \A p \in Ops : place[p] = "running" => place'[p] = "running"
    BY <1>0, <1>4 DEF Proceed, RunAsync, TypeOK
  <2>3. carried' \/ ~carried
    BY <2>1
  <2> QED
    BY <2>1, <2>2, <2>3, UncaughtKeep
<1>5. ASSUME NEW t \in Threads, NEW s \in Schedulers, Dispatch(t, s), ~carried' PROVE UncaughtInv'
  <2>0. ~carried
    BY <1>5 DEF Dispatch, history
  <2>1. PICK o \in Ops :
              /\ place[o] = "queued" /\ thread[o] = Null /\ \A p \in Ops : thread[p] # t
              /\ place' = [place EXCEPT ![o] = "running"] /\ thread' = [thread EXCEPT ![o] = t]
              /\ GoesOn(o, t)
    BY <1>5, Dispatched
  <2>2. flight[o] = "none" /\ uncaught[t] = 0
    BY <2>0, <2>1 DEF UncaughtInv
  <2>3. /\ place'[o] = "running" /\ thread'[o] = t
        /\ \A p \in Ops \ {o} : thread'[p] = thread[p] /\ place'[p] = place[p]
    BY <1>0, <2>1 DEF TypeOK
  <2>4. UNCHANGED <<flight, uncaught>> \/ Raise(o, t, "event")
    BY <2>1 DEF GoesOn
  <2>5. /\ \A p \in Ops \ {o} : flight'[p] = flight[p]
        /\ \A u \in Threads \ {t} : uncaught'[u] = uncaught[u]
        /\ uncaught'[t] = IF flight'[o] # "none" THEN 1 ELSE 0
    BY <1>0, <2>2, <2>4 DEF Raise, TypeOK
  <2> QED
    BY <1>0, <2>0, <2>1, <2>3, <2>5, UncaughtOne
<1>6. ASSUME \/ \E o \in Ops : CancelBegin(o) \/ CancelEnd(o) \/ Reset(o)
             \/ \E k \in Timers : TimerExpires(k) \/ TimedoutBegin(k) \/ TimedoutEnd(k)
             \/ UNCHANGED vars
      PROVE  UncaughtInv'
  <2>1. carried' = carried /\ UNCHANGED <<flight, thread, uncaught, place>>
    BY <1>6, TouchesNone
  <2>2. carried' \/ ~carried
    BY <2>1
  <2> QED
    BY <2>1, <2>2, UncaughtKeep
<1> QED
  BY <1>1, <1>3, <1>4, <1>5, <1>6 DEF Next, Others


-----------------------------------------------------------------------------
(* std::terminate. *)

\* What disturbs an operation is not forgotten.
LEMMA Disturbs ==
    ASSUME TypeOK, [Next]_vars, Undisturbed'
    PROVE  Undisturbed
<1>1. ~struck
  BY DEF Next, Body, HandleEvents, Throw, Catch, Wait, EnterGuard, EnterTimeout, EnterProxy,
         Leave, LeaveGuard, LeaveTimeout, LeaveProxy, Finish, Proceed, Dispatch, Others, RunAsync, CancelBegin,
         CancelEnd, Reset, TimerExpires, TimedoutBegin, TimedoutEnd, ChangeStatus, vars, history, Undisturbed
<1>2. ~carried
  BY DEF Next, Body, HandleEvents, Throw, Catch, Wait, EnterGuard, EnterTimeout, EnterProxy,
         Leave, LeaveGuard, LeaveTimeout, LeaveProxy, Finish, Proceed, Dispatch, Others, RunAsync, CancelBegin,
         CancelEnd, Reset, TimerExpires, TimedoutBegin, TimedoutEnd, vars, history, Undisturbed
<1>3. caught' = caught \/ \E o \in Ops : Catch(o)
  BY DEF Next, Body, HandleEvents, Throw, Wait, EnterGuard, EnterTimeout, EnterProxy,
         Leave, LeaveGuard, LeaveTimeout, LeaveProxy, Finish, Proceed, Dispatch, Others, RunAsync, CancelBegin,
         CancelEnd, Reset, TimerExpires, TimedoutBegin, TimedoutEnd, vars, history
<1>4. ASSUME NEW o \in Ops, Catch(o) PROVE \A p \in Ops : caught[p] => caught'[p]
  <2>1. caught' = [caught EXCEPT ![o] = caught[o] \/ flight[o] = "event"]
    BY <1>4 DEF Catch
  <2>2. caught'[o] = (caught[o] \/ flight[o] = "event") /\ \A p \in Ops \ {o} : caught'[p] = caught[p]
    BY <2>1 DEF TypeOK
  <2> QED
    BY <2>2
<1>5. \A p \in Ops : ~caught[p]
  BY <1>3, <1>4 DEF Undisturbed
<1> QED
  BY <1>1, <1>2, <1>5 DEF Undisturbed

\* No event is pending for an operation that enters a guard or switches.
LEMMA NotPending ==
    ASSUME StructInv, GuardInv, UncaughtInv, EventInv, Undisturbed,
           NEW o \in Ops, Call(o), ~Throws(o, thread[o])
    PROVE  status[o] = "Normal"
<1>1. TypeOK /\ PlaceInv /\ ~carried /\ place[o] = "running" /\ flight[o] = "none"
  BY DEF StructInv, Undisturbed, Call, Running
<1>2. uncaught[thread[o]] = 0
  BY <1>1, UncaughtIs
<1>3. CASE allowed[o]
  BY <1>2, <1>3 DEF Throws
<1>4. CASE ~allowed[o]
  <2>1. InScope(o, "guard")
    BY <1>4 DEF GuardInv, EventsFollowGuards
  <2> QED
    BY <2>1 DEF InScope, EventInv
<1> QED
  BY <1>3, <1>4

\* A proxy that switches back, without an exception, leads elsewhere.
LEMMA SwitchesBack ==
    ASSUME StructInv, ContextInv, NEW o \in Ops, place[o] = "running", ~caught[o], flight[o] = "none",
           scopes[o] # <<>>, Last(scopes[o]).kind = "proxy"
    PROVE  scheduler[o] = Last(scopes[o]).destination
<1>1. InContext(home[o], scopes[o], Len(scopes[o]), scheduler[o])
  BY DEF ContextInv, InItsContext
<1>2. Len(scopes[o]) \in Nat \ {0} /\ Last(scopes[o]) = scopes[o][Len(scopes[o])]
  BY LastScope DEF StructInv
<1> QED
  BY <1>1, <1>2, ContextProxy

\* A status is set only outside of guards and of proxies that switch.
LEMMA EventStep ==
    ASSUME StructInv, GuardInv, UncaughtInv, EventInv, [Next]_vars, Undisturbed, Undisturbed'
    PROVE  EventInv'
<1>0. TypeOK /\ PlaceInv /\ ScopeInv
  BY DEF StructInv
<1> DEFINE Safe(x) == x.kind # "guard" /\ (x.kind = "proxy" => x.source = x.destination)
<1>1. \A o \in Ops : status[o] # "Normal" => \A i \in DOMAIN scopes[o] : Safe(scopes[o][i])
  BY DEF EventInv
<1>2. SUFFICES \A o \in Ops : status'[o] # "Normal" => \A i \in DOMAIN scopes'[o] : Safe(scopes'[o][i])
  BY DEF EventInv
<1> HIDE DEF Safe
<1> DEFINE Goal == \A o \in Ops : status'[o] # "Normal" => \A i \in DOMAIN scopes'[o] : Safe(scopes'[o][i])
<1>3. ASSUME NEW o \in Ops, NEW x \in Scope, Push(o, x), status' = status, status[o] = "Normal" \/ Safe(x)
      PROVE  Goal
  <2>1. /\ \A p \in Ops \ {o} : scopes'[p] = scopes[p]
        /\ \A i \in DOMAIN scopes'[o] :
              (i \in DOMAIN scopes[o] /\ scopes'[o][i] = scopes[o][i]) \/ scopes'[o][i] = x
    BY <1>0, <1>3, PushedDomain
  <2> QED
    BY <1>1, <1>3, <2>1
<1>4. ASSUME NEW o \in Ops, scopes[o] # <<>>, Pop(o), status' = status PROVE Goal
  <2>1. /\ \A p \in Ops \ {o} : scopes'[p] = scopes[p]
        /\ \A i \in DOMAIN scopes'[o] : i \in DOMAIN scopes[o] /\ scopes'[o][i] = scopes[o][i]
    BY <1>0, <1>4, PoppedDomain
  <2> QED
    BY <1>1, <1>4, <2>1
<1>5. ASSUME scopes' = scopes, \A o \in Ops : status'[o] # "Normal" => status[o] # "Normal" PROVE Goal
  BY <1>1, <1>5
<1>6. ASSUME NEW o \in Ops, HandleEvents(o) \/ Throw(o) \/ Catch(o) \/ Wait(o) \/ Finish(o) \/ Proceed(o)
      PROVE  Goal
  BY <1>5, <1>6 DEF HandleEvents, Throw, Catch, Wait, Finish, Proceed, opVars
<1>7. ASSUME NEW o \in Ops, EnterGuard(o) PROVE Goal
  <2>1. status' = status /\ Call(o)
    BY <1>7 DEF EnterGuard
  <2>2. scopes' = scopes \/ (Push(o, Guard) /\ ~Throws(o, thread[o]))
    BY <1>7 DEF EnterGuard, DisableEvents
  <2>3. ~Throws(o, thread[o]) => status[o] = "Normal"
    BY <2>1, NotPending
  <2> QED
    BY <1>3, <1>5, <2>1, <2>2, <2>3, ScopeTypes
<1>8. ASSUME NEW o \in Ops, EnterTimeout(o) PROVE Goal
  <2>1. PICK k \in Timers : Push(o, TimeoutOf(k)) /\ status' = status
    BY <1>8 DEF EnterTimeout
  <2>2. TimeoutOf(k) \in Scope /\ Safe(TimeoutOf(k))
    BY ScopeTypes DEF Safe
  <2> QED
    BY <1>3, <2>1, <2>2
<1>9. ASSUME NEW o \in Ops, NEW s \in Schedulers, EnterProxy(o, s) PROVE Goal
  <2>1. status' = status /\ Call(o) /\ place[o] = "running"
    BY <1>9 DEF EnterProxy, Call, Running
  <2>2. /\ Proxy(scheduler[o], s) \in Scope
        /\ s = scheduler[o] => Safe(Proxy(scheduler[o], s))
    BY <1>0, <2>1, OnThread, ScopeTypes DEF Safe
  <2>3. \/ scopes' = scopes
        \/ Push(o, Proxy(scheduler[o], s)) /\ (s = scheduler[o] \/ ~Throws(o, thread[o]))
    BY <1>9 DEF EnterProxy
  <2>4. ~Throws(o, thread[o]) => status[o] = "Normal"
    BY <2>1, NotPending
  <2> QED
    BY <1>3, <1>5, <2>1, <2>2, <2>3, <2>4
<1>10. ASSUME NEW o \in Ops, LeaveGuard(o) \/ LeaveTimeout(o) \/ LeaveProxy(o) PROVE Goal
  <2>1. status' = status /\ scopes[o] # <<>> /\ (scopes' = scopes \/ Pop(o))
    BY <1>10 DEF LeaveGuard, LeaveTimeout, LeaveProxy, Leaves
  <2> QED
    BY <1>4, <1>5, <2>1
<1>11. ASSUME NEW t \in Threads, NEW s \in Schedulers, Dispatch(t, s) PROVE Goal
  <2>1. PICK o \in Ops : /\ resume[o] \in {"enter", "leave"} => scopes[o] # <<>>
                         /\ GoesOn(o, t)
    BY <1>11, Dispatched
  <2>2. scopes' = scopes \/ (scopes[o] # <<>> /\ Pop(o))
    BY <2>1 DEF GoesOn
  <2>3. status' = status
    BY <1>11 DEF Dispatch
  <2> QED
    BY <1>4, <1>5, <2>2, <2>3
<1>12. ASSUME NEW o \in Ops \cup {Null}, NEW st, ChangeStatus(o, st), scopes' = scopes PROVE Goal
  <2>1. \A p \in Ops \ {o} : status'[p] = status[p]
    BY <1>0, <1>12 DEF ChangeStatus, TypeOK
  <2>2. o \in Ops => \A i \in DOMAIN scopes[o] : scopes[o][i].kind = "timeout"
    <3>1. struck' = (struck \/ Exposed(o)) /\ ~struck'
      BY <1>12 DEF ChangeStatus, Undisturbed
    <3>2. ~Exposed(o)
      BY <3>1
    <3> QED
      BY <3>2 DEF Exposed
  <2>3. \A x : x.kind = "timeout" => Safe(x)
    BY DEF Safe
  <2> QED
    BY <1>1, <1>12, <2>1, <2>2, <2>3
<1>13. ASSUME NEW o \in Ops, CancelEnd(o) PROVE Goal
  BY <1>12, <1>13 DEF CancelEnd
<1>14. ASSUME NEW k \in Timers, TimedoutEnd(k) PROVE Goal
  <2>1. owner[k] \in Ops \cup {Null}
    BY <1>0 DEF TypeOK
  <2> QED
    BY <1>12, <1>14, <2>1 DEF TimedoutEnd
<1>15. ASSUME NEW o \in Ops, Reset(o) PROVE Goal
  <2>1. scopes' = scopes /\ \A p \in Ops : status'[p] # "Normal" => status[p] # "Normal"
    BY <1>0, <1>15 DEF Reset, TypeOK
  <2> QED
    BY <1>5, <2>1
<1>16. ASSUME NEW o \in Ops, CancelBegin(o) \/ \E s \in Schedulers : RunAsync(o, s) PROVE Goal
  BY <1>5, <1>16 DEF CancelBegin, RunAsync, opVars
<1>17. ASSUME NEW k \in Timers, TimerExpires(k) \/ TimedoutBegin(k) PROVE Goal
  BY <1>5, <1>17 DEF TimerExpires, TimedoutBegin, opVars
<1>18. CASE UNCHANGED vars
  BY <1>5, <1>18 DEF vars, opVars
<1> QED
  BY <1>6, <1>7, <1>8, <1>9, <1>10, <1>11, <1>13, <1>14, <1>15, <1>16, <1>17, <1>18
     DEF Next, Body, Leave, Others

\* std::terminate is not called before something disturbs an operation.
LEMMA CalmStep ==
    ASSUME StructInv, GuardInv, ContextInv, UncaughtInv, CalmInv, [Next]_vars
    PROVE  CalmInv'
<1>0. TypeOK /\ PlaceInv /\ ScopeInv /\ ResumeInv
  BY DEF StructInv
<1>1. CASE ~Undisturbed'
  BY <1>1 DEF CalmInv, LeaveInv, EventInv, Survives, Undisturbed
<1>2. SUFFICES ASSUME Undisturbed' PROVE CalmInv'
  BY <1>1
<1>3. Undisturbed /\ LeaveInv /\ EventInv /\ ~terminated
  <2>1. Undisturbed
    BY <1>0, <1>2, Disturbs
  <2> QED
    BY <2>1 DEF CalmInv, Survives, Undisturbed
<1>4. EventInv'
  BY <1>2, <1>3, EventStep
<1>5. ASSUME NEW o \in Ops, scopes[o] # <<>>, Last(scopes[o]).kind = "guard" PROVE status[o] = "Normal"
  BY <1>0, <1>3, <1>5, LastScope DEF EventInv
<1>6. ASSUME NEW o \in Ops, scopes[o] # <<>>, Last(scopes[o]).kind = "proxy",
             Last(scopes[o]).source # Last(scopes[o]).destination
      PROVE  status[o] = "Normal"
  BY <1>0, <1>3, <1>6, LastScope DEF EventInv
<1>7. ASSUME NEW o \in Ops, LeaveProxy(o), Last(scopes[o]).source # scheduler[o]
      PROVE  /\ scopes[o] # <<>> /\ Last(scopes[o]).kind = "proxy"
             /\ Last(scopes[o]).source # Last(scopes[o]).destination
  <2>1. scopes[o] # <<>> /\ Last(scopes[o]).kind = "proxy" /\ place[o] = "running"
    BY <1>7 DEF LeaveProxy, Leaves, Running
  <2>2. flight[o] = "none"
    <3>1. carried' = (carried \/ flight[o] # "none") /\ ~carried'
      BY <1>2, <1>7 DEF LeaveProxy, Undisturbed
    <3> QED
      BY <3>1
  <2>3. ~caught[o]
    BY <1>3 DEF Undisturbed
  <2> QED
    BY <1>7, <2>1, <2>2, <2>3, SwitchesBack
<1>8. ~terminated'
  <2>1. ASSUME NEW o \in Ops, LeaveGuard(o) PROVE ~terminated'
    <3>1. scopes[o] # <<>> /\ Last(scopes[o]).kind = "guard"
      BY <2>1 DEF LeaveGuard, Leaves
    <3>2. terminated' = (uncaught[thread[o]] = 0 /\ status[o] # "Normal")
      BY <2>1 DEF LeaveGuard
    <3> QED
      BY <1>5, <3>1, <3>2
  <2>2. ASSUME NEW o \in Ops, LeaveProxy(o) PROVE ~terminated'
    <3>1. CASE Last(scopes[o]).source = scheduler[o]
      BY <1>3, <2>2, <3>1 DEF LeaveProxy
    <3>2. CASE Last(scopes[o]).source # scheduler[o]
      <4>1. status[o] = "Normal"
        BY <1>6, <1>7, <2>2, <3>2
      <4>2. terminated' = Throws(o, thread[o])
        BY <2>2, <3>2 DEF LeaveProxy
      <4> QED
        BY <4>1, <4>2 DEF Throws
    <3> QED
      BY <3>1, <3>2
  <2>3. ASSUME NEW t \in Threads, NEW s \in Schedulers, Dispatch(t, s) PROVE ~terminated'
    <3>1. PICK o \in Ops :
                /\ place[o] = "queued"
                /\ resume[o] \in {"enter", "leave"} => scopes[o] # <<>> /\ Last(scopes[o]).kind = "proxy"
                /\ GoesOn(o, t)
      BY <2>3, Dispatched
    <3>2. CASE resume[o] # "start" /\ Throws(o, t)
      <4>1. terminated' = (resume[o] = "leave") /\ status[o] # "Normal"
        BY <3>1, <3>2 DEF GoesOn, Throws
      <4>2. resume[o] = "leave" => status[o] = "Normal"
        BY <1>3, <1>6, <3>1 DEF LeaveInv
      <4> QED
        BY <4>1, <4>2
    <3>3. CASE ~(resume[o] # "start" /\ Throws(o, t))
      BY <1>3, <3>1, <3>3 DEF GoesOn
    <3> QED
      BY <3>2, <3>3
  <2>4. terminated' = terminated \/ (\E o \in Ops : LeaveGuard(o) \/ LeaveProxy(o))
           \/ \E t \in Threads, s \in Schedulers : Dispatch(t, s)
    BY DEF Next, Body, HandleEvents, Throw, Catch, Wait, EnterGuard, EnterTimeout, EnterProxy,
           Leave, LeaveTimeout, Finish, Proceed, Others, RunAsync, CancelBegin,
           CancelEnd, Reset, TimerExpires, TimedoutBegin, TimedoutEnd, vars
  <2> QED
    BY <1>3, <2>1, <2>2, <2>3, <2>4
<1>9. LeaveInv'
  <2>1. SUFFICES ASSUME NEW p \in Ops, place'[p] = "queued", resume'[p] = "leave"
                 PROVE  Last(scopes'[p]).source # Last(scopes'[p]).destination
    BY DEF LeaveInv
  <2>2. ASSUME Untouched(p) PROVE Last(scopes'[p]).source # Last(scopes'[p]).destination
    BY <1>3, <2>1, <2>2 DEF LeaveInv, Untouched
  <2>3. ASSUME Body(p) PROVE FALSE
    <3>1. CASE HandleEvents(p) \/ Throw(p) \/ Catch(p) \/ EnterGuard(p)
      BY <2>1, <3>1 DEF HandleEvents, Throw, Catch, EnterGuard, Call, Running
    <3>2. CASE EnterTimeout(p)
      BY <2>1, <3>2 DEF EnterTimeout, Call, Running, runVars
    <3>3. CASE Wait(p)
      BY <1>0, <2>1, <3>3 DEF Wait, Call, Running, TypeOK
    <3>4. ASSUME NEW s \in Schedulers, EnterProxy(p, s) PROVE FALSE
      <4>1. place[p] = "running" /\ (place' = place \/ Switch(p, s, "enter"))
        BY <3>4 DEF EnterProxy, Call, Running, runVars
      <4> QED
        BY <1>0, <2>1, <4>1 DEF Switch, TypeOK
    <3> QED
      BY <2>3, <3>1, <3>2, <3>3, <3>4 DEF Body
  <2>4. ASSUME Leave(p) PROVE Last(scopes'[p]).source # Last(scopes'[p]).destination
    <3>1. CASE LeaveGuard(p) \/ LeaveTimeout(p)
      BY <2>1, <3>1 DEF LeaveGuard, LeaveTimeout, Leaves, Running, runVars
    <3>2. CASE Finish(p)
      BY <1>0, <2>1, <3>2 DEF Finish, TypeOK
    <3>3. CASE LeaveProxy(p)
      <4>1. place[p] = "running"
        BY <3>3 DEF LeaveProxy, Leaves, Running
      <4>2. Last(scopes[p]).source # scheduler[p] /\ scopes' = scopes
        BY <2>1, <3>3, <4>1 DEF LeaveProxy
      <4> QED
        BY <1>7, <3>3, <4>2
    <3> QED
      BY <2>4, <3>1, <3>2, <3>3 DEF Leave
  <2>5. ASSUME Proceed(p) PROVE FALSE
    <3>1. place[p] = "waiting" /\ resume' = resume
      BY <2>5 DEF Proceed
    <3> QED
      BY <1>0, <2>1, <3>1 DEF PlaceInv
  <2>6. ASSUME NEW s \in Schedulers, RunAsync(p, s) PROVE FALSE
    <3>1. place[p] = "absent" /\ resume' = resume
      BY <2>6 DEF RunAsync
    <3> QED
      BY <1>0, <2>1, <3>1 DEF PlaceInv
  <2>7. ASSUME NEW o \in Ops \ {p}, Body(o) \/ Leave(o) \/ Proceed(o) \/ \E s \in Schedulers : RunAsync(o, s)
        PROVE  Untouched(p)
    BY <2>7, ActsForItself
  <2>8. ASSUME NEW t \in Threads, NEW s \in Schedulers, Dispatch(t, s) PROVE Untouched(p)
    <3>1. PICK o \in Ops :
                /\ place' = [place EXCEPT ![o] = "running"] /\ thread' = [thread EXCEPT ![o] = t]
                /\ GoesOn(o, t)
      BY <2>8, Dispatched
    <3>2. UNCHANGED <<scheduler, resume, home, caught>>
      BY <2>8 DEF Dispatch, history
    <3>3. p # o
      BY <1>0, <2>1, <3>1 DEF TypeOK
    <3> QED
      BY <1>0, <3>1, <3>2, <3>3 DEF GoesOn, Raise, Pop, TypeOK, Untouched
  <2>9. ASSUME \/ \E o \in Ops : CancelBegin(o) \/ CancelEnd(o) \/ Reset(o)
               \/ \E k \in Timers : TimerExpires(k) \/ TimedoutBegin(k) \/ TimedoutEnd(k)
               \/ UNCHANGED vars
        PROVE  Untouched(p)
    BY <2>9, TouchesNone DEF Untouched
  <2>10. ASSUME NEW o \in Ops, Body(o) \/ Leave(o) \/ Proceed(o) \/ \E s \in Schedulers : RunAsync(o, s)
         PROVE  Last(scopes'[p]).source # Last(scopes'[p]).destination
    <3>1. CASE o = p
      BY <2>3, <2>4, <2>5, <2>6, <2>10, <3>1
    <3>2. CASE o # p
      BY <2>2, <2>7, <2>10, <3>2
    <3> QED
      BY <3>1, <3>2
  <2> QED
    BY <2>2, <2>8, <2>9, <2>10 DEF Next, Others
<1> QED
  BY <1>4, <1>8, <1>9 DEF CalmInv, Survives


-----------------------------------------------------------------------------
(* The theorems. *)

\* The invariant holds before any operation is started.
LEMMA ScopesInit == Init => ScopesInv
<1> SUFFICES ASSUME Init PROVE ScopesInv
  OBVIOUS
<1>0. /\ \A o \in Ops : /\ scopes[o] = <<>> /\ place[o] = "absent" /\ resume[o] = "start"
                        /\ flight[o] = "none" /\ status[o] = "Normal" /\ thread[o] = Null
                        /\ scheduler[o] = Null /\ home[o] = Null
      /\ \A o \in Ops : DOMAIN scopes[o] = {} /\ Len(scopes[o]) = 0
      /\ \A s \in Schedulers : DOMAIN queue[s] = {}
  BY DEF Init
<1>1. TypeOK
  <2>1. /\ status \in [Ops -> AsyncOpStatus] /\ allowed \in [Ops -> BOOLEAN]
        /\ scheduler \in [Ops -> Schedulers \cup {Null}] /\ scopes \in [Ops -> Seq(Scope)]
        /\ flight \in [Ops -> Flights] /\ place \in [Ops -> Places]
        /\ thread \in [Ops -> Threads \cup {Null}]
    BY DEF Init, AsyncOpStatus, Flights, Places
  <2>2. /\ resume \in [Ops -> {"start", "wait", "enter", "leave"}] /\ queue \in [Schedulers -> Seq(Ops)]
        /\ uncaught \in [Threads -> Int] /\ timer \in [Timers -> TimerStates]
        /\ owner \in [Timers -> Ops \cup {Null}] /\ cancelling \subseteq Ops
    BY DEF Init, TimerStates
  <2>3. /\ terminated \in BOOLEAN /\ struck \in BOOLEAN /\ carried \in BOOLEAN
        /\ caught \in [Ops -> BOOLEAN] /\ nested \in [Ops -> BOOLEAN]
    BY DEF Init
  <2>4. /\ calls \in [Ops -> 0 .. MaxCalls] /\ home \in [Ops -> Schedulers \cup {Null}]
        /\ rivals \in [Ops -> SUBSET (Ops \cup Timers)]
    BY ScopesAssumption DEF Init
  <2>5. \A o \in Ops : (thread[o] # Null) = (place[o] = "running")
    BY <1>0
  <2> QED
    BY <2>1, <2>2, <2>3, <2>4, <2>5 DEF TypeOK
<1>2. StructInv
  BY <1>0, <1>1 DEF StructInv, QueueInv, PlaceInv, ResumeInv, ScopeInv
<1>3. GuardInv
  <2>1. \A o \in Ops : allowed[o] = TRUE
    BY DEF Init
  <2> QED
    BY <1>0, <2>1 DEF GuardInv, OneGuard, EventsFollowGuards, InScope
<1>5. RivalInv
  BY <1>0 DEF RivalInv
<1>6. ContextInv
  BY <1>0 DEF ContextInv, Chained, InItsContext, OnItsThread, InContext
<1>7. UncaughtInv
  <2>1. \A t \in Threads : uncaught[t] = 0
    BY DEF Init
  <2> QED
    BY <1>0, <2>1 DEF UncaughtInv
<1>8. CalmInv
  <2>1. ~terminated
    BY DEF Init
  <2> QED
    BY <1>0, <2>1 DEF CalmInv, LeaveInv, EventInv, Survives
<1> QED
  BY <1>2, <1>3, <1>5, <1>6, <1>7, <1>8 DEF ScopesInv

\* The inductive invariant: however bodies, threads, Cancel and timers
\* interleave, queues, scopes, contexts and pending exceptions agree.
THEOREM Invariance == Spec => []ScopesInv
<1>1. ASSUME ScopesInv, [Next]_vars PROVE ScopesInv'
  BY <1>1, StructStep, GuardStep, RivalStep, ContextStep, UncaughtStep, CalmStep DEF ScopesInv
<1> QED
  BY <1>1, ScopesInit, PTL DEF Spec

\* The state has its type, and exactly the running operations have threads.
THEOREM TypeCorrectness == Spec => []TypeOK
<1>1. ScopesInv => TypeOK
  BY DEF ScopesInv, StructInv
<1> QED
  BY <1>1, Invariance, PTL

\* is_events_allowed_ is off only while an AsyncOpStateGuard is in scope, and in
\* all of its scope if the operation does not nest guards.
THEOREM GuardSafety == Spec => []EventsFollowGuards
<1>1. ScopesInv => EventsFollowGuards
  BY DEF ScopesInv, GuardInv
<1> QED
  BY <1>1, Invariance, PTL

\* A proxied call runs on a thread of its scheduler, and what follows it on one
\* of the caller's.
THEOREM ProxySafety == Spec => []ProxiesSwitch
<1>1. ASSUME ScopesInv PROVE ProxiesSwitch
  <2>1. SUFFICES ASSUME NEW o \in Ops, place[o] = "running", flight[o] = "none", ~caught[o]
                 PROVE  thread[o] \in ThreadsOf[Context(o)]
    BY DEF ProxiesSwitch
  <2>2. InContext(home[o], scopes[o], Len(scopes[o]), scheduler[o]) /\ thread[o] \in ThreadsOf[scheduler[o]]
    BY <1>1, <2>1 DEF ScopesInv, ContextInv, InItsContext, OnItsThread
  <2> DEFINE P == {i \in DOMAIN scopes[o] : scopes[o][i].kind = "proxy"}
  <2>3. DOMAIN scopes[o] = 1 .. Len(scopes[o]) /\ Len(scopes[o]) \in Nat
    BY <1>1 DEF ScopesInv, StructInv, TypeOK
  <2>4. CASE scheduler[o] = home[o] /\ \A i \in 1 .. Len(scopes[o]) : scopes[o][i].kind # "proxy"
    <3>1. P = {}
      BY <2>3, <2>4
    <3>2. Context(o) = home[o]
      BY <3>1 DEF Context
    <3> QED
      BY <2>2, <2>4, <3>2
  <2>5. ASSUME NEW i \in 1 .. Len(scopes[o]), scopes[o][i].kind = "proxy",
               scheduler[o] = scopes[o][i].destination,
               \A j \in i + 1 .. Len(scopes[o]) : scopes[o][j].kind # "proxy"
        PROVE  thread[o] \in ThreadsOf[Context(o)]
    <3>1. i \in P /\ P # {} /\ P \subseteq Nat
      BY <2>3, <2>5
    <3>2. \A j \in P : j <= i
      <4> SUFFICES ASSUME NEW j \in P, ~(j <= i) PROVE FALSE
        OBVIOUS
      <4>1. j \in i + 1 .. Len(scopes[o])
        BY <2>3
      <4> QED
        BY <2>5, <4>1
    <3>3. \A k \in P : (\A j \in P : j <= k) => k = i
      BY <3>1, <3>2
    <3>4. (CHOOSE k \in P : \A j \in P : j <= k) = i
      BY <3>1, <3>2, <3>3
    <3>5. Context(o) = scopes[o][i].destination
      BY <3>1, <3>4 DEF Context
    <3> QED
      BY <2>2, <2>5, <3>5
  <2> QED
    BY <2>2, <2>4, <2>5 DEF InContext
<1> QED
  BY <1>1, Invariance, PTL

\* std::terminate is called only after an event inside a guard or proxy, a
\* caught event, or an exception carried to another thread.
THEOREM SurvivalSafety == Spec => []Survives
<1>1. ScopesInv => Survives
  BY DEF ScopesInv, CalmInv
<1> QED
  BY <1>1, Invariance, PTL

\* Cancel and Timedout overwrite a status only if they had looked before it
\* was set.
THEOREM StatusSafety == Spec => StatusSticks
<1>1. ScopesInv => \A o \in Ops : status[o] # "Normal" => Setters(o) \ Setters(o)' \subseteq rivals[o]
  BY DEF ScopesInv, RivalInv
<1> QED
  BY <1>1, Invariance, PTL DEF StatusSticks

=============================================================================
