--------------------------- MODULE CoroHelperProofs ---------------------------
(***************************************************************************)
(* Proofs about CoroHelper, for any number of coroutines and threads: when *)
(* coroutines are not nested, Yield suspends the body that calls it.       *)
(***************************************************************************)
EXTENDS CoroHelper, SequenceTheorems, TLAPS

-----------------------------------------------------------------------------
(* Stacks. *)

\* What Start and Resume do to a thread's stack.
LEMMA Pushed ==
    ASSUME NEW S, NEW s \in Seq(S), NEW e \in S
    PROVE  /\ Append(s, e) \in Seq(S)
           /\ Append(s, e) # <<>>
           /\ Len(Append(s, e)) = Len(s) + 1
           /\ DOMAIN Append(s, e) = 1 .. Len(s) + 1
           /\ \A i \in 1 .. Len(s) : Append(s, e)[i] = s[i]
           /\ Append(s, e)[Len(s) + 1] = e
  OBVIOUS

\* What leaving a body does to it.
LEMMA Popped ==
    ASSUME NEW S, NEW s \in Seq(S), s # <<>>
    PROVE  /\ Pop(s) \in Seq(S)
           /\ Len(Pop(s)) = Len(s) - 1
           /\ DOMAIN Pop(s) = 1 .. Len(s) - 1
           /\ \A i \in 1 .. Len(s) - 1 : Pop(s)[i] = s[i]
           /\ Len(s) \in DOMAIN s
           /\ s[Len(s)] \in S
<1>1. Len(s) \in Nat \ {0} /\ DOMAIN s = 1 .. Len(s) /\ \A i \in 1 .. Len(s) : s[i] \in S
  OBVIOUS
<1>2. /\ Pop(s) \in Seq(S)
      /\ Len(Pop(s)) = Len(s) - 1
      /\ \A i \in 1 .. Len(s) - 1 : Pop(s)[i] = s[i]
  BY <1>1, SubSeqProperties DEF Pop
<1> QED
  BY <1>1, <1>2

-----------------------------------------------------------------------------
(* Types. *)

\* Every coroutine, pointer and stack has its type, and stacks are no deeper
\* than callers nest Start and Resume.
THEOREM TypeCorrectness == ASSUME MaxDepth \in Nat PROVE Spec => []TypeOK
<1>1. Init => TypeOK
  BY DEF Init, TypeOK, CoroStates
<1>2. TypeOK /\ [Next]_vars => TypeOK'
  <2> SUFFICES ASSUME TypeOK, [Next]_vars PROVE TypeOK'
    OBVIOUS
  <2>1. ASSUME NEW t \in Threads, NEW c \in Coros, Start(t, c) PROVE TypeOK'
    <3> DEFINE f == [coro |-> c, resumed |-> FALSE, old |-> Null]
    <3>1. f \in Frame
      BY DEF Frame
    <3>2. Append(stack[t], f) \in Seq(Frame) /\ Len(Append(stack[t], f)) <= MaxDepth
      BY <2>1, <3>1, Pushed DEF TypeOK, Start, MayEnter
    <3> QED
      BY <2>1, <3>2 DEF TypeOK, Start, CoroStates
  <2>2. ASSUME NEW t \in Threads, NEW c \in Coros, Resume(t, c) PROVE TypeOK'
    <3> DEFINE f == [coro |-> c, resumed |-> TRUE, old |-> thrd_ptr_coro_helper[t]]
    <3>1. f \in Frame
      BY DEF Frame, TypeOK
    <3>2. Append(stack[t], f) \in Seq(Frame) /\ Len(Append(stack[t], f)) <= MaxDepth
      BY <2>2, <3>1, Pushed DEF TypeOK, Resume, MayEnter
    <3> QED
      BY <2>2, <3>2 DEF TypeOK, Resume, CoroStates
  <2>3. ASSUME NEW t \in Threads, Yield(t) \/ Return(t) \/ Throw(t) PROVE TypeOK'
    <3>1. stack[t] \in Seq(Frame) /\ stack[t] # <<>> /\ Len(stack[t]) <= MaxDepth
      BY <2>3 DEF TypeOK, Yield, Return, Throw
    <3>2. Pop(stack[t]) \in Seq(Frame) /\ Len(Pop(stack[t])) <= MaxDepth
      BY <3>1, Popped
    <3>3. Top(t) \in Frame
      BY <3>1, Popped DEF Top
    <3>4. Top(t).coro \in Coros /\ Top(t).old \in Coros \cup {Null}
      BY <3>3 DEF Frame
    <3>5. coro' \in [Coros -> CoroStates]
      BY <2>3, <3>4 DEF TypeOK, Yield, Return, Throw, CoroStates
    <3>6. thrd_ptr_coro_helper' \in [Threads -> Coros \cup {Null}]
      BY <2>3, <3>4 DEF TypeOK, Yield, Return, Throw, PointerAfter
    <3> QED
      BY <2>3, <3>2, <3>5, <3>6 DEF TypeOK, Yield, Return, Throw
  <2>4. ASSUME NEW t \in Threads, NEW c \in Coros, Destroy(t, c) PROVE TypeOK'
    BY <2>4 DEF TypeOK, Destroy, CoroStates
  <2>5. CASE UNCHANGED vars
    BY <2>5 DEF TypeOK, vars
  <2> QED
    BY <2>1, <2>2, <2>3, <2>4, <2>5 DEF Next
<1> QED
  BY <1>1, <1>2, PTL DEF Spec

-----------------------------------------------------------------------------
(* Yield. *)

\* Where coroutines are not nested, the pointer names the body a thread is in,
\* whatever Start has left behind and exceptions have skipped.
THEOREM YieldSafety == ASSUME MaxDepth = 1 PROVE Spec => []YieldsItself
<1>1. Init => YieldsItself
  BY DEF Init, YieldsItself
<1>2. TypeOK /\ YieldsItself /\ [Next]_vars => YieldsItself'
  <2> SUFFICES ASSUME TypeOK, YieldsItself, [Next]_vars PROVE YieldsItself'
    OBVIOUS
  <2>0. \A t \in Threads : /\ stack[t] \in Seq(Frame)
                           /\ Len(stack[t]) <= 1
    BY DEF TypeOK
  <2>1. ASSUME NEW t \in Threads, NEW c \in Coros, Start(t, c) \/ Resume(t, c)
        PROVE  YieldsItself'
    <3>1. PICK f \in Frame : f.coro = c /\ stack' = [stack EXCEPT ![t] = Append(@, f)]
      <4>1. CASE Start(t, c)
        <5> DEFINE f == [coro |-> c, resumed |-> FALSE, old |-> Null]
        <5>1. f \in Frame /\ f.coro = c
          BY DEF Frame
        <5> QED
          BY <4>1, <5>1 DEF Start
      <4>2. CASE Resume(t, c)
        <5> DEFINE f == [coro |-> c, resumed |-> TRUE, old |-> thrd_ptr_coro_helper[t]]
        <5>1. f \in Frame /\ f.coro = c
          BY DEF Frame, TypeOK
        <5> QED
          BY <4>2, <5>1 DEF Resume
      <4> QED
        BY <2>1, <4>1, <4>2
    <3>2. stack'[t] = Append(stack[t], f) /\ thrd_ptr_coro_helper'[t] = c
      BY <2>1, <3>1 DEF Start, Resume, TypeOK
    <3>3. Top(t)'.coro = c
      BY <2>0, <3>1, <3>2, Pushed DEF Top
    <3>4. \A u \in Threads \ {t} :
             stack'[u] = stack[u] /\ thrd_ptr_coro_helper'[u] = thrd_ptr_coro_helper[u]
      BY <2>1, <3>1 DEF Start, Resume, TypeOK
    <3> QED
      BY <3>2, <3>3, <3>4 DEF YieldsItself, Top
  <2>2. ASSUME NEW t \in Threads, Yield(t) \/ Return(t) \/ Throw(t) PROVE YieldsItself'
    <3>1. stack[t] # <<>> /\ stack'[t] = Pop(stack[t])
      BY <2>2 DEF Yield, Return, Throw, TypeOK
    <3>2. stack'[t] = <<>>
      BY <2>0, <3>1, Popped
    <3>3. \A u \in Threads \ {t} :
             stack'[u] = stack[u] /\ thrd_ptr_coro_helper'[u] = thrd_ptr_coro_helper[u]
      BY <2>2 DEF Yield, Return, Throw, TypeOK
    <3> QED
      BY <3>2, <3>3 DEF YieldsItself, Top
  <2>3. ASSUME NEW t \in Threads, NEW c \in Coros, Destroy(t, c) PROVE YieldsItself'
    <3>1. coro[c] = "suspended" => stack[t] = <<>>
      BY <2>0, <2>3 DEF Destroy
    <3> QED
      BY <2>3, <3>1 DEF Destroy, YieldsItself, Top, TypeOK
  <2>4. CASE UNCHANGED vars
    BY <2>4 DEF YieldsItself, Top, vars
  <2> QED
    BY <2>1, <2>2, <2>3, <2>4 DEF Next
<1>3. MaxDepth \in Nat
  OBVIOUS
<1>4. Spec => []TypeOK
  BY <1>3, TypeCorrectness
<1> QED
  BY <1>1, <1>2, <1>4, PTL DEF Spec

=============================================================================
