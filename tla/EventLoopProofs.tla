--------------------------- MODULE EventLoopProofs ---------------------------
(***************************************************************************)
(* Proofs about EventLoop, for any threads, any capacity and any number of  *)
(* functors: type correctness, no lost wake-up, order of execution, and the *)
(* implementation of the safety part of TaskQueue.                          *)
(***************************************************************************)
EXTENDS EventLoop, SequenceTheorems, TLAPS

(* The types hold in every reachable state of the loop.                     *)
THEOREM TypeCorrect == Safety => []TypeOK
<1>1. Init => TypeOK
  BY LoopAssumption DEF Init, TypeOK, Places, AllThreads
<1>2. TypeOK /\ [Next]_vars => TypeOK'
  <2> SUFFICES ASSUME TypeOK, [Next]_vars PROVE TypeOK'
    OBVIOUS
  <2> USE LoopAssumption DEF TypeOK, Places
  <2>1. ASSUME NEW t \in AllThreads, Push(t) PROVE TypeOK'
    BY <2>1 DEF Push
  <2>2. ASSUME NEW t \in AllThreads, WakeUp(t) PROVE TypeOK'
    BY <2>2 DEF WakeUp
  <2>3. CASE WaitWoken
    BY <2>3 DEF WaitWoken
  <2>4. CASE WaitOther
    BY <2>4 DEF WaitOther
  <2>5. CASE HandleRead
    BY <2>5 DEF HandleRead
  <2>6. CASE PopAll
    BY <2>6 DEF PopAll
  <2>7. CASE RunFunctor
    BY <2>7 DEF RunFunctor
  <2>8. CASE EndRun
    BY <2>8 DEF EndRun
  <2>9. CASE UNCHANGED vars
    BY <2>9 DEF vars
  <2> QED
    BY <2>1, <2>2, <2>3, <2>4, <2>5, <2>6, <2>7, <2>8, <2>9 DEF Next, LoopStep
<1> QED
  BY <1>1, <1>2, PTL DEF Safety

------------------------------------------------------------------------------
(* The wake-up invariant.  NoLostWakeup speaks only of a loop in Wait and   *)
(* is not inductive; this says what holds on the way there: a functor in    *)
(* the queue has a byte in the pipe, or a byte about to be written, or a    *)
(* loop that has not reached this round's pop_all.                          *)
WakeInv ==
    queue_ # <<>> => pipe_ > 0 \/ adding # {} \/ at \in {"waker", "dispatch"}

(* No step of the loop or of a caller breaks the wake-up invariant when the *)
(* Waker is the pipe.                                                       *)
LEMMA WakeStep ==
    ASSUME PipeWaker, TypeOK, WakeInv, [Next]_vars
    PROVE  WakeInv'
<1> USE LoopAssumption DEF WakeInv, TypeOK
<1>1. ASSUME NEW t \in AllThreads, Push(t) PROVE WakeInv'
  BY <1>1 DEF Push
<1>2. ASSUME NEW t \in AllThreads, WakeUp(t) PROVE WakeInv'
  BY <1>2 DEF WakeUp
<1>3. CASE WaitWoken
  BY <1>3 DEF WaitWoken
<1>4. CASE WaitOther
  BY <1>4 DEF WaitOther
<1>5. CASE HandleRead
  BY <1>5 DEF HandleRead
<1>6. CASE PopAll
  BY <1>6 DEF PopAll
<1>7. CASE RunFunctor
  BY <1>7 DEF RunFunctor
<1>8. CASE EndRun
  BY <1>8 DEF EndRun
<1>9. CASE UNCHANGED vars
  BY <1>9 DEF vars
<1> QED
  BY <1>1, <1>2, <1>3, <1>4, <1>5, <1>6, <1>7, <1>8, <1>9 DEF Next, LoopStep

(* A loop with the pipe Waker never blocks in Wait on a non-empty queue     *)
(* without a byte in the pipe or on its way (event_loop.cpp:78-110).        *)
THEOREM WakeupNotLost == PipeWaker => (Safety => []NoLostWakeup)
<1> SUFFICES ASSUME PipeWaker PROVE Safety => []NoLostWakeup
  OBVIOUS
<1>1. Init => WakeInv
  BY DEF Init, WakeInv
<1>2. TypeOK /\ WakeInv /\ [Next]_vars => WakeInv'
  BY WakeStep
<1>3. WakeInv => NoLostWakeup
  BY DEF WakeInv, NoLostWakeup
<1> QED
  BY <1>1, <1>2, <1>3, TypeCorrect, PTL DEF Safety

------------------------------------------------------------------------------
(* Sequences: what is behind the head stays in place when the head moves to *)
(* the end of the sequence before it, as RunFunctor moves it.               *)
LEMMA MoveHead ==
    ASSUME NEW a \in Seq(Nat), NEW b \in Seq(Nat), NEW c \in Seq(Nat),
           b # <<>>
    PROVE  Append(a, Head(b)) \o Tail(b) \o c = a \o b \o c
<1>1. /\ Head(b) \in Nat
      /\ Tail(b) \in Seq(Nat)
      /\ Append(a, Head(b)) \in Seq(Nat)
  OBVIOUS
<1>2. Append(a, Head(b)) \o Tail(b) = a \o b
  <2> DEFINE l == Append(a, Head(b)) \o Tail(b)
             r == a \o b
  <2>1. l \in Seq(Nat) /\ r \in Seq(Nat)
    BY <1>1
  <2>2. Len(l) = Len(r)
    BY <1>1
  <2>3. ASSUME NEW i \in 1..Len(l) PROVE l[i] = r[i]
    BY <1>1, <2>3
  <2> QED
    BY <2>1, <2>2, <2>3, SeqEqual
<1> QED
  BY <1>2

(* The tickets of n + 1 pushes are those of n pushes and one more.          *)
LEMMA NextTicket ==
    ASSUME NEW n \in Nat
    PROVE  /\ [k \in 1..n |-> k] \in Seq(Nat)
           /\ Len([k \in 1..n |-> k]) = n
           /\ Append([k \in 1..n |-> k], n + 1) = [k \in 1..(n + 1) |-> k]
  OBVIOUS

(* Appending to the second of two sequences appends to the concatenation.   *)
LEMMA AppendLast ==
    ASSUME NEW a \in Seq(Nat), NEW b \in Seq(Nat), NEW x \in Nat
    PROVE  a \o Append(b, x) = Append(a \o b, x)
<1> DEFINE l == a \o Append(b, x)
           r == Append(a \o b, x)
<1>1. l \in Seq(Nat) /\ r \in Seq(Nat)
  OBVIOUS
<1>2. Len(l) = Len(r)
  OBVIOUS
<1>3. ASSUME NEW i \in 1..Len(l) PROVE l[i] = r[i]
  BY <1>3
<1> QED
  BY <1>1, <1>2, <1>3, SeqEqual

------------------------------------------------------------------------------
(* No step breaks the order.  Of the types it needs that a batch is left    *)
(* only while handlePendingFunctors runs it: pop_all swaps into an empty    *)
(* one.                                                                     *)
LEMMA OrderStep ==
    ASSUME TypeOK, RunsInOrder, [Next]_vars
    PROVE  RunsInOrder'
<1> USE LoopAssumption DEF RunsInOrder
<1>0. /\ queue_ \in Seq(Nat) /\ functors \in Seq(Nat) /\ ran \in Seq(Nat)
      /\ added \in Nat
  BY DEF TypeOK
<1>1. ASSUME NEW t \in AllThreads, Push(t) PROVE RunsInOrder'
  <2>0. added + 1 \in Nat
    BY <1>0
  <2>1. ran \o functors \in Seq(Nat)
    BY <1>0
  <2>2. ran \o functors \o Append(queue_, added + 1)
          = Append(ran \o functors \o queue_, added + 1)
    BY <1>0, <2>0, <2>1, AppendLast
  <2>3. ran' \o functors' \o queue_' = [k \in 1..added' |-> k]
    BY <1>0, <1>1, <2>2, NextTicket DEF Push
  <2> QED
    BY <1>1, <2>3 DEF Push
<1>2. ASSUME NEW t \in AllThreads, WakeUp(t) PROVE RunsInOrder'
  BY <1>2 DEF WakeUp
<1>3. CASE WaitWoken
  BY <1>3 DEF WaitWoken
<1>4. CASE WaitOther
  BY <1>4 DEF WaitOther
<1>5. CASE HandleRead
  BY <1>5 DEF HandleRead
<1>6. CASE PopAll
  <2>1. functors = <<>>
    BY <1>6 DEF PopAll, TypeOK
  <2>2. ran \o queue_ \o <<>> = ran \o functors \o queue_
    BY <1>0, <2>1
  <2> QED
    BY <1>6, <2>2 DEF PopAll
<1>7. CASE RunFunctor
  <2>0. functors # <<>>
    BY <1>7 DEF RunFunctor
  <2>1. Append(ran, Head(functors)) \o Tail(functors) \o queue_
          = ran \o functors \o queue_
    BY <1>0, <2>0, MoveHead
  <2> QED
    BY <1>7, <2>1 DEF RunFunctor
<1>8. CASE EndRun
  BY <1>8 DEF EndRun
<1>9. CASE UNCHANGED vars
  BY <1>9 DEF vars
<1> QED
  BY <1>1, <1>2, <1>3, <1>4, <1>5, <1>6, <1>7, <1>8, <1>9 DEF Next, LoopStep

(* Functors run in the order of the pushes, each exactly once, whoever      *)
(* pushes and however the wake-ups fall (event_loop.cpp:87-96).             *)
THEOREM OrderKept == Safety => []RunsInOrder
<1>1. Init => RunsInOrder
  BY DEF Init, RunsInOrder
<1>2. TypeOK /\ RunsInOrder /\ [Next]_vars => RunsInOrder'
  BY OrderStep
<1> QED
  BY <1>1, <1>2, TypeCorrect, PTL DEF Safety

------------------------------------------------------------------------------
(* Every step of the loop is a step of the task queue or leaves it alone.   *)
LEMMA TaskStep ==
    ASSUME TypeOK, RunsInOrder, [Next]_vars
    PROVE  [Tasks!TaskNext]_(Tasks!taskVars)
<1> DEFINE todo == functors \o queue_
<1>0. /\ queue_ \in Seq(Nat) /\ functors \in Seq(Nat) /\ ran \in Seq(Nat)
      /\ added \in Nat
  BY LoopAssumption DEF TypeOK
<1> USE DEF Tasks!TaskNext, Tasks!taskVars
<1>1. ASSUME NEW t \in AllThreads, Push(t) PROVE Tasks!Submit
  <2>1. Len(ran) + Len(functors \o queue_) = added
    <3>1. Len(ran \o functors \o queue_) = added
      BY <1>0, NextTicket DEF RunsInOrder
    <3> QED
      BY <1>0, <3>1
  <2>2. functors \o Append(queue_, added + 1) = Append(functors \o queue_, added + 1)
    BY <1>0
  <2> QED
    BY <1>0, <1>1, <2>1, <2>2 DEF Push, Tasks!Submit
<1>2. ASSUME NEW t \in AllThreads, WakeUp(t) PROVE UNCHANGED <<todo, ran>>
  BY <1>2 DEF WakeUp
<1>3. CASE WaitWoken \/ WaitOther \/ HandleRead \/ EndRun \/ UNCHANGED vars
  BY <1>3 DEF WaitWoken, WaitOther, HandleRead, EndRun, vars
<1>4. CASE PopAll
  <2>1. functors = <<>>
    BY <1>4 DEF PopAll, TypeOK
  <2>2. queue_ \o <<>> = functors \o queue_
    BY <1>0, <2>1
  <2> QED
    BY <1>4, <2>2 DEF PopAll
<1>5. CASE RunFunctor
  <2>1. functors # <<>>
    BY <1>5 DEF RunFunctor
  <2>2. Head(functors \o queue_) = Head(functors)
    BY <1>0, <2>1
  <2>3. Tail(functors \o queue_) = Tail(functors) \o queue_
    BY <1>0, <2>1
  <2>4. functors \o queue_ # <<>>
    BY <1>0, <2>1
  <2>5. Tasks!Execute
    BY <1>5, <2>2, <2>3, <2>4 DEF RunFunctor, Tasks!Execute
  <2> QED
    BY <2>5
<1> QED
  BY <1>1, <1>2, <1>3, <1>4, <1>5 DEF Next, LoopStep

(* A loop, with either Waker, implements the safety part of the task queue  *)
(* its callers are promised.                                                *)
THEOREM LoopRefines == Safety => TaskQueueSafety
<1>1. Init => Tasks!TaskInit
  BY DEF Init, Tasks!TaskInit
<1>2. TypeOK /\ RunsInOrder /\ [Next]_vars => [Tasks!TaskNext]_(Tasks!taskVars)
  BY TaskStep
<1> QED
  BY <1>1, <1>2, TypeCorrect, OrderKept, PTL
  DEF Safety, TaskQueueSafety, Tasks!TaskSafety
==============================================================================
