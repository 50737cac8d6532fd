------------------------------ MODULE EventLoop ------------------------------
(***************************************************************************)
(* One EventLoop: its queue of pending functors, the pipe of its Waker and  *)
(* the body of EventLoop::loop().  Any thread may call addFunctor: the      *)
(* loop's own thread from a handler or from a functor it is running, and    *)
(* the threads of the other loops.                                          *)
(*                                                                          *)
(* A functor is named by its ticket: the k-th push into the queue pushes    *)
(* functor k.  The mutex of qg::Queue makes push and pop_all atomic; what   *)
(* is not atomic is addFunctor itself, a push followed by a wake_up.        *)
(***************************************************************************)
EXTENDS Naturals, Sequences

CONSTANTS
    Threads,        \* the other threads that call addFunctor on this loop
    LoopThread,     \* the thread that runs loop()
    PipeCapacity,   \* bytes the Waker's pipe holds
    MaxFunctors,    \* bound on the number of functors ever added
    PipeWaker       \* TRUE: Waker<Pollpoller>; FALSE: Waker<EpollPoller>

ASSUME LoopAssumption ==
    /\ LoopThread \notin Threads
    /\ PipeCapacity \in Nat \ {0}
    /\ MaxFunctors \in Nat
    /\ PipeWaker \in BOOLEAN

VARIABLES
    queue_,       \* pending_functors_->queue_
    functors,     \* the batch handlePendingFunctors is running
    pipe_,        \* bytes in the Waker's pipe
    adding,       \* the threads between the push and the wake_up of addFunctor
    at,           \* where loop() is
    added,        \* history: the number of pushes so far
    ran           \* history: the functors run so far, in order

vars == <<queue_, functors, pipe_, adding, at, added, ran>>

AllThreads == Threads \cup {LoopThread}

(* "wait": in or before poller_->Wait; "waker" and "dispatch": calling      *)
(* HandleEvent on the handlers Wait returned, the Waker's first when it is  *)
(* among them; "run": inside handlePendingFunctors.                         *)
Places == {"wait", "waker", "dispatch", "run"}

(* Types; among them that the batch, a local of handlePendingFunctors, is   *)
(* run to its end before the loop goes round (event_loop.cpp:87-96).        *)
TypeOK ==
    /\ queue_ \in Seq(Nat)
    /\ functors \in Seq(Nat)
    /\ pipe_ \in 0..PipeCapacity
    /\ adding \in SUBSET AllThreads
    /\ at \in Places
    /\ at # "run" => functors = <<>>
    /\ added \in 0..MaxFunctors
    /\ ran \in Seq(Nat)

Init ==
    /\ queue_ = <<>>
    /\ functors = <<>>
    /\ pipe_ = 0
    /\ adding = {}
    /\ at = "wait"
    /\ added = 0
    /\ ran = <<>>

------------------------------------------------------------------------------
(* addFunctor                                                               *)

(* Other threads call addFunctor at any time.  The loop's thread calls it   *)
(* from a handler (the Waker's is always the first) or from the functor at  *)
(* the head of the batch.                                                   *)
MayAdd(t) ==
    t = LoopThread => \/ at = "dispatch"
                      \/ at = "run" /\ functors # <<>>

Push(t) ==
    /\ t \notin adding
    /\ added < MaxFunctors
    /\ MayAdd(t)
    /\ queue_' = Append(queue_, added + 1)
    /\ added' = added + 1
    /\ adding' = adding \cup {t}
    /\ UNCHANGED <<functors, pipe_, at, ran>>

(* A bug: no byte is written when the loop adds to its own queue.           *)
MutWakeUpOthersOnly(t) ==
    /\ t \in adding
    /\ adding' = adding \ {t}
    /\ pipe_' = IF t # LoopThread /\ pipe_ < PipeCapacity THEN pipe_ + 1 ELSE pipe_
    /\ UNCHANGED <<queue_, functors, at, added, ran>>

(* One byte goes into the non-blocking pipe.  The result of ::write is      *)
(* ignored: nothing is written when the pipe is full.  The Waker of an      *)
(* epoll loop does nothing at all.                                          *)
WakeUp(t) ==
    /\ t \in adding
    /\ adding' = adding \ {t}
    /\ pipe_' = IF PipeWaker /\ pipe_ < PipeCapacity THEN pipe_ + 1 ELSE pipe_
    /\ UNCHANGED <<queue_, functors, at, added, ran>>

------------------------------------------------------------------------------
(* loop()                                                                   *)

(* Wait returns because the pipe is readable, possibly among other events.  *)
WaitWoken ==
    /\ at = "wait"
    /\ pipe_ > 0
    /\ at' = "waker"
    /\ UNCHANGED <<queue_, functors, pipe_, adding, added, ran>>

(* Wait returns for another handler's event or for the timeout.             *)
WaitOther ==
    /\ at = "wait"
    /\ pipe_ = 0
    /\ at' = "dispatch"
    /\ UNCHANGED <<queue_, functors, pipe_, adding, added, ran>>

(* A bug: the byte is left in the pipe.                                     *)
MutHandleReadKeeps ==
    /\ at = "waker"
    /\ at' = "dispatch"
    /\ UNCHANGED <<queue_, functors, pipe_, adding, added, ran>>

(* Waker::handleRead consumes one byte, however many there are.             *)
HandleRead ==
    /\ at = "waker"
    /\ at' = "dispatch"
    /\ pipe_' = IF pipe_ > 0 THEN pipe_ - 1 ELSE pipe_
    /\ UNCHANGED <<queue_, functors, adding, added, ran>>

(* Bugs: pop one functor per round; copy the queue instead of swapping it.  *)
MutPopOne ==
    /\ at = "dispatch"
    /\ LoopThread \notin adding
    /\ at' = "run"
    /\ functors' = IF queue_ = <<>> THEN <<>> ELSE <<Head(queue_)>>
    /\ queue_' = IF queue_ = <<>> THEN <<>> ELSE Tail(queue_)
    /\ UNCHANGED <<pipe_, adding, added, ran>>

MutPopCopies ==
    /\ at = "dispatch"
    /\ LoopThread \notin adding
    /\ at' = "run"
    /\ functors' = queue_
    /\ UNCHANGED <<queue_, pipe_, adding, added, ran>>

(* All handlers have been dispatched: pop_all swaps the queue into the      *)
(* local, empty batch.                                                      *)
PopAll ==
    /\ at = "dispatch"
    /\ LoopThread \notin adding
    /\ at' = "run"
    /\ functors' = queue_
    /\ queue_' = <<>>
    /\ UNCHANGED <<pipe_, adding, added, ran>>

(* A bug: the batch is run from its back.                                   *)
MutRunFromBack ==
    /\ at = "run"
    /\ functors # <<>>
    /\ LoopThread \notin adding
    /\ ran' = Append(ran, functors[Len(functors)])
    /\ functors' = SubSeq(functors, 1, Len(functors) - 1)
    /\ UNCHANGED <<queue_, pipe_, adding, at, added>>

(* The functor at the head of the batch returns and is popped.              *)
RunFunctor ==
    /\ at = "run"
    /\ functors # <<>>
    /\ LoopThread \notin adding
    /\ ran' = Append(ran, Head(functors))
    /\ functors' = Tail(functors)
    /\ UNCHANGED <<queue_, pipe_, adding, at, added>>

(* A bug: an if where the while is, one functor a round.                    *)
MutEndRunAfterOne ==
    /\ at = "run"
    /\ LoopThread \notin adding
    /\ at' = "wait"
    /\ UNCHANGED <<queue_, functors, pipe_, adding, added, ran>>

(* The batch is empty: the for(;;) goes round.                              *)
EndRun ==
    /\ at = "run"
    /\ functors = <<>>
    /\ at' = "wait"
    /\ UNCHANGED <<queue_, functors, pipe_, adding, added, ran>>

LoopStep == WaitWoken \/ HandleRead \/ PopAll \/ RunFunctor \/ EndRun

Next ==
    \/ \E t \in AllThreads : Push(t) \/ WakeUp(t)
    \/ LoopStep
    \/ WaitOther

(* A running thread keeps running.  No fairness on WaitOther: no other      *)
(* event and no timer need ever come.  None on Push: nobody has to add.     *)
Fairness ==
    /\ WF_vars(LoopStep)
    /\ \A t \in AllThreads : WF_vars(WakeUp(t))

Safety == Init /\ [][Next]_vars

Spec == Safety /\ Fairness

------------------------------------------------------------------------------
(* Properties                                                               *)

(* addFunctor wakes the loop: whenever the loop is about to block in Wait   *)
(* (event_loop.cpp:110) with a functor in its queue, the pipe is readable   *)
(* or some thread has yet to write its byte, so poll cannot block for good. *)
(* It holds although a full pipe drops bytes and one read takes only one.   *)
NoLostWakeup ==
    at = "wait" /\ queue_ # <<>> => pipe_ > 0 \/ adding # {}

(* handlePendingFunctors runs the functors in the order of the pushes, each *)
(* once: what ran, what is in the batch and what is in the queue are,       *)
(* together, the tickets handed out so far (event_loop.cpp:87-96).          *)
RunsInOrder == ran \o functors \o queue_ = [k \in 1..added |-> k]

(* Every functor that has been pushed runs in the end.                      *)
EveryFunctorRuns ==
    \A k \in 1..MaxFunctors : (added >= k) ~> (Len(ran) >= k)

(* Left-over bytes do not keep the loop spinning: once nobody adds any more *)
(* the pipe is empty for good (Waker::handleRead, event_loop.h:107-114).    *)
WakesDrain == <>[](pipe_ = 0)

(* The loop is the task queue its callers are promised.                     *)
Tasks == INSTANCE TaskQueue WITH todo <- functors \o queue_, done <- ran

ImplementsTaskQueue == Tasks!TaskSpec

TaskQueueSafety == Tasks!TaskSafety
==============================================================================
