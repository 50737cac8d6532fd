------------------------------- MODULE Reactor -------------------------------
(***************************************************************************)
(* The event loops as the connections see them: handlers registered with a  *)
(* loop's poller, the events a poll reports, their dispatch one handler at  *)
(* a time, and the batch of pending functors that ends each round.          *)
(*                                                                          *)
(* The wake-up protocol that makes a pending functor end a poll is the      *)
(* subject of module EventLoop; here a non-empty queue simply lets Wait     *)
(* return.  The operators below say nothing of the variables of the modules *)
(* that extend this one.                                                    *)
(***************************************************************************)
EXTENDS Integers, Sequences, FiniteSets

CONSTANTS
    Conns,       \* the connections: one per client that connects
    Base,        \* Server::event_loop_, the loop that accepts
    IoLoops,     \* LoopThreadPool::loops_, a sequence; empty: no io thread
    Listener,    \* the Accepter's handler
    None         \* no connection, no loop, no descriptor

Loops == {Base} \cup {IoLoops[i] : i \in DOMAIN IoLoops}

ASSUME ReactorAssumption ==
    /\ IoLoops \in Seq(Loops)
    /\ \A i \in DOMAIN IoLoops : IoLoops[i] # Base
    /\ Listener \notin Conns
    /\ None \notin Conns \cup Loops

VARIABLES
    at,            \* at[l]: where the thread of loop l is
    cur,           \* cur[l]: the connection that thread is working on
    ess,           \* ess[l]: the handlers Wait returned, still to dispatch
    pending,       \* pending[l]: pending_functors_
    batch,         \* batch[l]: the functors of handlePendingFunctors
    handler_map_,  \* handler_map_[l]: the connections registered with l
    ievents_,      \* ievents_[c]: the events the handler of c asks for
    revents_       \* revents_[c]: the events ever reported for c

reactorVars ==
    <<at, cur, ess, pending, batch, handler_map_, ievents_, revents_>>

Events == {"read", "write"}

(* "write": between the two halves of HandleEvent; "accept" and "inc": in   *)
(* Accepter::handleRead; "dec": inside closeConnection; "pop": the functor  *)
(* at the head of the batch has returned and is not popped yet.             *)
Places == {"wait", "dispatch", "write", "accept", "inc", "run", "dec", "pop"}

Ops == {"handleConnection", "writeInLoop", "writeComplete",
        "handleConnectionClose", "closeConnection"}

Functors == [op : Ops, conn : Conns]

Functor(op, c) == [op |-> op, conn |-> c]

(* The functors loop l has still to run, in order: its batch, without a     *)
(* head that has returned, and then its queue.                              *)
Todo(l) == (IF at[l] = "pop" THEN Tail(batch[l]) ELSE batch[l]) \o pending[l]

(* addFunctor: the queues after f is pushed for loop l.                     *)
AddFunctor(l, f) == [pending EXCEPT ![l] = Append(@, f)]

ReactorTypeOK ==
    /\ at \in [Loops -> Places]
    /\ cur \in [Loops -> Conns \cup {None}]
    /\ ess \in [Loops -> SUBSET (Conns \cup {Listener})]
    /\ pending \in [Loops -> Seq(Functors)]
    /\ batch \in [Loops -> Seq(Functors)]
    /\ handler_map_ \in [Loops -> SUBSET Conns]
    /\ ievents_ \in [Conns -> SUBSET Events]
    /\ revents_ \in [Conns -> SUBSET Events]

ReactorInit ==
    /\ at = [l \in Loops |-> "wait"]
    /\ cur = [l \in Loops |-> None]
    /\ ess = [l \in Loops |-> {}]
    /\ pending = [l \in Loops |-> <<>>]
    /\ batch = [l \in Loops |-> <<>>]
    /\ handler_map_ = [l \in Loops |-> {}]
    /\ ievents_ = [c \in Conns |-> {}]
    /\ revents_ = [c \in Conns |-> {}]

------------------------------------------------------------------------------
(* loop()                                                                   *)

(* poll returns: some handler is ready, or the Waker's pipe is.  polled[c]  *)
(* is what the kernel reports for c.  setREvents adds to revents_; nothing  *)
(* ever clears it, so an event reported once stays set.                     *)
Wait(l, polled, others) ==
    LET ready == {c \in handler_map_[l] : polled[c] # {}} IN
    /\ at[l] = "wait"
    /\ ready \cup others # {} \/ pending[l] # <<>>
    /\ at' = [at EXCEPT ![l] = "dispatch"]
    /\ ess' = [ess EXCEPT ![l] = ready \cup others]
    /\ revents_' = [c \in Conns |->
                      IF c \in ready THEN revents_[c] \cup polled[c] ELSE revents_[c]]
    /\ UNCHANGED <<cur, pending, batch, handler_map_, ievents_>>

(* HandleEvent tests the sticky revents_ against ievents_, first for        *)
(* reading, then for writing.                                               *)
Reads(c) == "read" \in revents_[c] \cap ievents_[c]
Writes(c) == "write" \in revents_[c] \cap ievents_[c]

(* The next handler of ess: its read half is done, its write half is next.  *)
TakeHandler(l, c) ==
    /\ at[l] = "dispatch"
    /\ c \in ess[l]
    /\ at' = [at EXCEPT ![l] = "write"]
    /\ cur' = [cur EXCEPT ![l] = c]
    /\ ess' = [ess EXCEPT ![l] = @ \ {c}]
    /\ UNCHANGED <<batch, handler_map_, revents_>>

(* The write half of HandleEvent is done.                                   *)
LeaveHandler(l, c) ==
    /\ at[l] = "write"
    /\ cur[l] = c
    /\ at' = [at EXCEPT ![l] = "dispatch"]
    /\ cur' = [cur EXCEPT ![l] = None]
    /\ UNCHANGED <<ess, batch, handler_map_, revents_>>

(* All handlers are dispatched: pop_all takes the whole queue.              *)
PopAll(l) ==
    /\ at[l] = "dispatch"
    /\ ess[l] = {}
    /\ at' = [at EXCEPT ![l] = "run"]
    /\ batch' = [batch EXCEPT ![l] = pending[l]]
    /\ pending' = [pending EXCEPT ![l] = <<>>]
    /\ UNCHANGED <<cur, ess, handler_map_, ievents_, revents_>>

(* The functor at the head of the batch is op bound to c, and it returns.   *)
Runs(l, op, c) ==
    /\ at[l] = "run"
    /\ batch[l] # <<>>
    /\ Head(batch[l]) = Functor(op, c)

Returns(l) == at' = [at EXCEPT ![l] = "pop"]

(* functors.pop() destroys the functor, and with it its reference to the    *)
(* connection, if it has one.                                               *)
PopFunctor(l) ==
    /\ at[l] = "pop"
    /\ at' = [at EXCEPT ![l] = "run"]
    /\ batch' = [batch EXCEPT ![l] = Tail(@)]
    /\ UNCHANGED <<cur, ess, pending, handler_map_, ievents_, revents_>>

EndRun(l) ==
    /\ at[l] = "run"
    /\ batch[l] = <<>>
    /\ at' = [at EXCEPT ![l] = "wait"]
    /\ UNCHANGED <<cur, ess, pending, batch, handler_map_, ievents_, revents_>>
==============================================================================
