------------------------------- MODULE Server --------------------------------
(***************************************************************************)
(* The whole server: the Accepter on the base loop, Server's map of         *)
(* connections, the hand-over of each connection to an io loop, and the     *)
(* way back when it closes:                                                 *)
(*                                                                          *)
(*   io loop   handleClose: stop polling, post handleConnectionClose        *)
(*   base loop handleConnectionClose: erase from connections_, post         *)
(*             closeConnection                                              *)
(*   io loop   closeConnection: decrement the counter, removeHandler        *)
(*                                                                          *)
(* A TcpConnection lives as long as a shared_ptr to it does; its destructor *)
(* closes the descriptor, which accept may then hand out again.             *)
(***************************************************************************)
EXTENDS TcpConnection

CONSTANTS
    Fds,                 \* the descriptors accept can return: a set of numbers
    DefaultHighWater,    \* defaultConnectionHighWater
    MaxConnections,      \* config->max_connections
    Headroom             \* what the Accepter subtracts from max_connections

ASSUME ServerAssumption ==
    /\ Fds \subseteq Nat \ {0}
    /\ None \notin Fds
    /\ DefaultHighWater \in Nat
    /\ MaxConnections \in Nat
    /\ Headroom \in Nat

VARIABLES
    backlog,             \* clients connected and not accepted, oldest first
    fd,                  \* fd[c]: the descriptor of the connection's socket
    connections_,        \* connections_[f]: the connection Server keeps for f
    connection_number_,  \* the Accepter's counter
    reg,                 \* reg[l]: the value thread l has loaded from it
    curPos               \* the io loop of the next connection

serverVars == <<backlog, fd, connections_, connection_number_, reg, curPos>>

vars == <<reactorVars, kernelVars, tcpVars, serverVars>>

TypeOK ==
    /\ ReactorTypeOK
    /\ TcpTypeOK
    /\ backlog \in Seq(Conns)
    /\ fd \in [Conns -> Fds \cup {None}]
    /\ connections_ \in [Fds -> Conns \cup {None}]
    /\ connection_number_ \in Int
    /\ reg \in [Loops -> Int]
    /\ curPos \in Nat
    /\ IoLoops # <<>> => curPos < Len(IoLoops)

Init ==
    /\ ReactorInit
    /\ TcpInit
    /\ backlog = <<>>
    /\ fd = [c \in Conns |-> None]
    /\ connections_ = [f \in Fds |-> None]
    /\ connection_number_ = 0
    /\ reg = [l \in Loops |-> 0]
    /\ curPos = 0

------------------------------------------------------------------------------
(* Lifetime                                                                 *)

(* A bug: closeConnection is bound to a plain pointer too.                  *)
MutSharesLess(f, c) == f.conn = c /\ f.op \notin {"writeInLoop", "closeConnection"}

(* A functor keeps its connection alive, except writeInLoop, which is bound *)
(* to a plain this.                                                         *)
Shares(f, c) == f.conn = c /\ f.op # "writeInLoop"

Queued(l) == {pending[l][i] : i \in DOMAIN pending[l]}
               \cup {batch[l][i] : i \in DOMAIN batch[l]}

(* Some shared_ptr to c exists: in Server's map, in a functor, or on the    *)
(* stack of handleNewCon.                                                   *)
Alive(c) ==
    \/ \E f \in Fds : connections_[f] = c
    \/ \E l \in Loops : \E f \in Queued(l) : Shares(f, c)
    \/ at[Base] = "inc" /\ cur[Base] = c

(* A bug: close() already closes the socket.                                *)
MutClosedEarly == {fd[c] : c \in {d \in Conns : Alive(d) /\ ~disconnected_[d]}}

(* The descriptors in use: ~TcpConnection closes the socket.                *)
OpenFds == {fd[c] : c \in {d \in Conns : Alive(d)}}

FreeFds == Fds \ OpenFds

------------------------------------------------------------------------------
(* Accepter::handleRead and Server::handleNewCon, on the base loop          *)

connection_high_water_ ==
    IF DefaultHighWater > MaxConnections - Headroom
    THEN DefaultHighWater
    ELSE MaxConnections - Headroom

AboveHighWater == connection_number_ > connection_high_water_

ClientConnect(c) ==
    /\ peer[c] = "none"
    /\ peer' = [peer EXCEPT ![c] = "open"]
    /\ backlog' = Append(backlog, c)
    /\ UNCHANGED <<inbox, sends, sndbuf, wrShut, tcpVars, reactorVars,
                   fd, connections_, connection_number_, reg, curPos>>

StartAccept ==
    /\ at[Base] = "dispatch"
    /\ Listener \in ess[Base]
    /\ at' = [at EXCEPT ![Base] = "accept"]
    /\ ess' = [ess EXCEPT ![Base] = @ \ {Listener}]
    /\ UNCHANGED <<cur, pending, batch, handler_map_, ievents_, revents_,
                   kernelVars, tcpVars, serverVars>>

(* accept returns a descriptor.                                             *)
Accepts(c) ==
    /\ at[Base] = "accept"
    /\ backlog # <<>>
    /\ c = Head(backlog)
    /\ FreeFds # {}
    /\ backlog' = Tail(backlog)

(* Above the high water: close it and leave the accept loop.                *)
AcceptDeny(c) ==
    /\ Accepts(c)
    /\ AboveHighWater
    /\ peer' = [peer EXCEPT ![c] = "denied"]
    /\ at' = [at EXCEPT ![Base] = "dispatch"]
    /\ UNCHANGED <<cur, ess, pending, batch, handler_map_, ievents_, revents_,
                   inbox, sends, sndbuf, wrShut, tcpVars,
                   fd, connections_, connection_number_, reg, curPos>>

(* The next loop in turn; the base loop when there is no io thread.         *)
NextLoop == IF IoLoops = <<>> THEN Base ELSE IoLoops[curPos + 1]

(* A bug: the position wraps one loop too late.                             *)
MutNextPosLate == IF curPos + 1 > Len(IoLoops) THEN 0 ELSE curPos + 1

NextPos == IF curPos + 1 >= Len(IoLoops) THEN 0 ELSE curPos + 1

(* The connection gets the lowest free descriptor and the next loop.  Its   *)
(* constructor increments a plain int that other threads decrement: the     *)
(* load is here, the store in HandleNewCon.                                 *)
AcceptConn(c) ==
    /\ Accepts(c)
    /\ ~AboveHighWater
    /\ fd' = [fd EXCEPT ![c] = CHOOSE f \in FreeFds : \A g \in FreeFds : f <= g]
    /\ event_loop_' = [event_loop_ EXCEPT ![c] = NextLoop]
    /\ curPos' = NextPos
    /\ reg' = [reg EXCEPT ![Base] = connection_number_]
    /\ at' = [at EXCEPT ![Base] = "inc"]
    /\ cur' = [cur EXCEPT ![Base] = c]
    /\ UNCHANGED <<ess, pending, batch, handler_map_, ievents_, revents_,
                   kernelVars, disconnected_, write_buf_, crashed,
                   connections_, connection_number_>>

(* The connection enters Server's map and is handed to its loop.            *)
HandleNewCon(c) ==
    /\ at[Base] = "inc"
    /\ cur[Base] = c
    /\ connection_number_' = reg[Base] + 1
    /\ connections_' = [connections_ EXCEPT ![fd[c]] = c]
    /\ pending' = AddFunctor(event_loop_[c], Functor("handleConnection", c))
    /\ at' = [at EXCEPT ![Base] = "accept"]
    /\ cur' = [cur EXCEPT ![Base] = None]
    /\ UNCHANGED <<ess, batch, handler_map_, ievents_, revents_,
                   kernelVars, tcpVars, backlog, fd, reg, curPos>>

(* accept fails: nobody is waiting, or no descriptor is free.               *)
EndAccept ==
    /\ at[Base] = "accept"
    /\ backlog = <<>> \/ FreeFds = {}
    /\ at' = [at EXCEPT ![Base] = "dispatch"]
    /\ UNCHANGED <<cur, ess, pending, batch, handler_map_, ievents_, revents_,
                   kernelVars, tcpVars, serverVars>>

------------------------------------------------------------------------------
(* Closing                                                                  *)

(* On the base loop: the entry of the descriptor goes, whosever it is.      *)
HandleConnectionClose(l, c) ==
    /\ Runs(l, "handleConnectionClose", c)
    /\ Returns(l)
    /\ connections_' = [connections_ EXCEPT ![fd[c]] = None]
    /\ pending' = AddFunctor(event_loop_[c], Functor("closeConnection", c))
    /\ UNCHANGED <<cur, ess, batch, handler_map_, ievents_, revents_,
                   kernelVars, tcpVars,
                   backlog, fd, connection_number_, reg, curPos>>

(* On the connection's loop: the counter is loaded, then stored back one    *)
(* less, and the handler leaves the poller.                                 *)
CloseConnectionLoad(l, c) ==
    /\ Runs(l, "closeConnection", c)
    /\ disconnected_' = [disconnected_ EXCEPT ![c] = TRUE]
    /\ reg' = [reg EXCEPT ![l] = connection_number_]
    /\ at' = [at EXCEPT ![l] = "dec"]
    /\ UNCHANGED <<cur, ess, pending, batch, handler_map_, ievents_, revents_,
                   kernelVars, event_loop_, write_buf_, crashed,
                   backlog, fd, connections_, connection_number_, curPos>>

CloseConnection(l, c) ==
    /\ at[l] = "dec"
    /\ Head(batch[l]).conn = c
    /\ Returns(l)
    /\ connection_number_' = reg[l] - 1
    /\ handler_map_' = [handler_map_ EXCEPT ![event_loop_[c]] = @ \ {c}]
    /\ UNCHANGED <<cur, ess, pending, batch, ievents_, revents_,
                   kernelVars, tcpVars,
                   backlog, fd, connections_, reg, curPos>>

------------------------------------------------------------------------------
(* The specification                                                        *)

(* A bug: the listener is paused, not polled, above the high water.         *)
MutListenerPaused(l) ==
    IF l = Base /\ backlog # <<>> /\ ~AboveHighWater THEN {Listener} ELSE {}

(* The listening socket is ready while clients wait.                        *)
ListenerReady(l) == IF l = Base /\ backlog # <<>> THEN {Listener} ELSE {}

ReactorStep(l) ==
    /\ \/ Wait(l, Polled, ListenerReady(l))
       \/ PopAll(l)
       \/ PopFunctor(l)
       \/ EndRun(l)
    /\ UNCHANGED <<kernelVars, tcpVars, serverVars>>

AcceptStep ==
    \/ StartAccept
    \/ \E c \in Conns : AcceptDeny(c) \/ AcceptConn(c) \/ HandleNewCon(c)
    \/ EndAccept

CloseStep(l, c) ==
    \/ HandleConnectionClose(l, c)
    \/ CloseConnectionLoad(l, c)
    \/ CloseConnection(l, c)

(* One step of the thread of loop l.                                        *)
LoopStep(l) ==
    /\ ~crashed
    /\ \/ ReactorStep(l)
       \/ \E c \in Conns : TcpStep(l, c) /\ UNCHANGED serverVars
       \/ \E c \in Conns : CloseStep(l, c)
       \/ l = Base /\ AcceptStep

(* Clients act on a connection while the server's end of it exists.         *)
Client(c) ==
    /\ ~crashed
    /\ \/ ClientConnect(c)
       \/ /\ Alive(c) \/ \E i \in DOMAIN backlog : backlog[i] = c
          /\ ClientStep(c)
          /\ UNCHANGED <<reactorVars, tcpVars, serverVars>>

Next ==
    \/ \E l \in Loops : LoopStep(l)
    \/ \E c \in Conns : Client(c)

Safety == Init /\ [][Next]_vars

(* Running threads keep running, and clients keep reading what is sent.     *)
Fairness ==
    /\ \A l \in Loops : WF_vars(LoopStep(l))
    /\ \A c \in Conns : WF_vars(~crashed /\ Alive(c) /\ ClientRead(c)
                                /\ UNCHANGED <<reactorVars, tcpVars, serverVars>>)

Spec == Safety /\ Fairness

------------------------------------------------------------------------------
(* Properties                                                               *)

(* No callback or functor is left for a TcpConnection that is gone: one     *)
(* registered with a poller, one waiting in ess, and one behind the plain   *)
(* this of writeInLoop are all alive (tcp_connection.cpp:28-31, 132-134).   *)
NoDangling ==
    \A c \in Conns :
        \/ \E l \in Loops : c \in handler_map_[l] \cup ess[l] \cup {cur[l]}
        \/ \E l \in Loops : Functor("writeInLoop", c) \in Queued(l)
        => Alive(c)

(* The functors that take c down.                                           *)
Closes(f, c) == f.conn = c /\ f.op \in {"handleConnectionClose", "closeConnection"}

(* A connection is taken down once: at most one closing functor is still to *)
(* run, and while there is one, the handler is registered with its loop, as *)
(* the assertions of removeHandler demand (event_loop.cpp:73,               *)
(* Pollpoller.cpp:40-41), and asks for no event.                            *)
ClosesOnce ==
    \A c \in Conns, l \in Loops : \A i \in DOMAIN Todo(l) :
        Closes(Todo(l)[i], c) =>
          /\ \A m \in Loops : \A j \in DOMAIN Todo(m) :
               Closes(Todo(m)[j], c) => m = l /\ j = i
          /\ c \in handler_map_[event_loop_[c]]
          /\ ievents_[c] = {}

(* Registered handlers of a loop have descriptors of their own: a reused    *)
(* descriptor never meets its old entry in a poller (Pollpoller.cpp:29).    *)
FdsDistinct ==
    \A l \in Loops : \A c, d \in handler_map_[l] : fd[c] = fd[d] => c = d

(* Server's map never loses a connection to another one with the same       *)
(* descriptor (server.cpp:60): an entry goes only by erase.                 *)
NeverDisplaced ==
    [][\A f \in Fds : connections_[f] # None =>
          connections_'[f] \in {connections_[f], None}]_vars

(* The connections that count: constructed, and closeConnection not done.   *)
Unclosed ==
    {c \in Conns :
       \/ \E l \in Loops : c \in handler_map_[l]
       \/ \E l \in Loops : Functor("handleConnection", c) \in Queued(l)}

(* The accepter denies new connections at its threshold (accepter.cpp:57):  *)
(* as the test is >, at most one connection more than the high water.       *)
AdmissionBound == Cardinality(Unclosed) <= connection_high_water_ + 1

(* "If 0 is read the client has closed the connection"                      *)
(* (tcp_connection.cpp:71): a connection is marked disconnected by          *)
(* handleRead only after the client closed its side.                        *)
ReadZeroMeansClosed ==
    \A c \in Conns : disconnected_[c] => peer[c] \in {"fin", "rst"}

(* "If 0 is read the client has closed the connection; the server then has  *)
(* to send what is in write_buf before it closes" (tcp_connection.cpp:71):  *)
(* a connection whose client has closed and keeps reading is flushed, its   *)
(* handler removed and its object, with the descriptor, destroyed, unless a *)
(* write to a broken socket kills the process first.                        *)
Released ==
    \A c \in Conns : (peer[c] = "fin" /\ Alive(c)) ~> (~Alive(c) \/ crashed)

(* Bytes wait for a write event that poll is not asked for.                 *)
Stuck(c) == ~WritePolls /\ write_buf_[c] > 0

(* A connection whose client has closed is let go, with the write events of *)
(* either branch of event_handler.h: handleClose, handleConnectionClose and *)
(* closeConnection each run in the end and the last reference goes, unless  *)
(* bytes are stuck in write_buf_ or the process is killed.                  *)
LetGo ==
    \A c \in Conns :
        (peer[c] = "fin" /\ Alive(c)) ~> (~Alive(c) \/ crashed \/ Stuck(c))

(* A client that connects is accepted or denied, although a denial ends the *)
(* accept loop with clients left in the backlog (accepter.cpp:56-60),       *)
(* unless the process is killed.                                            *)
Served ==
    \A c \in Conns :
        (peer[c] # "none") ~> (fd[c] # None \/ peer[c] = "denied" \/ crashed)

==============================================================================
