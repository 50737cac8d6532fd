---------------------------- MODULE TcpConnection ----------------------------
(***************************************************************************)
(* TcpConnection: the callbacks of a connection's handler, the functors     *)
(* bound to it, and the kernel's side of its socket.  Every operator here   *)
(* runs on the thread of the connection's own loop.                         *)
(*                                                                          *)
(* Data is counted, not stored: inbox[c] bytes wait to be read, write_buf_[c]*)
(* bytes to be written, sndbuf[c] bytes are in the kernel's send buffer.    *)
(* One call of qg::read or qg::write sees one state of the socket.          *)
(***************************************************************************)
EXTENDS Reactor

CONSTANTS
    ReadSize,      \* defaultReadBuffSize
    Sizes,         \* the sizes of the segments a client sends
    MaxSends,      \* bound on the segments one client sends
    SndCap,        \* capacity of a socket's send buffer
    ResponseLen,   \* bytes of a response
    OnConnect,     \* what connection_come_call_back_ may do
    OnMessage,     \* what message_call_back_ may do
    OnComplete,    \* what write_complete_call_back_ may do
    WritePolls,    \* TRUE: kEventWrite is EPOLLOUT; FALSE: it is POLL_OUT
    Resets         \* TRUE: clients may reset their connections

(* What an application's callback does with its connection.                 *)
Replies == {"nothing", "write", "shutdown"}

ASSUME TcpAssumption ==
    /\ ReadSize \in Nat \ {0}
    /\ Sizes \subseteq Nat \ {0}
    /\ MaxSends \in Nat
    /\ SndCap \in Nat \ {0}
    /\ ResponseLen \in Nat \ {0}
    /\ OnConnect \subseteq Replies
    /\ OnMessage \subseteq Replies
    /\ OnComplete \subseteq Replies
    /\ WritePolls \in BOOLEAN
    /\ Resets \in BOOLEAN

VARIABLES
    peer,          \* peer[c]: the client's side of the connection
    inbox,         \* inbox[c]: bytes received and not read
    sends,         \* sends[c]: segments sent so far
    sndbuf,        \* sndbuf[c]: bytes written and not taken by the client
    wrShut,        \* wrShut[c]: shutdown(SHUT_WR) has been called
    event_loop_,   \* event_loop_[c]: the loop of the connection
    disconnected_, \* disconnected_[c]
    write_buf_,    \* write_buf_[c]: bytes the connection still has to write
    crashed        \* the process was killed: a signal, an uncaught exception

kernelVars == <<peer, inbox, sends, sndbuf, wrShut>>
tcpVars == <<event_loop_, disconnected_, write_buf_, crashed>>

(* "none": not connected yet; "open"; "fin": the client has shut its side   *)
(* down; "rst": it has reset the connection; "denied": closed by accept.    *)
PeerStates == {"none", "open", "fin", "rst", "denied"}

TcpTypeOK ==
    /\ peer \in [Conns -> PeerStates]
    /\ inbox \in [Conns -> Nat]
    /\ sends \in [Conns -> 0..MaxSends]
    /\ sndbuf \in [Conns -> 0..SndCap]
    /\ wrShut \in [Conns -> BOOLEAN]
    /\ event_loop_ \in [Conns -> Loops \cup {None}]
    /\ disconnected_ \in [Conns -> BOOLEAN]
    /\ write_buf_ \in [Conns -> Nat]
    /\ crashed \in BOOLEAN

TcpInit ==
    /\ peer = [c \in Conns |-> "none"]
    /\ inbox = [c \in Conns |-> 0]
    /\ sends = [c \in Conns |-> 0]
    /\ sndbuf = [c \in Conns |-> 0]
    /\ wrShut = [c \in Conns |-> FALSE]
    /\ event_loop_ = [c \in Conns |-> None]
    /\ disconnected_ = [c \in Conns |-> FALSE]
    /\ write_buf_ = [c \in Conns |-> 0]
    /\ crashed = FALSE

Least(m, n) == IF m < n THEN m ELSE n

------------------------------------------------------------------------------
(* The client and the kernel                                                *)

ClientSend(c) ==
    /\ peer[c] = "open"
    /\ sends[c] < MaxSends
    /\ sends' = [sends EXCEPT ![c] = @ + 1]
    /\ \E n \in Sizes : inbox' = [inbox EXCEPT ![c] = @ + n]
    /\ UNCHANGED <<peer, sndbuf, wrShut>>

ClientFin(c) ==
    /\ peer[c] = "open"
    /\ peer' = [peer EXCEPT ![c] = "fin"]
    /\ UNCHANGED <<inbox, sends, sndbuf, wrShut>>

(* A reset discards what the server has not read.                           *)
ClientReset(c) ==
    /\ Resets
    /\ peer[c] \in {"open", "fin"}
    /\ peer' = [peer EXCEPT ![c] = "rst"]
    /\ inbox' = [inbox EXCEPT ![c] = 0]
    /\ sndbuf' = [sndbuf EXCEPT ![c] = 0]
    /\ UNCHANGED <<sends, wrShut>>

(* The client takes what is in the send buffer.                             *)
ClientRead(c) ==
    /\ sndbuf[c] > 0
    /\ sndbuf' = [sndbuf EXCEPT ![c] = 0]
    /\ UNCHANGED <<peer, inbox, sends, wrShut>>

(* What poll reports for a connection: nothing that was not asked for.      *)
(* Writability is reported only if kEventWrite is the bit for it.  It is    *)
(* EPOLLOUT in the Linux branch of event_handler.h, which does not build as *)
(* it stands; in the other branch it is POLL_OUT, a code of siginfo_t whose *)
(* value is the bit POLLPRI.  No client sends urgent data.                  *)
Polled ==
    [c \in Conns |->
       {e \in ievents_[c] :
          \/ e = "read" /\ (inbox[c] > 0 \/ peer[c] \in {"fin", "rst"})
          \/ e = "write" /\ WritePolls /\ (sndbuf[c] < SndCap \/ peer[c] = "rst")}]

(* A write to the socket raises SIGPIPE or fails.                           *)
Broken(c) == wrShut[c] \/ peer[c] = "rst"

------------------------------------------------------------------------------
(* The callbacks of the handler                                             *)

(* What the outer loop of handleRead adds up to more than 0: qg::read       *)
(* returns the size of its last read, unless that filled the buffer; then   *)
(* it reads again and returns -1 when nothing is left (EAGAIN) and the      *)
(* total at the end of the stream.                                          *)
Delivers(c) ==
    /\ inbox[c] > 0
    /\ inbox[c] % ReadSize # 0 \/ peer[c] = "fin"

(* Bugs: a closing handler keeps its events; the base loop is not told.     *)
MutHandleCloseKeepsEvents(c) ==
    /\ pending' = AddFunctor(Base, Functor("handleConnectionClose", c))
    /\ UNCHANGED ievents_

MutHandleCloseForgets(c) ==
    /\ ievents_' = [ievents_ EXCEPT ![c] = {}]
    /\ UNCHANGED pending

DisableWrite(c) == [ievents_ EXCEPT ![c] = @ \ {"write"}]

(* handleClose: stop polling, and let the base loop forget the connection.  *)
HandleClose(c) ==
    /\ ievents_' = [ievents_ EXCEPT ![c] = {}]
    /\ pending' = AddFunctor(Base, Functor("handleConnectionClose", c))

(* A callback runs on the connection's loop.  TcpConnection::write posts    *)
(* writeInLoop; TcpConnection::shutdown acts at once.                       *)
CallBack(c, replies) ==
    \E reply \in replies :
        /\ pending' = IF reply = "write"
                      THEN AddFunctor(event_loop_[c], Functor("writeInLoop", c))
                      ELSE pending
        /\ wrShut' = [wrShut EXCEPT ![c] = @ \/ reply = "shutdown"]

(* handleRead has data: the message callback answers, gives up or waits for *)
(* more.                                                                    *)
HandleReadMessage(l, c) ==
    /\ TakeHandler(l, c)
    /\ Reads(c)
    /\ Delivers(c)
    /\ inbox' = [inbox EXCEPT ![c] = 0]
    /\ CallBack(c, OnMessage)
    /\ UNCHANGED <<ievents_, peer, sends, sndbuf, tcpVars>>

(* handleRead has counted no data: close().  It keeps a connection that has *)
(* something to send; its handler still asks for read events.               *)
HandleReadClose(l, c) ==
    /\ TakeHandler(l, c)
    /\ Reads(c)
    /\ ~Delivers(c)
    /\ inbox' = [inbox EXCEPT ![c] = 0]
    /\ disconnected_' = [disconnected_ EXCEPT ![c] = TRUE]
    /\ IF write_buf_[c] > 0 THEN UNCHANGED <<ievents_, pending>> ELSE HandleClose(c)
    /\ UNCHANGED <<peer, sends, sndbuf, wrShut, event_loop_, write_buf_, crashed>>

SkipRead(l, c) ==
    /\ TakeHandler(l, c)
    /\ ~Reads(c)
    /\ UNCHANGED <<ievents_, pending, kernelVars, tcpVars>>

(* handleWrite writes what fits; when nothing is left it stops asking for   *)
(* write events and schedules the write-complete callback.                  *)
HandleWriteSome(l, c) ==
    LET n == Least(write_buf_[c], SndCap - sndbuf[c]) IN
    /\ LeaveHandler(l, c)
    /\ Writes(c)
    /\ write_buf_[c] > 0
    /\ ~Broken(c)
    /\ write_buf_' = [write_buf_ EXCEPT ![c] = @ - n]
    /\ sndbuf' = [sndbuf EXCEPT ![c] = @ + n]
    /\ IF write_buf_[c] > n
       THEN UNCHANGED <<ievents_, pending>>
       ELSE /\ ievents_' = DisableWrite(c)
            /\ pending' = AddFunctor(event_loop_[c], Functor("writeComplete", c))
    /\ UNCHANGED <<peer, inbox, sends, wrShut, event_loop_, disconnected_, crashed>>

(* The write fails with the reset's error.                                  *)
HandleWriteFails(l, c) ==
    /\ LeaveHandler(l, c)
    /\ Writes(c)
    /\ write_buf_[c] > 0
    /\ peer[c] = "rst" /\ ~wrShut[c]
    /\ disconnected_' = [disconnected_ EXCEPT ![c] = TRUE]
    /\ HandleClose(c)
    /\ UNCHANGED <<kernelVars, event_loop_, write_buf_, crashed>>

(* The write raises SIGPIPE, which nothing ignores.                         *)
HandleWriteDies(l, c) ==
    /\ LeaveHandler(l, c)
    /\ Writes(c)
    /\ write_buf_[c] > 0
    /\ Broken(c)
    /\ crashed' = TRUE
    /\ UNCHANGED <<ievents_, pending, kernelVars, event_loop_, disconnected_, write_buf_>>

SkipWrite(l, c) ==
    /\ LeaveHandler(l, c)
    /\ ~Writes(c) \/ write_buf_[c] = 0
    /\ UNCHANGED <<ievents_, pending, kernelVars, tcpVars>>

------------------------------------------------------------------------------
(* The functors of a connection                                             *)

HandleConnection(l, c) ==
    /\ Runs(l, "handleConnection", c)
    /\ Returns(l)
    /\ handler_map_' = [handler_map_ EXCEPT ![event_loop_[c]] = @ \cup {c}]
    /\ ievents_' = [ievents_ EXCEPT ![c] = @ \cup {"read"}]
    /\ CallBack(c, OnConnect)
    /\ UNCHANGED <<cur, ess, batch, revents_, peer, inbox, sends, sndbuf, tcpVars>>

(* writeInLoop drops the data of a connection that is being closed.         *)
WriteDropped(l, c) ==
    /\ Runs(l, "writeInLoop", c)
    /\ Returns(l)
    /\ disconnected_[c]
    /\ UNCHANGED <<cur, ess, pending, batch, handler_map_, ievents_, revents_,
                   kernelVars, tcpVars>>

CanWriteDirect(c) == "write" \notin ievents_[c] /\ write_buf_[c] = 0

(* writeInLoop buffers what it cannot write and asks for write events; the  *)
(* write-complete callback is scheduled when all was written at once.       *)
WriteNow(l, c) ==
    LET n == IF CanWriteDirect(c) THEN Least(ResponseLen, SndCap - sndbuf[c]) ELSE 0 IN
    /\ Runs(l, "writeInLoop", c)
    /\ Returns(l)
    /\ ~disconnected_[c]
    /\ CanWriteDirect(c) => ~Broken(c)
    /\ sndbuf' = [sndbuf EXCEPT ![c] = @ + n]
    /\ write_buf_' = [write_buf_ EXCEPT ![c] = @ + ResponseLen - n]
    /\ pending' = IF n = ResponseLen
                  THEN AddFunctor(event_loop_[c], Functor("writeComplete", c))
                  ELSE pending
    /\ ievents_' = IF write_buf_[c] + ResponseLen > n
                   THEN [ievents_ EXCEPT ![c] = @ \cup {"write"}]
                   ELSE ievents_
    /\ UNCHANGED <<cur, ess, batch, handler_map_, revents_, peer, inbox, sends,
                   wrShut, event_loop_, disconnected_, crashed>>

(* A direct write on a broken socket kills the process, by SIGPIPE or by    *)
(* the exception of data.substr(-1).                                        *)
WriteDies(l, c) ==
    /\ Runs(l, "writeInLoop", c)
    /\ Returns(l)
    /\ ~disconnected_[c]
    /\ CanWriteDirect(c)
    /\ Broken(c)
    /\ crashed' = TRUE
    /\ UNCHANGED <<cur, ess, pending, batch, handler_map_, ievents_, revents_,
                   kernelVars, event_loop_, disconnected_, write_buf_>>

WriteComplete(l, c) ==
    /\ Runs(l, "writeComplete", c)
    /\ Returns(l)
    /\ CallBack(c, OnComplete)
    /\ UNCHANGED <<cur, ess, batch, handler_map_, ievents_, revents_,
                   peer, inbox, sends, sndbuf, tcpVars>>

(* The steps of a connection on the thread of loop l.                       *)
TcpStep(l, c) ==
    \/ HandleReadMessage(l, c) \/ HandleReadClose(l, c) \/ SkipRead(l, c)
    \/ HandleWriteSome(l, c) \/ HandleWriteFails(l, c) \/ HandleWriteDies(l, c)
    \/ SkipWrite(l, c)
    \/ HandleConnection(l, c)
    \/ WriteDropped(l, c) \/ WriteNow(l, c) \/ WriteDies(l, c)
    \/ WriteComplete(l, c)

ClientStep(c) ==
    \/ ClientSend(c) \/ ClientFin(c) \/ ClientReset(c) \/ ClientRead(c)
==============================================================================
