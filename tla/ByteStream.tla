----------------------------- MODULE ByteStream -----------------------------
(***************************************************************************)
(* The bytes of one connection of the echo server of src/src/test/          *)
(* test_server.cpp, system call by system call: handleRead around qg::read, *)
(* writeInLoop and handleWrite around qg::write, with a client that sends   *)
(* and reads between any two system calls.                                  *)
(*                                                                          *)
(* Module TcpConnection counts bytes and takes one call of qg::read or      *)
(* qg::write for one step; here the client numbers its bytes 1, 2, 3, ...   *)
(* so that a byte lost, repeated or out of place can be told.  One loop     *)
(* serves the connection, which handleConnection has registered.  Both      *)
(* branches of event_handler.h are modelled: writePolls says which.         *)
(***************************************************************************)
EXTENDS Integers, SequencesExt

CONSTANTS
    ReadSize,      \* defaultReadBuffSize
    SndCap,        \* capacity of the socket's send buffer
    MaxSent,       \* bound on the bytes the client sends
    MaxDrains      \* bound on the client's reads between two calls of ::write

ASSUME StreamAssumption ==
    /\ ReadSize \in Nat \ {0}
    /\ SndCap \in Nat \ {0}
    /\ MaxSent \in Nat
    /\ MaxDrains \in Nat

VARIABLES
    writePolls,    \* kEventWrite is EPOLLOUT, not POLL_OUT: fixed by the build
    sent,          \* how many bytes the client has sent
    fin,           \* the client has shut its sending side down
    rcv,           \* the kernel's receive buffer of the server's socket
    snd,           \* the kernel's send buffer of the server's socket
    got,           \* the bytes the client has read
    open,          \* the server has not closed the socket
    at,            \* where the loop's thread is
    ievents_,      \* the events the handler asks for
    revents_,      \* the events ever reported for it
    queue,         \* pending_functors_
    batch,         \* the functors of handlePendingFunctors
    buf,           \* handleRead: the string given to qg::read
    qcnt,          \* qg::read: cnt
    cnt,           \* handleRead: cnt
    read_buf_,     \* the bytes for the message callback
    out,           \* qg::write: the buffer
    wcnt,          \* qg::write: cnt
    write_buf_,    \* the bytes the connection still has to write
    disconnected_,
    crashed        \* an uncaught exception has ended the process

(* What the properties remember.                                            *)
VARIABLES
    told,          \* the bytes given to the message callback
    owed,          \* a write was accepted since a completion was queued
    again,         \* bytes came between two calls of qg::read in a handleRead
    exact,         \* qg::read met EAGAIN after reads that filled its buffer
    drains         \* client's reads between two calls of ::write in a qg::write

kernelVars == <<writePolls, sent, fin, rcv, snd, got, open>>
loopVars == <<at, ievents_, revents_, queue, batch>>
readVars == <<buf, qcnt, cnt, read_buf_, told, exact>>
writeVars == <<out, wcnt, write_buf_, owed>>
stateVars == <<disconnected_, crashed>>
ghostVars == <<again, drains>>
vars == <<kernelVars, loopVars, readVars, writeVars, stateVars, ghostVars>>

Init ==
    /\ writePolls \in BOOLEAN
    /\ sent = 0 /\ fin = FALSE /\ rcv = <<>> /\ snd = <<>> /\ got = <<>> /\ open = TRUE
    /\ at = "wait" /\ ievents_ = {"read"} /\ revents_ = {} /\ queue = <<>> /\ batch = <<>>
    /\ buf = <<>> /\ qcnt = 0 /\ cnt = 0 /\ read_buf_ = <<>>
    /\ out = <<>> /\ wcnt = 0 /\ write_buf_ = <<>>
    /\ disconnected_ = FALSE /\ crashed = FALSE
    /\ told = <<>> /\ owed = FALSE /\ again = FALSE /\ exact = FALSE /\ drains = 0

(* The functors of a connection; only writeInLoop carries data.             *)
Functor(op, data) == [op |-> op, data |-> data]

Least(m, n) == IF m < n THEN m ELSE n

First(s, n) == SubSeq(s, 1, n)
Rest(s, n) == SubSeq(s, n + 1, Len(s))

(* Between two calls of ::write: the first one did not write everything.    *)
MidWrite == at \in {"flush", "send"} /\ wcnt > 0

------------------------------------------------------------------------------
(* The client                                                               *)

ClientSend ==
    /\ open /\ ~fin
    /\ \E n \in 1..(MaxSent - sent) :
           /\ sent' = sent + n
           /\ rcv' = rcv \o [i \in 1..n |-> sent + i]
    /\ again' = (again \/ (at = "read" /\ cnt > 0))
    /\ UNCHANGED <<writePolls, fin, snd, got, open, loopVars, readVars, writeVars,
                   stateVars, drains>>

ClientFin ==
    /\ open /\ ~fin
    /\ fin' = TRUE
    /\ UNCHANGED <<writePolls, sent, rcv, snd, got, open, loopVars, readVars, writeVars,
                   stateVars, ghostVars>>

ClientRead ==
    /\ MidWrite => drains < MaxDrains
    /\ \E n \in 1..Len(snd) :
           /\ got' = got \o First(snd, n)
           /\ snd' = Rest(snd, n)
    /\ drains' = IF MidWrite THEN drains + 1 ELSE drains
    /\ UNCHANGED <<writePolls, sent, fin, rcv, open, loopVars, readVars, writeVars,
                   stateVars, again>>

------------------------------------------------------------------------------
(* loop()                                                                   *)

(* What poll reports.  Without the bit for writability it reports no write  *)
(* event: POLL_OUT, a code of siginfo_t, has the value of POLLPRI, and the  *)
(* client sends no urgent data.                                             *)
Polled ==
    {e \in ievents_ : \/ e = "read" /\ (rcv # <<>> \/ fin)
                      \/ e = "write" /\ writePolls /\ Len(snd) < SndCap}

(* Wait returns with the handler, whose sticky revents_ decide about the    *)
(* read callback, or for the Waker alone.                                   *)
Wait ==
    /\ at = "wait"
    /\ Polled # {} \/ queue # <<>>
    /\ revents_' = revents_ \cup Polled
    /\ at' = IF Polled = {} THEN "functors"
             ELSE IF "read" \in revents_' \cap ievents_ THEN "read" ELSE "half"
    /\ UNCHANGED <<kernelVars, ievents_, queue, batch, readVars, writeVars, stateVars,
                   ghostVars>>

PopAll ==
    /\ at = "functors"
    /\ at' = "run"
    /\ batch' = queue
    /\ queue' = <<>>
    /\ UNCHANGED <<kernelVars, ievents_, revents_, readVars, writeVars, stateVars, ghostVars>>

EndRun ==
    /\ at = "run"
    /\ batch = <<>>
    /\ at' = "wait"
    /\ UNCHANGED <<kernelVars, ievents_, revents_, queue, batch, readVars, writeVars,
                   stateVars, ghostVars>>

------------------------------------------------------------------------------
(* handleRead.  buf is not cleared between two calls of qg::read.           *)

(* Bug: handleRead does not add up what it has read.                        *)
MutCounted(n) == cnt

Counted(n) == cnt + n

(* ::read fills the buffer: qg::read reads again.                           *)
ReadFull ==
    /\ at = "read"
    /\ Len(rcv) >= ReadSize
    /\ buf' = buf \o First(rcv, ReadSize)
    /\ rcv' = Rest(rcv, ReadSize)
    /\ qcnt' = qcnt + ReadSize
    /\ UNCHANGED <<writePolls, sent, fin, snd, got, open, loopVars, cnt, read_buf_, told,
                   exact, writeVars, stateVars, ghostVars>>

(* ::read returns less: qg::read returns that, and handleRead calls again.  *)
ReadShort ==
    /\ at = "read"
    /\ Len(rcv) \in 1..(ReadSize - 1)
    /\ buf' = buf \o rcv
    /\ read_buf_' = read_buf_ \o buf \o rcv
    /\ cnt' = Counted(Len(rcv))
    /\ rcv' = <<>>
    /\ qcnt' = 0
    /\ UNCHANGED <<writePolls, sent, fin, snd, got, open, loopVars, told, exact, writeVars,
                   stateVars, ghostVars>>

(* The end of the stream after full reads: qg::read returns its total.      *)
ReadEndAfterFull ==
    /\ at = "read"
    /\ rcv = <<>> /\ fin
    /\ qcnt > 0
    /\ read_buf_' = read_buf_ \o buf
    /\ cnt' = Counted(qcnt)
    /\ qcnt' = 0
    /\ UNCHANGED <<kernelVars, loopVars, buf, told, exact, writeVars, stateVars, ghostVars>>

(* Bug: the string outlives handleRead.                                     *)
MutReadEnds ==
    /\ at = "read"
    /\ rcv = <<>>
    /\ fin => qcnt = 0
    /\ exact' = (exact \/ qcnt > 0)
    /\ qcnt' = 0 /\ cnt' = 0
    /\ at' = "half"
    /\ UNCHANGED buf

(* qg::read returns 0 (end of the stream) or -1 (EAGAIN): handleRead's loop *)
(* ends.                                                                    *)
ReadEnds ==
    /\ at = "read"
    /\ rcv = <<>>
    /\ fin => qcnt = 0
    /\ exact' = (exact \/ qcnt > 0)
    /\ buf' = <<>> /\ qcnt' = 0 /\ cnt' = 0
    /\ at' = "half"

(* Bug: read_buf_ is not cleared.                                           *)
MutMessageCallBack ==
    /\ told' = told \o read_buf_
    /\ queue' = Append(queue, Functor("writeInLoop", read_buf_))
    /\ UNCHANGED read_buf_

(* The message callback echoes what it is given.                            *)
MessageCallBack ==
    /\ told' = told \o read_buf_
    /\ queue' = Append(queue, Functor("writeInLoop", read_buf_))
    /\ read_buf_' = <<>>

HandleReadMessage ==
    /\ ReadEnds
    /\ cnt > 0
    /\ MessageCallBack
    /\ UNCHANGED <<kernelVars, ievents_, revents_, batch, writeVars, stateVars, ghostVars>>

HasContentToSend == write_buf_ # <<>>

HandleClose ==
    /\ ievents_' = {}
    /\ queue' = Append(queue, Functor("handleConnectionClose", <<>>))

(* Nothing was counted: close().                                            *)
HandleReadClose ==
    /\ ReadEnds
    /\ cnt = 0
    /\ disconnected_' = TRUE
    /\ IF HasContentToSend THEN UNCHANGED <<ievents_, queue>> ELSE HandleClose
    /\ UNCHANGED <<kernelVars, revents_, batch, read_buf_, told, writeVars, crashed,
                   ghostVars>>

------------------------------------------------------------------------------
(* qg::write.  After a partial ::write it writes from the start of the      *)
(* buffer again, until its total is the size or the socket is full.         *)

HandleWriteStarts ==
    /\ at = "half"
    /\ "write" \in revents_ \cap ievents_
    /\ write_buf_ # <<>>
    /\ at' = "flush"
    /\ out' = write_buf_
    /\ wcnt' = 0
    /\ UNCHANGED <<kernelVars, ievents_, revents_, queue, batch, readVars, write_buf_, owed,
                   stateVars, ghostVars>>

SkipWrite ==
    /\ at = "half"
    /\ "write" \notin revents_ \cap ievents_ \/ write_buf_ = <<>>
    /\ at' = "functors"
    /\ UNCHANGED <<kernelVars, ievents_, revents_, queue, batch, readVars, writeVars,
                   stateVars, ghostVars>>

(* ::write takes n bytes, the first ones of the buffer.                     *)
Writes(n) ==
    /\ at \in {"flush", "send"}
    /\ n = Least(SndCap - Len(snd), Len(out))
    /\ n > 0
    /\ snd' = snd \o First(out, n)

IsTotal(n) == n = Len(out)

WriteSome ==
    /\ \E n \in 1..SndCap :
           /\ Writes(n)
           /\ ~IsTotal(wcnt + n)
           /\ wcnt' = wcnt + n
    /\ UNCHANGED <<writePolls, sent, fin, rcv, got, open, loopVars, readVars, out,
                   write_buf_, owed, stateVars, ghostVars>>

(* Bug: the completion is not queued.                                       *)
MutComplete == queue

Complete == Append(queue, Functor("writeComplete", <<>>))

(* Bugs: write events are not asked for; they are dropped with bytes left;  *)
(* bytes written are kept.                                                  *)
MutEnableWrite == ievents_

MutDisableWrite(left) == ievents_ \ {"write"}

MutSubstr(n) == out

EnableWrite == ievents_ \cup {"write"}

DisableWrite(left) == IF left = <<>> THEN ievents_ \ {"write"} ELSE ievents_

(* data.substr(nwrite), write_buf_.substr(nwrite)                           *)
Substr(n) == Rest(out, n)

(* qg::write returns n to handleWrite.                                      *)
FlushReturns(n) ==
    /\ at = "flush"
    /\ at' = "functors"
    /\ write_buf_' = Substr(n)
    /\ ievents_' = DisableWrite(Substr(n))
    /\ queue' = IF Substr(n) = <<>> THEN Complete ELSE queue
    /\ UNCHANGED batch

(* qg::write returns n to writeInLoop.                                      *)
SendReturns(n) ==
    /\ at = "send"
    /\ at' = "run"
    /\ batch' = Tail(batch)
    /\ write_buf_' = write_buf_ \o Substr(n)
    /\ ievents_' = IF Substr(n) = <<>> THEN ievents_ ELSE EnableWrite
    /\ queue' = IF n = Len(out) THEN Complete ELSE queue

Returns(n) ==
    /\ FlushReturns(n) \/ SendReturns(n)
    /\ owed' = (queue' = queue)
    /\ out' = <<>>
    /\ wcnt' = 0
    /\ UNCHANGED <<revents_, readVars, stateVars, ghostVars>>

(* The total is the size.                                                   *)
WriteReturns ==
    /\ \E n \in 1..SndCap : Writes(n) /\ IsTotal(wcnt + n)
    /\ Returns(Len(out))
    /\ UNCHANGED <<writePolls, sent, fin, rcv, got, open>>

(* The socket is full: EAGAIN.                                              *)
WriteAgain ==
    /\ Len(snd) = SndCap
    /\ wcnt <= Len(out)
    /\ Returns(wcnt)
    /\ UNCHANGED kernelVars

(* More was written than there is: substr throws.                           *)
WriteThrows ==
    /\ at \in {"flush", "send"}
    /\ Len(snd) = SndCap
    /\ wcnt > Len(out)
    /\ crashed' = TRUE
    /\ at' = "dead"
    /\ UNCHANGED <<kernelVars, ievents_, revents_, queue, batch, readVars, writeVars,
                   disconnected_, ghostVars>>

------------------------------------------------------------------------------
(* The functors                                                             *)

Runs(op) == at = "run" /\ batch # <<>> /\ Head(batch).op = op

WriteDropped ==
    /\ Runs("writeInLoop")
    /\ disconnected_
    /\ batch' = Tail(batch)
    /\ UNCHANGED <<kernelVars, at, ievents_, revents_, queue, readVars, writeVars, stateVars,
                   ghostVars>>

CanWriteDirect == "write" \notin ievents_ /\ write_buf_ = <<>>

WriteDirect ==
    /\ Runs("writeInLoop")
    /\ ~disconnected_
    /\ CanWriteDirect
    /\ at' = "send"
    /\ out' = Head(batch).data
    /\ wcnt' = 0
    /\ UNCHANGED <<kernelVars, ievents_, revents_, queue, batch, readVars, write_buf_, owed,
                   stateVars, ghostVars>>

(* Other bytes are waiting: these follow them.                              *)
WriteBehind ==
    /\ Runs("writeInLoop")
    /\ ~disconnected_
    /\ ~CanWriteDirect
    /\ batch' = Tail(batch)
    /\ write_buf_' = write_buf_ \o Head(batch).data
    /\ ievents_' = EnableWrite
    /\ owed' = TRUE
    /\ UNCHANGED <<kernelVars, at, revents_, queue, readVars, out, wcnt, stateVars, ghostVars>>

(* The completion callback of the echo server only prints.                  *)
WriteComplete ==
    /\ Runs("writeComplete")
    /\ batch' = Tail(batch)
    /\ UNCHANGED <<kernelVars, at, ievents_, revents_, queue, readVars, writeVars, stateVars,
                   ghostVars>>

HandleConnectionClose ==
    /\ Runs("handleConnectionClose")
    /\ batch' = Tail(batch)
    /\ queue' = Append(queue, Functor("closeConnection", <<>>))
    /\ UNCHANGED <<kernelVars, at, ievents_, revents_, readVars, writeVars, stateVars,
                   ghostVars>>

(* closeConnection, and with its functor the connection goes.  Closing a    *)
(* socket that holds unread bytes resets the connection, and what the       *)
(* client has not read is lost.                                             *)
CloseConnection ==
    /\ Runs("closeConnection")
    /\ batch' = Tail(batch)
    /\ disconnected_' = TRUE
    /\ open' = FALSE
    /\ snd' = IF rcv = <<>> THEN snd ELSE <<>>
    /\ UNCHANGED <<writePolls, sent, fin, rcv, got, at, ievents_, revents_, queue, readVars,
                   writeVars, crashed, ghostVars>>

------------------------------------------------------------------------------
LoopStep ==
    \/ Wait \/ PopAll \/ EndRun
    \/ ReadFull \/ ReadShort \/ ReadEndAfterFull \/ HandleReadMessage \/ HandleReadClose
    \/ HandleWriteStarts \/ SkipWrite
    \/ WriteSome \/ WriteReturns \/ WriteAgain \/ WriteThrows
    \/ WriteDropped \/ WriteDirect \/ WriteBehind \/ WriteComplete
    \/ HandleConnectionClose \/ CloseConnection

Next == LoopStep \/ ClientSend \/ ClientFin \/ ClientRead

Safety == Init /\ [][Next]_vars

(* The loop's thread is scheduled; the client keeps reading.                *)
Spec == Safety /\ WF_vars(LoopStep) /\ WF_vars(ClientRead)

------------------------------------------------------------------------------
Bytes == 1..MaxSent
Ops == {"writeInLoop", "writeComplete", "handleConnectionClose", "closeConnection"}
Functors == [op : Ops, data : Seq(Bytes)]

(* Types; among them that handleRead's and qg::read's counters, and the     *)
(* string they share, are reset when handleRead is left.                    *)
TypeOK ==
    /\ writePolls \in BOOLEAN
    /\ sent \in 0..MaxSent /\ fin \in BOOLEAN /\ open \in BOOLEAN
    /\ rcv \in Seq(Bytes) /\ snd \in Seq(Bytes) /\ got \in Seq(Bytes)
    /\ buf \in Seq(Bytes) /\ read_buf_ \in Seq(Bytes) /\ told \in Seq(Bytes)
    /\ out \in Seq(Bytes) /\ write_buf_ \in Seq(Bytes)
    /\ Len(snd) <= SndCap
    /\ at \in {"wait", "read", "half", "flush", "functors", "run", "send", "dead"}
    /\ ievents_ \subseteq {"read", "write"} /\ revents_ \subseteq {"read", "write"}
    /\ queue \in Seq(Functors) /\ batch \in Seq(Functors)
    /\ qcnt \in Nat /\ cnt \in Nat /\ wcnt \in Nat
    /\ at # "read" => buf = <<>> /\ qcnt = 0 /\ cnt = 0
    /\ at \notin {"flush", "send", "dead"} => out = <<>> /\ wcnt = 0
    /\ disconnected_ \in BOOLEAN /\ crashed \in BOOLEAN
    /\ owed \in BOOLEAN /\ again \in BOOLEAN /\ exact \in BOOLEAN
    /\ drains \in 0..MaxDrains

(* The bytes taken from the socket in this handleRead and not counted yet.  *)
Taken == IF cnt = 0 THEN buf ELSE <<>>

(* What the client has sent is what the application was given, followed by  *)
(* what handleRead and the kernel hold: nothing is lost, repeated or out of *)
(* order on the way in, unless bytes came between two calls of qg::read in  *)
(* one handleRead (buf is then added again) or EAGAIN followed a full read  *)
(* (buf is then dropped).                                                   *)
InboundFaithful ==
    ~again /\ ~exact =>
        told \o read_buf_ \o Taken \o rcv = [i \in 1..sent |-> i]

Unsent == IF at \in {"flush", "send"} THEN Rest(out, wcnt) ELSE write_buf_

(* The data the functors of a queue carry, in order.                        *)
Data(q) == FlattenSeq([i \in DOMAIN q |-> q[i].data])

Queued ==
    IF at = "send" THEN Data(Tail(batch)) \o Data(queue) ELSE Data(batch) \o Data(queue)

(* What the application wrote is what the client has read, followed by what *)
(* the kernel, write_buf_ and the queue hold: partial writes, buffering and *)
(* flushing lose, repeat and reorder nothing, unless the client reads while *)
(* qg::write is between two calls of ::write (it then starts over, and may  *)
(* hand substr a position behind the end, which ends the process).  A       *)
(* connection that counts as disconnected may drop later messages, never    *)
(* part of one.                                                             *)
OutboundFaithful ==
    drains = 0 =>
        /\ ~crashed
        /\ IsPrefix(got \o snd \o Unsent, told)
        /\ ~disconnected_ => got \o snd \o Unsent \o Queued = told

(* A connection is taken for disconnected only if the client has finished,  *)
(* EAGAIN followed a full read, or a write event was once polled for it     *)
(* (revents_ is sticky: every write event also runs handleRead); and it is  *)
(* closed only for one of the first two reasons.                            *)
KeptOpen ==
    /\ disconnected_ => fin \/ exact \/ "write" \in revents_
    /\ ievents_ = {} => fin \/ exact

(* Between rounds a write-complete callback has been queued since the last  *)
(* write was accepted (the functor runs in this round or the next) if and   *)
(* only if all that was written is in the kernel's hands.                   *)
CompletionTrue ==
    at = "wait" /\ ~disconnected_ /\ drains = 0 =>
        (owed <=> Len(got) + Len(snd) < Len(told))

(* Bytes wait for a write event that poll is not asked for; they do so only *)
(* after the socket was full once.                                          *)
Stuck ==
    ~writePolls /\ write_buf_ # <<>> /\ Len(got) + Len(snd) >= SndCap

(* Every byte is echoed to a client that keeps reading, unless one of the   *)
(* cases above has struck or the connection counts as disconnected; with    *)
(* POLL_OUT for kEventWrite, at least those before the first full socket.   *)
Echoed ==
    <>[](\/ again \/ exact \/ drains > 0 \/ disconnected_ \/ Stuck
         \/ got = [i \in 1..sent |-> i])

(* What was accepted for writing leaves write_buf_ and reaches a client     *)
(* that keeps reading, also after the client has finished sending: the      *)
(* connection is not closed on what it still has to send.  With POLL_OUT    *)
(* for kEventWrite what the first full socket left over stays.              *)
Flushed == <>[](crashed \/ (snd = <<>> /\ (write_buf_ = <<>> \/ Stuck)))
==============================================================================
