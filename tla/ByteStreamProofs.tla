--------------------------- MODULE ByteStreamProofs ---------------------------
(***************************************************************************)
(* Proofs about module ByteStream, for any buffer sizes and any number of   *)
(* bytes: types, both directions of the byte stream, why connections are    *)
(* closed, and completions.                                                 *)
(***************************************************************************)
EXTENDS ByteStream, SequenceFacts

(* Cutting a sequence in two loses nothing.                                 *)
LEMMA FirstRest ==
    ASSUME NEW B, NEW s \in Seq(B), NEW n \in 0..Len(s)
    PROVE  /\ First(s, n) \in Seq(B) /\ Len(First(s, n)) = n
           /\ Rest(s, n) \in Seq(B) /\ Len(Rest(s, n)) = Len(s) - n
           /\ First(s, n) \o Rest(s, n) = s
           /\ Rest(s, n) = <<>> <=> n = Len(s)
           /\ n = 0 => Rest(s, n) = s
<1>1. First(s, n) \in Seq(B) /\ Len(First(s, n)) = n
  BY SubSeqProperties, ElementOfSeq DEF First
<1>2. Rest(s, n) \in Seq(B) /\ Len(Rest(s, n)) = Len(s) - n
  BY SubSeqProperties, ElementOfSeq DEF Rest
<1>3. First(s, n) \o Rest(s, n) = s
  <2>1. 1 \in 1 .. Len(s)+1 /\ n \in 1-1 .. Len(s) /\ Len(s) \in n .. Len(s)
    OBVIOUS
  <2>2. SubSeq(s, 1, n) \o SubSeq(s, n + 1, Len(s)) = SubSeq(s, 1, Len(s))
    BY ONLY <2>1, s \in Seq(B), ConcatAdjacentSubSeq
  <2> QED
    BY <2>2, SubSeqFull DEF First, Rest
<1>4. Rest(s, n) = <<>> <=> n = Len(s)
  BY <1>2, EmptySeq
<1>5. n = 0 => Rest(s, n) = s
  BY SubSeqFull DEF Rest
<1> QED
  BY <1>1, <1>2, <1>3, <1>4, <1>5

(* The n bytes the client sends after the first m.                          *)
Numbers(m, n) == [i \in 1..n |-> m + i]

(* They are bytes.                                                          *)
LEMMA NumbersType ==
    ASSUME NEW m \in Nat, NEW n \in Nat, m + n <= MaxSent, MaxSent \in Nat
    PROVE  Numbers(m, n) \in Seq(Bytes) /\ Len(Numbers(m, n)) = n
BY DEF Numbers, Bytes

------------------------------------------------------------------------------
(* The parts of the inductive invariant                                     *)

(* What is known where the thread is: batch is empty outside                *)
(* handlePendingFunctors; writeInLoop writes directly only for a live       *)
(* connection with nothing waiting; handleWrite writes write_buf_.          *)
PlaceInv ==
    /\ at \in {"wait", "read", "half", "flush", "functors"} => batch = <<>>
    /\ at = "send" => batch # <<>> /\ ~disconnected_ /\ write_buf_ = <<>>
    /\ at = "flush" => out = write_buf_ /\ "write" \in ievents_

(* Queues stay queues.                                                      *)
LEMMA QueueTypes ==
    ASSUME NEW q \in Seq(Functors)
    PROVE  /\ \A op \in Ops, d \in Seq(Bytes) : Append(q, Functor(op, d)) \in Seq(Functors)
           /\ \A op \in Ops, d \in Seq(Bytes) : Append(q, Functor(op, d)) # q
           /\ q # <<>> => Tail(q) \in Seq(Functors) /\ Head(q) \in Functors
                          /\ Head(q).data \in Seq(Bytes)
<1>1. \A op \in Ops, d \in Seq(Bytes) : Functor(op, d) \in Functors
  BY DEF Functor, Functors
<1>2. \A f \in Functors : Append(q, f) \in Seq(Functors) /\ Append(q, f) # q
  BY AppendProperties
<1>3. \A f \in Functors : f.data \in Seq(Bytes)
  BY DEF Functors
<1>4. q # <<>> => Tail(q) \in Seq(Functors) /\ Head(q) \in Functors
  BY HeadTailProperties
<1> QED
  BY <1>1, <1>2, <1>3, <1>4

(* Concatenations of bytes are sequences of bytes.                          *)
LEMMA ConcatType ==
    ASSUME NEW a \in Seq(Bytes), NEW b \in Seq(Bytes)
    PROVE  a \o b \in Seq(Bytes) /\ Len(a \o b) = Len(a) + Len(b)
BY ConcatProperties

(* Every step keeps the types.                                              *)
LEMMA TypeStep == ASSUME TypeOK, PlaceInv, [Next]_vars PROVE TypeOK'
<1>0. ReadSize \in Nat \ {0} /\ SndCap \in Nat \ {0} /\ MaxSent \in Nat /\ MaxDrains \in Nat
  BY StreamAssumption
<1> USE DEF kernelVars, loopVars, readVars, writeVars, stateVars, ghostVars
<1>1. CASE ClientSend
  <2>1. PICK n \in 1..(MaxSent - sent) : sent' = sent + n /\ rcv' = rcv \o Numbers(sent, n)
    BY <1>1 DEF ClientSend, Numbers
  <2>2. rcv' \in Seq(Bytes) /\ sent' \in 0..MaxSent
    <3>1. Numbers(sent, n) \in Seq(Bytes)
      BY <1>0, NumbersType DEF TypeOK
    <3> QED
      BY <1>0, <2>1, <3>1, ConcatType DEF TypeOK
  <2>3. /\ again' \in BOOLEAN
        /\ UNCHANGED <<writePolls, fin, snd, got, open, loopVars, readVars, writeVars, stateVars,
                       drains>>
    BY <1>1 DEF ClientSend, TypeOK
  <2> QED
    BY <2>2, <2>3, SMTT(40) DEF TypeOK
<1>2. CASE ClientFin
  BY <1>2 DEF ClientFin, TypeOK
<1>3. CASE ClientRead
  <2>1. PICK n \in 1..Len(snd) : got' = got \o First(snd, n) /\ snd' = Rest(snd, n)
    BY <1>3 DEF ClientRead
  <2>2. got' \in Seq(Bytes) /\ snd' \in Seq(Bytes) /\ Len(snd') <= SndCap
    BY <1>0, <2>1, FirstRest, ConcatType DEF TypeOK
  <2>3. drains' \in 0..MaxDrains
    BY <1>0, <1>3 DEF ClientRead, TypeOK
  <2>4. UNCHANGED <<writePolls, sent, fin, rcv, open, loopVars, readVars, writeVars, stateVars,
                    again>>
    BY <1>3 DEF ClientRead
  <2> QED
    BY <2>2, <2>3, <2>4, SMTT(40) DEF TypeOK
<1>4. CASE Wait
  BY <1>4 DEF Wait, Polled, TypeOK
<1>5. CASE PopAll
  BY <1>5 DEF PopAll, TypeOK
<1>6. CASE EndRun
  BY <1>6 DEF EndRun, TypeOK
<1>7. CASE ReadFull
  <2>1. First(rcv, ReadSize) \in Seq(Bytes) /\ Rest(rcv, ReadSize) \in Seq(Bytes)
    <3>1. ReadSize \in 0..Len(rcv) /\ rcv \in Seq(Bytes)
      BY <1>0, <1>7 DEF ReadFull, TypeOK
    <3> QED
      BY <3>1, FirstRest
  <2>2. buf' \in Seq(Bytes) /\ rcv' \in Seq(Bytes)
    BY <2>1, <1>7, ConcatType DEF ReadFull, TypeOK
  <2> QED
    BY <1>0, <1>7, <2>2 DEF ReadFull, TypeOK
<1>8. CASE ReadShort
  <2>1. buf' \in Seq(Bytes) /\ read_buf_' \in Seq(Bytes)
    BY <1>8, ConcatType DEF ReadShort, TypeOK
  <2>2. cnt' \in Nat
    BY <1>8 DEF ReadShort, Counted, TypeOK
  <2> QED
    BY <1>8, <2>1, <2>2 DEF ReadShort, TypeOK
<1>9. CASE ReadEndAfterFull
  <2>1. read_buf_' \in Seq(Bytes)
    BY <1>9, ConcatType DEF ReadEndAfterFull, TypeOK
  <2>2. cnt' \in Nat
    BY <1>9 DEF ReadEndAfterFull, Counted, TypeOK
  <2> QED
    BY <1>9, <2>1, <2>2 DEF ReadEndAfterFull, TypeOK
<1>10. CASE HandleReadMessage
  <2>1. told' \in Seq(Bytes) /\ queue' \in Seq(Functors)
    BY <1>10, ConcatType, QueueTypes DEF HandleReadMessage, MessageCallBack, Ops, TypeOK
  <2> QED
    BY <1>10, <2>1 DEF HandleReadMessage, MessageCallBack, ReadEnds, TypeOK
<1>11. CASE HandleReadClose
  <2>1. ievents_' \subseteq {"read", "write"} /\ queue' \in Seq(Functors)
    BY <1>11, QueueTypes, EmptySeq DEF HandleReadClose, HandleClose, Ops, TypeOK
  <2> QED
    BY <1>11, <2>1 DEF HandleReadClose, ReadEnds, TypeOK
<1>12. CASE HandleWriteStarts
  BY <1>12 DEF HandleWriteStarts, TypeOK
<1>13. CASE SkipWrite
  BY <1>13 DEF SkipWrite, TypeOK
<1>14. ASSUME NEW n \in 1..SndCap, Writes(n)
       PROVE  snd' \in Seq(Bytes) /\ Len(snd') <= SndCap /\ at \in {"flush", "send"}
  <2>1. n \in 0..Len(out) /\ n <= SndCap - Len(snd)
    BY <1>0, <1>14 DEF Writes, Least, TypeOK
  <2>2. First(out, n) \in Seq(Bytes) /\ Len(First(out, n)) = n
    BY <2>1, FirstRest DEF TypeOK
  <2> QED
    BY <1>0, <1>14, <2>1, <2>2, ConcatType DEF Writes, TypeOK
<1>15. CASE WriteSome
  <2>1. PICK n \in 1..SndCap : Writes(n) /\ wcnt' = wcnt + n
    BY <1>15 DEF WriteSome
  <2>2. at \in {"flush", "send"} /\ snd' \in Seq(Bytes) /\ Len(snd') <= SndCap
    BY <1>14, <2>1
  <2>3. wcnt' \in Nat
    BY <2>1 DEF TypeOK
  <2>4. UNCHANGED <<writePolls, sent, fin, rcv, got, open, loopVars, readVars, out, write_buf_,
                    owed, stateVars, ghostVars>>
    BY <1>15 DEF WriteSome
  <2> QED
    BY <2>2, <2>3, <2>4 DEF TypeOK
<1>16. ASSUME NEW n \in 0..Len(out), Returns(n), snd' \in Seq(Bytes), Len(snd') <= SndCap,
              UNCHANGED <<writePolls, sent, fin, rcv, got, open>>
       PROVE  TypeOK'
  <2>1. Substr(n) \in Seq(Bytes)
    BY FirstRest DEF Substr, TypeOK
  <2>2. Complete \in Seq(Functors)
    BY QueueTypes, EmptySeq DEF Complete, Ops, TypeOK
  <2>3. /\ write_buf_' \in Seq(Bytes) /\ queue' \in Seq(Functors) /\ batch' \in Seq(Functors)
        /\ ievents_' \subseteq {"read", "write"} /\ at' \in {"functors", "run"}
    <3>1. CASE FlushReturns(n)
      BY <2>1, <2>2, <3>1 DEF FlushReturns, DisableWrite, TypeOK
    <3>2. CASE SendReturns(n)
      BY <2>1, <2>2, <3>2, ConcatType, QueueTypes DEF SendReturns, EnableWrite, TypeOK, PlaceInv
    <3> QED
      BY <1>16, <3>1, <3>2 DEF Returns
  <2>4. at # "read" /\ owed' \in BOOLEAN
    BY <1>16 DEF Returns, FlushReturns, SendReturns
  <2> QED
    BY <1>16, <2>3, <2>4, EmptySeq DEF Returns, TypeOK
<1>17. CASE WriteReturns
  <2>1. PICK n \in 1..SndCap : Writes(n)
    BY <1>17 DEF WriteReturns
  <2>2. snd' \in Seq(Bytes) /\ Len(snd') <= SndCap /\ Len(out) \in 0..Len(out)
    BY <1>14, <2>1 DEF TypeOK
  <2>3. Returns(Len(out)) /\ UNCHANGED <<writePolls, sent, fin, rcv, got, open>>
    BY <1>17 DEF WriteReturns
  <2> QED
    BY <1>16, <2>2, <2>3
<1>18. CASE WriteAgain
  <2>1. snd' \in Seq(Bytes) /\ Len(snd') <= SndCap /\ wcnt \in 0..Len(out)
    BY <1>18 DEF WriteAgain, TypeOK
  <2>2. Returns(wcnt) /\ UNCHANGED <<writePolls, sent, fin, rcv, got, open>>
    BY <1>18 DEF WriteAgain
  <2> QED
    BY <1>16, <2>1, <2>2
<1>19. CASE WriteThrows
  BY <1>19 DEF WriteThrows, TypeOK
<1>20. ASSUME NEW op, Runs(op) 
       PROVE  at = "run" /\ Tail(batch) \in Seq(Functors) /\ Head(batch).data \in Seq(Bytes)
  BY <1>20, QueueTypes DEF Runs, TypeOK
<1>21. CASE WriteDropped
  BY <1>20, <1>21 DEF WriteDropped, TypeOK
<1>22. CASE WriteDirect
  BY <1>20, <1>22 DEF WriteDirect, TypeOK
<1>23. CASE WriteBehind
  <2>1. write_buf_' \in Seq(Bytes) /\ ievents_' \subseteq {"read", "write"}
    BY <1>20, <1>23, ConcatType DEF WriteBehind, EnableWrite, TypeOK
  <2> QED
    BY <1>20, <1>23, <2>1 DEF WriteBehind, TypeOK
<1>24. CASE WriteComplete
  BY <1>20, <1>24 DEF WriteComplete, TypeOK
<1>25. CASE HandleConnectionClose
  <2>1. queue' \in Seq(Functors)
    BY <1>25, QueueTypes, EmptySeq DEF HandleConnectionClose, Ops, TypeOK
  <2> QED
    BY <1>20, <1>25, <2>1 DEF HandleConnectionClose, TypeOK
<1>26. CASE CloseConnection
  <2>1. snd' \in Seq(Bytes) /\ Len(snd') <= SndCap
    BY <1>0, <1>26, EmptySeq DEF CloseConnection, TypeOK
  <2>2. at = "run" /\ batch' \in Seq(Functors)
    BY <1>20, <1>26 DEF CloseConnection
  <2> QED
    BY <1>26, <2>1, <2>2 DEF CloseConnection, TypeOK
<1>27. CASE UNCHANGED vars
  BY <1>27 DEF vars, TypeOK
<1> QED
  BY <1>1, <1>2, <1>3, <1>4, <1>5, <1>6, <1>7, <1>8, <1>9, <1>10, <1>11, <1>12, <1>13, <1>15,
     <1>17, <1>18, <1>19, <1>21, <1>22, <1>23, <1>24, <1>25, <1>26, <1>27 DEF Next, LoopStep

(* There is something to read, or something has been read.                  *)
Ready == rcv # <<>> \/ qcnt > 0 \/ cnt > 0

(* Write events are asked for exactly while bytes wait, which is exactly    *)
(* while a completion is owed; a handler that asks for nothing has been     *)
(* closed, and that only for a connection that counts as disconnected.      *)
EventInv ==
    /\ ievents_ = {} \/ "read" \in ievents_
    /\ "write" \in ievents_ <=> write_buf_ # <<>>
    /\ owed <=> write_buf_ # <<>>
    /\ ievents_ = {} => disconnected_

(* The functors that take a connection down.                                *)
Closing(f) == f.op \in {"handleConnectionClose", "closeConnection"}

Fit == {f \in Functors : /\ f.op # "writeInLoop" => f.data = <<>>
                         /\ Closing(f) => ievents_ = {}}

Silent == {f \in Functors : f.data = <<>>}

(* Only writeInLoop carries data; a close functor is queued only after the  *)
(* handler was unregistered; and when a round ends, no data is left in the  *)
(* queue for the next poll.                                                 *)
FunctorInv ==
    /\ queue \in Seq(Fit) /\ batch \in Seq(Fit)
    /\ at \in {"wait", "run", "send"} => queue \in Seq(Silent)

(* handleRead: while nothing is counted, qg::read has counted what is in    *)
(* buf; once something is counted and nothing came in between, the socket   *)
(* is empty; and handleRead is entered for something to read, the end of    *)
(* the stream or a write event.                                             *)
ReadInv ==
    /\ cnt = 0 => qcnt = Len(buf)
    /\ cnt > 0 /\ ~again => rcv = <<>> /\ qcnt = 0
    /\ at = "read" => fin \/ "write" \in revents_ \/ Ready
    /\ at = "read" => fin \/ write_buf_ # <<>> \/ Ready

(* qg::write: as long as the client does not read between two calls of      *)
(* ::write, a partial write has filled the socket, so that ::write is not   *)
(* called again on the start of the buffer.                                 *)
WriteInv ==
    drains = 0 => at # "dead" /\ wcnt <= Len(out) /\ (wcnt > 0 => Len(snd) = SndCap)

------------------------------------------------------------------------------
(* Every step keeps the control parts                                       *)

(* What substr leaves, and that a completion changes the queue.             *)
LEMMA SubstrEmpty ==
    ASSUME TypeOK, NEW n \in 0..Len(out)
    PROVE  /\ Substr(n) \in Seq(Bytes) /\ (Substr(n) = <<>> <=> n = Len(out))
           /\ \A b \in Seq(Bytes) : b \o <<>> = b /\ <<>> \o b = b
           /\ Complete # queue
<1>1. out \in Seq(Bytes) /\ queue \in Seq(Functors) /\ "writeComplete" \in Ops
  BY DEF TypeOK, Ops
<1>2. Substr(n) \in Seq(Bytes) /\ (Substr(n) = <<>> <=> n = Len(out))
  BY <1>1, FirstRest DEF Substr
<1>3. \A b \in Seq(Bytes) : b \o <<>> = b /\ <<>> \o b = b
  BY ConcatEmptySeq
<1>4. Complete # queue
  BY <1>1, QueueTypes, EmptySeq DEF Complete
<1> QED
  BY <1>2, <1>3, <1>4

(* What the two callers of qg::write make of its result.                    *)
LEMMA ReturnsCases ==
    ASSUME TypeOK, PlaceInv, EventInv, NEW n \in 0..Len(out), Returns(n)
    PROVE  /\ at = "flush" =>
                /\ at' = "functors" /\ batch' = batch /\ write_buf_' = Substr(n)
                /\ ievents_' = IF n = Len(out) THEN ievents_ \ {"write"} ELSE ievents_
           /\ at = "send" =>
                /\ at' = "run" /\ batch' = Tail(batch) /\ write_buf_' = Substr(n)
                /\ ievents_' = IF n = Len(out) THEN ievents_ ELSE ievents_ \cup {"write"}
           /\ at \in {"flush", "send"}
           /\ queue' = IF n = Len(out) THEN Complete ELSE queue
           /\ owed' <=> n # Len(out)
           /\ out' = <<>> /\ wcnt' = 0
           /\ UNCHANGED <<revents_, readVars, stateVars, ghostVars>>
           /\ (write_buf_' = <<>>) <=> n = Len(out)
<1>1. /\ Substr(n) \in Seq(Bytes) /\ (Substr(n) = <<>> <=> n = Len(out))
      /\ <<>> \o Substr(n) = Substr(n) /\ Complete # queue
  BY SubstrEmpty
<1>4. owed' <=> queue' = queue
  BY DEF Returns
<1>2. CASE FlushReturns(n)
  BY <1>1, <1>2, <1>4 DEF Returns, FlushReturns, DisableWrite
<1>3. CASE SendReturns(n)
  BY <1>1, <1>3, <1>4 DEF Returns, SendReturns, EnableWrite, PlaceInv
<1> QED
  BY <1>2, <1>3 DEF Returns

(* qg::write returns no more than there is, unless substr throws.           *)
LEMMA ReturningRange ==
    ASSUME TypeOK, WriteReturns \/ WriteAgain
    PROVE  \E n \in 0..Len(out) : /\ Returns(n) /\ UNCHANGED <<writePolls, sent, fin, rcv, got, open>>
<1>1. Len(out) \in Nat /\ wcnt \in Nat
  BY DEF TypeOK
<1>2. CASE WriteReturns
  BY <1>1, <1>2 DEF WriteReturns
<1>3. CASE WriteAgain
  <2>1. wcnt \in 0..Len(out)
    BY <1>1, <1>3 DEF WriteAgain
  <2> QED
    BY <1>3, <2>1 DEF WriteAgain, kernelVars
<1> QED
  BY <1>2, <1>3

(* Every step keeps PlaceInv,                                               *)
LEMMA PlaceStep == ASSUME TypeOK, PlaceInv, EventInv, [Next]_vars PROVE PlaceInv'
<1> USE DEF kernelVars, loopVars, readVars, writeVars, stateVars, ghostVars, PlaceInv
<1>1. CASE ClientSend \/ ClientFin \/ ClientRead
  BY <1>1 DEF ClientSend, ClientFin, ClientRead
<1>2. CASE Wait \/ PopAll \/ EndRun
  BY <1>2 DEF Wait, PopAll, EndRun
<1>3. CASE ReadFull \/ ReadShort \/ ReadEndAfterFull
  BY <1>3 DEF ReadFull, ReadShort, ReadEndAfterFull
<1>4. CASE HandleReadMessage \/ HandleReadClose
  BY <1>4 DEF HandleReadMessage, HandleReadClose, ReadEnds
<1>5. CASE HandleWriteStarts \/ SkipWrite
  BY <1>5 DEF HandleWriteStarts, SkipWrite
<1>6. CASE WriteSome
  BY <1>6 DEF WriteSome
<1>7. CASE WriteReturns \/ WriteAgain
  <2>1. PICK n \in 0..Len(out) : Returns(n)
    BY <1>7, ReturningRange
  <2> QED
    BY <2>1, ReturnsCases
<1>8. CASE WriteThrows
  BY <1>8 DEF WriteThrows
<1>9. CASE WriteDropped \/ WriteDirect \/ WriteBehind \/ WriteComplete \/ HandleConnectionClose
           \/ CloseConnection
  BY <1>9 DEF WriteDropped, WriteDirect, WriteBehind, WriteComplete, HandleConnectionClose,
              CloseConnection, Runs, CanWriteDirect
<1>10. CASE UNCHANGED vars
  BY <1>10 DEF vars
<1> QED
  BY <1>1, <1>2, <1>3, <1>4, <1>5, <1>6, <1>7, <1>8, <1>9, <1>10 DEF Next, LoopStep

(* EventInv,                                                                *)
LEMMA EventStep == ASSUME TypeOK, PlaceInv, EventInv, [Next]_vars PROVE EventInv'
<1> USE DEF kernelVars, loopVars, readVars, writeVars, stateVars, ghostVars, EventInv
<1>1. CASE ClientSend \/ ClientFin \/ ClientRead
  BY <1>1 DEF ClientSend, ClientFin, ClientRead
<1>2. CASE Wait \/ PopAll \/ EndRun
  BY <1>2 DEF Wait, PopAll, EndRun
<1>3. CASE ReadFull \/ ReadShort \/ ReadEndAfterFull
  BY <1>3 DEF ReadFull, ReadShort, ReadEndAfterFull
<1>4. CASE HandleReadMessage \/ HandleReadClose
  BY <1>4 DEF HandleReadMessage, HandleReadClose, HandleClose, HasContentToSend
<1>5. CASE HandleWriteStarts \/ SkipWrite
  BY <1>5 DEF HandleWriteStarts, SkipWrite
<1>6. CASE WriteSome
  BY <1>6 DEF WriteSome
<1>7. CASE WriteReturns \/ WriteAgain
  <2>1. PICK n \in 0..Len(out) : Returns(n)
    BY <1>7, ReturningRange
  <2>2. CASE at = "flush"
    BY <2>1, <2>2, ReturnsCases DEF PlaceInv
  <2>3. CASE at = "send"
    BY <2>1, <2>3, ReturnsCases DEF PlaceInv
  <2> QED
    BY <2>1, <2>2, <2>3, ReturnsCases
<1>8. CASE WriteThrows
  BY <1>8 DEF WriteThrows
<1>9. CASE WriteDropped \/ WriteDirect \/ WriteComplete \/ HandleConnectionClose \/ CloseConnection
  BY <1>9 DEF WriteDropped, WriteDirect, WriteComplete, HandleConnectionClose, CloseConnection
<1>10. CASE WriteBehind
  <2>1. write_buf_ # <<>>
    BY <1>10 DEF WriteBehind, CanWriteDirect
  <2>2. Head(batch).data \in Seq(Bytes)
    BY <1>10, QueueTypes DEF WriteBehind, Runs, TypeOK
  <2>3. write_buf_' # <<>>
    BY <1>10, <2>1, <2>2, ConcatEqualIffEmpty DEF WriteBehind, TypeOK
  <2> QED
    BY <1>10, <2>3 DEF WriteBehind, EnableWrite
<1>11. CASE UNCHANGED vars
  BY <1>11 DEF vars
<1> QED
  BY <1>1, <1>2, <1>3, <1>4, <1>5, <1>6, <1>7, <1>8, <1>9, <1>10, <1>11 DEF Next, LoopStep

(* ReadInv,                                                                 *)
LEMMA ReadStep == ASSUME TypeOK, ReadInv, EventInv, [Next]_vars PROVE ReadInv'
<1>0. ReadSize \in Nat \ {0} /\ SndCap \in Nat \ {0} /\ MaxSent \in Nat
  BY StreamAssumption
<1>n. qcnt \in Nat /\ cnt \in Nat
  BY DEF TypeOK
<1> USE DEF kernelVars, loopVars, readVars, writeVars, stateVars, ghostVars, Ready
<1>1. CASE ClientSend
  <2>1. PICK n \in 1..(MaxSent - sent) : rcv' = rcv \o Numbers(sent, n)
    BY <1>1 DEF ClientSend, Numbers
  <2>2. rcv' # <<>>
    <3>1. Numbers(sent, n) \in Seq(Bytes) /\ Len(Numbers(sent, n)) = n
      BY <1>0, NumbersType DEF TypeOK
    <3>2. Len(rcv') > 0
      BY <2>1, <3>1, ConcatType DEF TypeOK
    <3> QED
      BY <3>2
  <2>3. cnt > 0 => at = "read"
    BY <1>n DEF TypeOK
  <2> QED
    BY <1>1, <2>2, <2>3 DEF ClientSend, ReadInv
<1>2. CASE ClientFin \/ ClientRead \/ CloseConnection \/ PopAll \/ EndRun
  BY <1>2 DEF ClientFin, ClientRead, CloseConnection, PopAll, EndRun, Runs, ReadInv
<1>3. CASE Wait
  BY <1>3, <1>n DEF Wait, Polled, ReadInv, EventInv
<1>4. CASE ReadFull
  <2>1. rcv # <<>>
    BY <1>0, <1>4 DEF ReadFull
  <2>2. Len(buf') = Len(buf) + ReadSize
    <3>1. ReadSize \in 0..Len(rcv) /\ rcv \in Seq(Bytes)
      BY <1>0, <1>4 DEF ReadFull, TypeOK
    <3>2. First(rcv, ReadSize) \in Seq(Bytes) /\ Len(First(rcv, ReadSize)) = ReadSize
      BY <3>1, FirstRest
    <3>3. buf' = buf \o First(rcv, ReadSize) /\ buf \in Seq(Bytes)
      BY <1>4 DEF ReadFull, TypeOK
    <3> QED
      BY <3>2, <3>3, ConcatType
  <2>3. qcnt' > 0
    BY <1>0, <1>n, <1>4 DEF ReadFull
  <2> QED
    BY <1>n, <1>4, <2>1, <2>2, <2>3 DEF ReadFull, ReadInv
<1>5. CASE ReadShort
  <2>1. cnt' > 0
    BY <1>n, <1>5 DEF ReadShort, Counted
  <2> QED
    BY <1>5, <2>1 DEF ReadShort, ReadInv
<1>6. CASE ReadEndAfterFull
  <2>1. cnt' > 0
    BY <1>n, <1>6 DEF ReadEndAfterFull, Counted
  <2> QED
    BY <1>6, <2>1 DEF ReadEndAfterFull, ReadInv
<1>7. CASE HandleReadMessage \/ HandleReadClose
  BY <1>7, EmptySeq DEF HandleReadMessage, HandleReadClose, ReadEnds, ReadInv
<1>8. CASE \/ HandleWriteStarts \/ SkipWrite \/ WriteSome \/ WriteThrows
           \/ WriteDropped \/ WriteDirect \/ WriteBehind \/ WriteComplete \/ HandleConnectionClose
  BY <1>8 DEF HandleWriteStarts, SkipWrite, WriteSome, Writes, WriteThrows, WriteDropped,
              WriteDirect, WriteBehind, WriteComplete, HandleConnectionClose, Runs, ReadInv
<1>9. CASE WriteReturns \/ WriteAgain
  <2>1. PICK n \in 0..Len(out) : Returns(n) /\ UNCHANGED <<writePolls, sent, fin, rcv, got, open>>
    BY <1>9, ReturningRange
  <2>2. at' # "read"
    BY <2>1 DEF Returns, FlushReturns, SendReturns
  <2> QED
    BY <2>1, <2>2 DEF Returns, ReadInv
<1>10. CASE UNCHANGED vars
  BY <1>10 DEF vars, ReadInv
<1> QED
  BY <1>1, <1>2, <1>3, <1>4, <1>5, <1>6, <1>7, <1>8, <1>9, <1>10 DEF Next, LoopStep

(* WriteInv,                                                                *)
LEMMA WriteStep == ASSUME TypeOK, WriteInv, [Next]_vars PROVE WriteInv'
<1>0. SndCap \in Nat \ {0} /\ wcnt \in Nat /\ drains \in Nat /\ Len(out) \in Nat
  BY StreamAssumption DEF TypeOK
<1> USE DEF kernelVars, loopVars, readVars, writeVars, stateVars, ghostVars
<1>1. CASE ClientRead
  <2>1. CASE MidWrite
    BY <1>0, <1>1, <2>1 DEF ClientRead, WriteInv
  <2>2. CASE ~MidWrite
    BY <1>0, <1>1, <2>2 DEF ClientRead, WriteInv, MidWrite, TypeOK
  <2> QED
    BY <2>1, <2>2
<1>2. CASE \/ ClientSend \/ ClientFin \/ Wait \/ PopAll \/ EndRun
           \/ ReadFull \/ ReadShort \/ ReadEndAfterFull \/ HandleReadMessage \/ HandleReadClose
           \/ SkipWrite \/ WriteDropped \/ WriteBehind \/ WriteComplete \/ HandleConnectionClose
  BY <1>2 DEF ClientSend, ClientFin, Wait, PopAll, EndRun, ReadFull, ReadShort,
              ReadEndAfterFull, HandleReadMessage, HandleReadClose, ReadEnds, SkipWrite,
              WriteDropped, WriteBehind, WriteComplete, HandleConnectionClose, Runs, WriteInv
<1>3. CASE HandleWriteStarts
  BY <1>3 DEF HandleWriteStarts, WriteInv, TypeOK
<1>4. CASE WriteDirect
  <2>1. Head(batch).data \in Seq(Bytes)
    BY <1>4, QueueTypes DEF WriteDirect, Runs, TypeOK
  <2> QED
    BY <1>4, <2>1 DEF WriteDirect, WriteInv
<1>5. CASE CloseConnection
  BY <1>0, <1>5 DEF CloseConnection, Runs, WriteInv, TypeOK
<1>6. CASE WriteSome
  <2>1. PICK n \in 1..SndCap : Writes(n) /\ ~IsTotal(wcnt + n) /\ wcnt' = wcnt + n
    BY <1>6 DEF WriteSome
  <2>2. n \in 0..Len(out) /\ n > 0 /\ (n = SndCap - Len(snd) \/ n = Len(out))
    BY <1>0, <2>1 DEF Writes, Least, TypeOK
  <2>3. First(out, n) \in Seq(Bytes) /\ Len(First(out, n)) = n
    BY <2>2, FirstRest DEF TypeOK
  <2>4. Len(snd') = Len(snd) + n
    <3>1. snd' = snd \o First(out, n) /\ snd \in Seq(Bytes)
      BY <2>1 DEF Writes, TypeOK
    <3> QED
      BY <2>3, <3>1, ConcatType
  <2>5. ASSUME drains = 0 PROVE wcnt = 0
    BY <1>0, <2>1, <2>2, <2>5 DEF WriteInv, TypeOK, Writes, Least
  <2>6. ASSUME drains = 0 PROVE n # Len(out)
    BY <2>1, <2>5, <2>6 DEF IsTotal
  <2> QED
    BY <1>0, <1>6, <2>1, <2>2, <2>4, <2>5, <2>6 DEF WriteSome, WriteInv, TypeOK
<1>7. CASE WriteReturns \/ WriteAgain
  <2>1. PICK n \in 0..Len(out) : Returns(n) /\ UNCHANGED <<writePolls, sent, fin, rcv, got, open>>
    BY <1>7, ReturningRange
  <2> QED
    BY <2>1, EmptySeq DEF Returns, FlushReturns, SendReturns, WriteInv
<1>8. CASE WriteThrows
  BY <1>0, <1>8 DEF WriteThrows, WriteInv
<1>9. CASE UNCHANGED vars
  BY <1>9 DEF vars, WriteInv
<1> QED
  BY <1>1, <1>2, <1>3, <1>4, <1>5, <1>6, <1>7, <1>8, <1>9 DEF Next, LoopStep

(* FunctorInv,                                                              *)
LEMMA FunctorStep ==
    ASSUME TypeOK, PlaceInv, EventInv, FunctorInv, [Next]_vars PROVE FunctorInv'
<1> USE DEF kernelVars, loopVars, readVars, writeVars, stateVars, ghostVars
<1>1. ievents_ = {} => ievents_' = {}
  <2>1. CASE WriteReturns \/ WriteAgain
    <3>1. PICK n \in 0..Len(out) : Returns(n)
      BY <2>1, ReturningRange
    <3> QED
      BY <3>1, ReturnsCases DEF PlaceInv, EventInv
  <2>2. CASE \/ ClientSend \/ ClientFin \/ ClientRead \/ Wait \/ PopAll \/ EndRun
             \/ ReadFull \/ ReadShort \/ ReadEndAfterFull \/ HandleReadMessage \/ HandleReadClose
             \/ HandleWriteStarts \/ SkipWrite \/ WriteSome \/ WriteThrows
    BY <2>2 DEF ClientSend, ClientFin, ClientRead, Wait, PopAll, EndRun, ReadFull, ReadShort,
              ReadEndAfterFull, HandleReadMessage, HandleReadClose, HandleClose,
              HandleWriteStarts, SkipWrite, WriteSome, WriteThrows
  <2>3. CASE \/ WriteDropped \/ WriteDirect \/ WriteBehind \/ WriteComplete
             \/ HandleConnectionClose \/ CloseConnection
    BY <2>3 DEF WriteDropped, WriteDirect, WriteBehind, WriteComplete, HandleConnectionClose,
              CloseConnection, EventInv
  <2>4. CASE UNCHANGED vars
    BY <2>4 DEF vars
  <2> QED
    BY <2>1, <2>2, <2>3, <2>4 DEF Next, LoopStep
<1>2. Fit \subseteq Fit' /\ Silent' = Silent
  BY <1>1 DEF Fit, Silent, Closing
<1>3. queue \in Seq(Fit') /\ batch \in Seq(Fit')
  BY <1>2, SeqMonotonic DEF FunctorInv
<1>4. /\ Functor("writeComplete", <<>>) \in Fit' \cap Silent
      /\ \A d \in Seq(Bytes) : Functor("writeInLoop", d) \in Fit'
      /\ ievents_' = {} => /\ Functor("handleConnectionClose", <<>>) \in Fit' \cap Silent
                           /\ Functor("closeConnection", <<>>) \in Fit' \cap Silent
  BY EmptySeq DEF Fit, Silent, Functor, Functors, Ops, Closing
<1>5. ASSUME batch # <<>> PROVE Tail(batch) \in Seq(Fit') /\ Head(batch) \in Fit
  BY <1>3, <1>5, HeadTailProperties DEF FunctorInv
<1>6. /\ \A f \in Fit' : Append(queue, f) \in Seq(Fit')
      /\ queue \in Seq(Silent) => \A f \in Silent : Append(queue, f) \in Seq(Silent)
  BY <1>3, AppendProperties
<1> HIDE DEF Fit, Silent
<1>7. CASE \/ ClientSend \/ ClientFin \/ ClientRead \/ EndRun \/ UNCHANGED vars
           \/ ReadFull \/ ReadShort \/ ReadEndAfterFull
           \/ HandleWriteStarts \/ SkipWrite \/ WriteSome \/ WriteThrows \/ Wait
  BY <1>2, <1>3, <1>7 DEF FunctorInv, ClientSend, ClientFin, ClientRead, Wait, EndRun, ReadFull,
     ReadShort, ReadEndAfterFull, HandleWriteStarts, SkipWrite, WriteSome, WriteThrows, Writes,
     vars
<1>8. CASE PopAll
  BY <1>2, <1>3, <1>8, EmptySeq DEF FunctorInv, PopAll
<1>9. CASE HandleReadMessage
  <2>1. queue' \in Seq(Fit')
    BY <1>4, <1>6, <1>9 DEF HandleReadMessage, MessageCallBack, TypeOK
  <2> QED
    BY <1>3, <1>9, <2>1 DEF FunctorInv, HandleReadMessage, ReadEnds
<1>10. CASE HandleReadClose
  <2>1. queue' \in Seq(Fit')
    BY <1>3, <1>4, <1>6, <1>10 DEF HandleReadClose, HandleClose
  <2> QED
    BY <1>3, <1>10, <2>1 DEF FunctorInv, HandleReadClose, ReadEnds
<1>11. CASE WriteReturns \/ WriteAgain
  <2>1. PICK n \in 0..Len(out) : Returns(n)
    BY <1>11, ReturningRange
  <2>2. queue' \in Seq(Fit') /\ (queue \in Seq(Silent) => queue' \in Seq(Silent))
    BY <1>3, <1>4, <1>6, <2>1, ReturnsCases DEF Complete
  <2>3. batch' \in Seq(Fit') /\ (at' = "run" => at = "send") /\ at' \in {"run", "functors"}
    BY <1>3, <1>5, <2>1, ReturnsCases DEF PlaceInv
  <2> QED
    BY <1>2, <2>2, <2>3 DEF FunctorInv
<1>12. CASE WriteDropped \/ WriteDirect \/ WriteBehind \/ WriteComplete \/ CloseConnection
  BY <1>2, <1>3, <1>5, <1>12 DEF FunctorInv, WriteDropped, WriteDirect, WriteBehind,
     WriteComplete, CloseConnection, Runs
<1>13. CASE HandleConnectionClose
  <2>1. ievents_' = {}
    <3>1. batch # <<>> /\ Closing(Head(batch))
      BY <1>13 DEF HandleConnectionClose, Runs, Closing
    <3> QED
      BY <1>1, <1>5, <3>1 DEF Fit
  <2>2. queue' \in Seq(Fit') /\ queue' \in Seq(Silent) /\ at' = at /\ batch' = Tail(batch)
    BY <1>4, <1>6, <1>13, <2>1 DEF FunctorInv, HandleConnectionClose, Runs
  <2> QED
    BY <1>2, <1>5, <1>13, <2>2 DEF FunctorInv, HandleConnectionClose, Runs
<1> QED
  BY <1>7, <1>8, <1>9, <1>10, <1>11, <1>12, <1>13 DEF Next, LoopStep

------------------------------------------------------------------------------
(* Closing, and the way in                                                  *)

(* KeptOpen,                                                                *)
LEMMA KeptStep ==
    ASSUME TypeOK, PlaceInv, EventInv, FunctorInv, ReadInv, KeptOpen, [Next]_vars
    PROVE  KeptOpen'
<1>0. qcnt \in Nat /\ cnt \in Nat /\ exact \in BOOLEAN
  BY DEF TypeOK
<1> USE DEF kernelVars, loopVars, readVars, writeVars, stateVars, ghostVars, KeptOpen
<1>1. CASE \/ ClientSend \/ ClientFin \/ ClientRead \/ EndRun \/ UNCHANGED vars \/ PopAll
           \/ ReadFull \/ ReadShort \/ ReadEndAfterFull
           \/ HandleWriteStarts \/ SkipWrite \/ WriteSome \/ WriteThrows \/ Wait
  BY <1>1 DEF ClientSend, ClientFin, ClientRead, Wait, EndRun, PopAll, ReadFull,
     ReadShort, ReadEndAfterFull, HandleWriteStarts, SkipWrite, WriteSome, WriteThrows, Writes,
     vars
<1>2. CASE HandleReadMessage
  BY <1>2, <1>0 DEF HandleReadMessage, ReadEnds
<1>3. CASE HandleReadClose
  <2>1. at = "read" /\ rcv = <<>> /\ cnt = 0 /\ (qcnt > 0 => exact') /\ (exact => exact')
    BY <1>3, <1>0 DEF HandleReadClose, ReadEnds
  <2>2. fin \/ exact' \/ "write" \in revents_
    BY <2>1 DEF ReadInv, Ready
  <2>3. fin \/ exact' \/ write_buf_ # <<>>
    BY <2>1 DEF ReadInv, Ready
  <2> QED
    BY <1>3, <2>1, <2>2, <2>3 DEF HandleReadClose, HasContentToSend, EventInv
<1>4. CASE WriteReturns \/ WriteAgain
  <2>1. PICK n \in 0..Len(out) : Returns(n) /\ UNCHANGED <<writePolls, sent, fin, rcv, got, open>>
    BY <1>4, ReturningRange
  <2> QED
    BY <2>1, ReturnsCases DEF PlaceInv, EventInv
<1>5. CASE WriteDropped \/ WriteDirect \/ WriteBehind \/ WriteComplete \/ HandleConnectionClose
  BY <1>5 DEF WriteDropped, WriteDirect, WriteBehind, WriteComplete, HandleConnectionClose,
     EnableWrite
<1>6. CASE CloseConnection
  <2>1. batch # <<>> /\ Closing(Head(batch))
    BY <1>6 DEF CloseConnection, Runs, Closing
  <2>2. ievents_ = {}
    BY <2>1, HeadTailProperties DEF FunctorInv, Fit
  <2> QED
    BY <1>6, <2>2 DEF CloseConnection
<1> QED
  BY <1>1, <1>2, <1>3, <1>4, <1>5, <1>6 DEF Next, LoopStep

(* Sending n more continues the sequence 1, 2, ...                          *)
LEMMA NumbersGrow ==
    ASSUME NEW m \in Nat, NEW n \in Nat
    PROVE  [i \in 1..m |-> i] \o Numbers(m, n) = [i \in 1..(m + n) |-> i]
<1> DEFINE a == [i \in 1..m |-> i]
           b == Numbers(m, n)
           c == [i \in 1..(m + n) |-> i]
<1>1. /\ a \in Seq(Nat) /\ Len(a) = m /\ b \in Seq(Nat) /\ Len(b) = n
      /\ c \in Seq(Nat) /\ Len(c) = m + n
  BY DEF Numbers
<1>2. /\ \A i \in 1..m : a[i] = i
      /\ \A i \in 1..n : b[i] = m + i
      /\ \A i \in 1..(m + n) : c[i] = i
  BY DEF Numbers
<1> HIDE DEF a, b, c
<1>3. a \o b \in Seq(Nat) /\ Len(a \o b) = m + n
      /\ \A i \in 1..(m + n) : (a \o b)[i] = IF i <= m THEN a[i] ELSE b[i - m]
  BY <1>1, ConcatProperties
<1>4. \A i \in 1..(m + n) : (a \o b)[i] = c[i]
  BY <1>2, <1>3
<1>5. a \o b = c
  BY <1>1, <1>3, <1>4, SeqEqual
<1> QED
  BY <1>5 DEF a, b, c

(* and what is known of the bytes on the way in.                            *)
LEMMA InboundStep ==
    ASSUME TypeOK, ReadInv, InboundFaithful, [Next]_vars PROVE InboundFaithful'
<1>0. /\ qcnt \in Nat /\ cnt \in Nat /\ sent \in Nat /\ again \in BOOLEAN /\ exact \in BOOLEAN
      /\ told \in Seq(Bytes) /\ read_buf_ \in Seq(Bytes) /\ buf \in Seq(Bytes)
      /\ rcv \in Seq(Bytes) /\ Taken \in Seq(Bytes)
  BY EmptySeq DEF TypeOK, Taken
<1>k. ReadSize \in Nat \ {0} /\ MaxSent \in Nat
  BY StreamAssumption
<1>e. <<>> \in Seq(Bytes)
  BY EmptySeq
<1> SUFFICES ASSUME ~again', ~exact' PROVE InboundFaithful'
  BY DEF InboundFaithful
<1> USE DEF kernelVars, loopVars, readVars, writeVars, stateVars, ghostVars
<1>a. ~again /\ ~exact
  <2>3. CASE HandleReadMessage \/ HandleReadClose
    BY <1>0, <2>3 DEF HandleReadMessage, HandleReadClose, ReadEnds
  <2>4. CASE ClientSend
    BY <1>0, <2>4 DEF ClientSend
  <2>1. CASE \/ ClientFin \/ ClientRead \/ EndRun \/ UNCHANGED vars \/ PopAll
             \/ ReadFull \/ ReadShort \/ ReadEndAfterFull
             \/ HandleWriteStarts \/ SkipWrite \/ WriteSome \/ WriteThrows \/ Wait
             \/ WriteReturns \/ WriteAgain
    BY <2>1 DEF ClientFin, ClientRead, Wait, EndRun, PopAll, ReadFull,
       ReadShort, ReadEndAfterFull,
       HandleWriteStarts, SkipWrite, WriteSome, WriteThrows, Writes, WriteReturns, WriteAgain,
       Returns, vars
  <2>2. CASE \/ WriteDropped \/ WriteDirect \/ WriteBehind \/ WriteComplete
             \/ HandleConnectionClose \/ CloseConnection
    BY <2>2 DEF WriteDropped, WriteDirect, WriteBehind, WriteComplete, HandleConnectionClose,
       CloseConnection
  <2> QED
    BY <2>1, <2>2, <2>3, <2>4 DEF Next, LoopStep
<1>b. told \o read_buf_ \o Taken \o rcv = [i \in 1..sent |-> i]
  BY <1>a DEF InboundFaithful
<1>c. ASSUME told' \o read_buf_' \o Taken' \o rcv' = told \o read_buf_ \o Taken \o rcv,
             sent' = sent
      PROVE  InboundFaithful'
  BY <1>b, <1>c DEF InboundFaithful
<1>1. CASE ClientSend
  <2>1. PICK n \in 1..(MaxSent - sent) : sent' = sent + n /\ rcv' = rcv \o Numbers(sent, n)
    BY <1>1 DEF ClientSend, Numbers
  <2>2. Numbers(sent, n) \in Seq(Bytes) /\ n \in Nat
    BY <1>0, <1>k, NumbersType
  <2>3. UNCHANGED <<told, read_buf_, Taken>>
    BY <1>1 DEF ClientSend, Taken
  <2>4. (told \o read_buf_ \o Taken) \o (rcv \o Numbers(sent, n))
           = (told \o read_buf_ \o Taken \o rcv) \o Numbers(sent, n)
    <3> DEFINE x == told \o read_buf_ \o Taken
               y == Numbers(sent, n)
    <3>1. x \in Seq(Bytes) /\ y \in Seq(Bytes)
      BY <1>0, <2>2, ConcatType
    <3> HIDE DEF x, y
    <3>2. Regrouped(x, rcv, y, y)
      BY <1>0, <3>1, Regroup
    <3> QED
      BY <3>2 DEF x, y, Regrouped
  <2>5. [i \in 1..sent |-> i] \o Numbers(sent, n) = [i \in 1..(sent + n) |-> i]
    BY <1>0, <2>2, NumbersGrow
  <2> QED
    BY <1>b, <2>1, <2>3, <2>4, <2>5 DEF InboundFaithful
<1>2. CASE \/ ClientFin \/ ClientRead \/ EndRun \/ UNCHANGED vars \/ PopAll
           \/ HandleWriteStarts \/ SkipWrite \/ WriteSome \/ WriteThrows \/ Wait
           \/ WriteReturns \/ WriteAgain
  BY <1>2, <1>c DEF ClientFin, ClientRead, Wait, EndRun, PopAll, HandleWriteStarts, SkipWrite,
     WriteSome, WriteThrows, Writes, WriteReturns, WriteAgain, Returns, vars, Taken
<1>3. CASE \/ WriteDropped \/ WriteDirect \/ WriteBehind \/ WriteComplete
           \/ HandleConnectionClose \/ CloseConnection
  BY <1>3, <1>c DEF WriteDropped, WriteDirect, WriteBehind, WriteComplete,
     HandleConnectionClose, CloseConnection, Taken
<1>4. CASE ReadFull
  <2>1. cnt = 0
    BY <1>0, <1>k, <1>4, <1>a, EmptySeq DEF ReadFull, ReadInv
  <2>2. ReadSize \in 0..Len(rcv)
    BY <1>0, <1>k, <1>4 DEF ReadFull
  <2>3. /\ First(rcv, ReadSize) \in Seq(Bytes) /\ Rest(rcv, ReadSize) \in Seq(Bytes)
        /\ First(rcv, ReadSize) \o Rest(rcv, ReadSize) = rcv
    BY <1>0, <2>2, FirstRest
  <2>4. /\ Taken = buf /\ Taken' = buf \o First(rcv, ReadSize) /\ rcv' = Rest(rcv, ReadSize)
        /\ UNCHANGED <<told, read_buf_, sent>>
    BY <1>4, <2>1 DEF ReadFull, Taken
  <2>5. (told \o read_buf_ \o (buf \o First(rcv, ReadSize))) \o Rest(rcv, ReadSize)
          = told \o read_buf_ \o buf \o (First(rcv, ReadSize) \o Rest(rcv, ReadSize))
    <3> DEFINE x == told \o read_buf_
               f == First(rcv, ReadSize)
               r == Rest(rcv, ReadSize)
    <3>1. x \in Seq(Bytes) /\ f \in Seq(Bytes) /\ r \in Seq(Bytes)
      BY <1>0, <2>3, ConcatType
    <3> HIDE DEF x, f, r
    <3>2. Regrouped(x, buf, f, r)
      BY <1>0, <3>1, Regroup
    <3> QED
      BY <3>2 DEF x, f, r, Regrouped
  <2> QED
    BY <1>c, <2>3, <2>4, <2>5
<1>5. CASE ReadShort
  <2>1. cnt = 0
    BY <1>0, <1>5, <1>a, EmptySeq DEF ReadShort, ReadInv
  <2>2. cnt' # 0
    BY <1>0, <1>5, <2>1 DEF ReadShort, Counted
  <2>3. /\ Taken = buf /\ Taken' = <<>> /\ rcv' = <<>> /\ read_buf_' = read_buf_ \o buf \o rcv
        /\ UNCHANGED <<told, sent>>
    BY <1>5, <2>1, <2>2 DEF ReadShort, Taken
  <2>4. told \o (read_buf_ \o buf \o rcv) \o <<>> \o <<>> = told \o read_buf_ \o buf \o rcv
    <3>1. Regrouped(told, read_buf_, buf, rcv)
      BY <1>0, Regroup
    <3> QED
      BY <3>1 DEF Regrouped
  <2> QED
    BY <1>c, <2>3, <2>4
<1>6. CASE ReadEndAfterFull
  <2>1. cnt = 0
    BY <1>0, <1>6, <1>a DEF ReadEndAfterFull, ReadInv
  <2>2. cnt' # 0
    BY <1>0, <1>6, <2>1 DEF ReadEndAfterFull, Counted
  <2>3. /\ Taken = buf /\ Taken' = <<>> /\ rcv' = rcv /\ read_buf_' = read_buf_ \o buf
        /\ UNCHANGED <<told, sent>>
    BY <1>6, <2>1, <2>2 DEF ReadEndAfterFull, Taken
  <2>4. told \o (read_buf_ \o buf) \o <<>> \o rcv = told \o read_buf_ \o buf \o rcv
    <3>1. Regrouped(told, read_buf_, buf, rcv)
      BY <1>0, Regroup
    <3> QED
      BY <3>1 DEF Regrouped
  <2> QED
    BY <1>c, <2>3, <2>4
<1>7. CASE HandleReadMessage
  <2>1. /\ Taken = <<>> /\ Taken' = <<>> /\ rcv' = rcv /\ read_buf_' = <<>>
        /\ told' = told \o read_buf_ /\ sent' = sent
    BY <1>0, <1>7 DEF HandleReadMessage, MessageCallBack, ReadEnds, Taken
  <2>2. told \o read_buf_ \o <<>> \o <<>> \o rcv = told \o read_buf_ \o <<>> \o rcv
    BY <1>0, <1>e, ConcatType, ConcatEmptySeq
  <2> QED
    BY <1>c, <2>1, <2>2
<1>8. CASE HandleReadClose
  <2>1. cnt = 0 /\ qcnt = 0
    <3>1. qcnt > 0 => exact'
      BY <1>8 DEF HandleReadClose, ReadEnds
    <3> QED
      BY <1>0, <1>8, <3>1 DEF HandleReadClose
  <2>2. buf = <<>>
    BY <1>0, <2>1, EmptySeq DEF ReadInv
  <2>3. Taken = <<>> /\ Taken' = <<>> /\ UNCHANGED <<rcv, told, read_buf_, sent>>
    BY <1>8, <2>1, <2>2 DEF HandleReadClose, ReadEnds, Taken
  <2> QED
    BY <1>c, <2>3
<1> QED
  BY <1>1, <1>2, <1>3, <1>4, <1>5, <1>6, <1>7, <1>8 DEF Next, LoopStep

------------------------------------------------------------------------------
(* The way out                                                              *)

(* The data of functors are sequences of bytes,                             *)
LEMMA FunctorData ==
    /\ \A f \in Functors : f.data \in Seq(Bytes)
    /\ \A q \in Seq(Functors) : \A i \in 1..Len(q) : q[i].data \in Seq(Bytes)
<1>1. \A f \in Functors : f.data \in Seq(Bytes)
  BY DEF Functors
<1>2. \A q \in Seq(Functors) : \A i \in 1..Len(q) : q[i] \in Functors
  BY ElementOfSeq
<1> QED
  BY <1>1, <1>2

(* and so are the data of a queue one by one.                               *)
LEMMA DataSeqs ==
    ASSUME NEW q \in Seq(Functors)
    PROVE  /\ [i \in DOMAIN q |-> q[i].data] \in Seq(Seq(Bytes))
           /\ Len([i \in DOMAIN q |-> q[i].data]) = Len(q)
           /\ q = <<>> => Data(q) = <<>>
<1>1. DOMAIN q = 1..Len(q) /\ Len(q) \in Nat /\ \A i \in 1..Len(q) : q[i].data \in Seq(Bytes)
  BY FunctorData, LenProperties
<1>2. /\ [i \in 1..Len(q) |-> q[i].data] \in Seq(Seq(Bytes))
      /\ Len([i \in 1..Len(q) |-> q[i].data]) = Len(q)
  BY <1>1
<1>3. ASSUME q = <<>> PROVE Data(q) = <<>>
  <2>1. Len(q) = 0 /\ Len([i \in DOMAIN q |-> q[i].data]) = 0
    BY <1>1, <1>2, <1>3, EmptySeq
  <2>2. [i \in DOMAIN q |-> q[i].data] = <<>>
    BY <1>1, <1>2, <2>1, EmptySeq
  <2> QED
    BY <2>1, <2>2 DEF Data, FlattenSeq
<1> QED
  BY <1>1, <1>2, <1>3

(* What Data returns for a queue that is not empty: it adds up the data of  *)
(* the functors from the first.                                             *)
LEMMA DataIs ==
    ASSUME NEW q \in Seq(Functors), q # <<>>
    PROVE  \E f : /\ Data(q) = f[Len(q)]
                  /\ f[1] = q[1].data
                  /\ \A i \in 2..Len(q) : f[i] = f[i - 1] \o q[i].data
                  /\ \A i \in 1..Len(q) : f[i] \in Seq(Bytes) /\ q[i].data \in Seq(Bytes)
<1> DEFINE s == [i \in DOMAIN q |-> q[i].data]
<1>1. s \in Seq(Seq(Bytes)) /\ Len(s) = Len(q) /\ Len(q) \in Nat \ {0} /\ DOMAIN q = 1..Len(q)
  BY DataSeqs, EmptySeq, LenProperties
<1>2. /\ \A i \in 1..Len(q) : s[i] = q[i].data
      /\ \A i \in 2..Len(q) : i \in 1..Len(q)
      /\ 1 \in 1..Len(q)
  BY <1>1
<1>5. \A i \in 1..Len(q) : q[i].data \in Seq(Bytes)
  BY FunctorData
<1>3. Data(q) = FlattenSeq(s)
  BY DEF Data
<1> HIDE DEF s
<1>4. s # <<>>
  BY <1>1, EmptySeq
<1>6. PICK f : /\ FlattenSeq(s) = f[Len(s)] /\ f[1] = s[1]
               /\ \A i \in 2..Len(s) : f[i] = f[i - 1] \o s[i]
               /\ \A i \in 1..Len(s) : f[i] \in Seq(Bytes)
  BY <1>1, <1>4, FlattenIs
<1>7. /\ Data(q) = f[Len(q)]
      /\ f[1] = q[1].data
      /\ \A i \in 2..Len(q) : f[i] = f[i - 1] \o q[i].data
      /\ \A i \in 1..Len(q) : f[i] \in Seq(Bytes) /\ q[i].data \in Seq(Bytes)
  BY <1>1, <1>2, <1>3, <1>5, <1>6
<1> QED
  BY <1>7

(* Data returns bytes,                                                      *)
LEMMA DataType ==
    ASSUME NEW q \in Seq(Functors)
    PROVE  Data(q) \in Seq(Bytes)
<1>1. CASE q = <<>>
  <2>1. Data(q) = <<>>
    BY <1>1, DataSeqs
  <2> QED
    BY <2>1, EmptySeq
<1>2. CASE q # <<>>
  <2>1. Len(q) \in 1..Len(q)
    BY <1>2, EmptySeq
  <2> QED
    BY <1>2, <2>1, DataIs
<1> QED
  BY <1>1, <1>2

(* which grow by the data of a functor that is queued,                      *)
LEMMA DataAppend ==
    ASSUME NEW q \in Seq(Functors), NEW x \in Functors
    PROVE  Data(Append(q, x)) = Data(q) \o x.data
<1> DEFINE r == Append(q, x)
<1>1. /\ r \in Seq(Functors) /\ r # <<>> /\ Len(r) = Len(q) + 1 /\ Len(q) \in Nat
      /\ \A i \in 1..Len(q) : r[i] = q[i]
      /\ r[Len(q) + 1] = x /\ x.data \in Seq(Bytes)
  BY AppendProperties DEF Functors
<1> HIDE DEF r
<1>2. PICK g : /\ Data(r) = g[Len(r)] /\ g[1] = r[1].data
               /\ \A i \in 2..Len(r) : g[i] = g[i - 1] \o r[i].data
               /\ \A i \in 1..Len(r) : g[i] \in Seq(Bytes) /\ r[i].data \in Seq(Bytes)
  BY <1>1, DataIs
<1>3. CASE q = <<>>
  <2>1. Len(q) = 0 /\ Data(q) = <<>>
    BY <1>3, DataSeqs, EmptySeq
  <2>2. Data(r) = x.data
    BY <1>1, <1>2, <2>1
  <2> QED
    BY <1>1, <2>1, <2>2, ConcatEmptySeq DEF r
<1>4. CASE q # <<>>
  <2>0. Len(q) \in Nat \ {0}
    BY <1>4, EmptySeq
  <2>1. PICK f : /\ Data(q) = f[Len(q)] /\ f[1] = q[1].data
                 /\ \A i \in 2..Len(q) : f[i] = f[i - 1] \o q[i].data
    BY <1>4, DataIs
  <2> DEFINE P == {n \in Nat : n + 1 <= Len(q) => f[n + 1] = g[n + 1]}
  <2>2. 0 \in P
    BY <1>1, <1>2, <2>0, <2>1
  <2>3. ASSUME NEW n \in P PROVE n + 1 \in P
    <3> SUFFICES ASSUME n + 2 <= Len(q) PROVE f[n + 2] = g[n + 2]
      OBVIOUS
    <3>1. n + 2 \in 2..Len(q) /\ n + 2 \in 2..Len(r) /\ (n + 2) - 1 = n + 1 /\ n + 2 \in 1..Len(q)
      BY <1>1
    <3>2. f[n + 1] = g[n + 1]
      BY <1>1
    <3>3. f[n + 2] = f[n + 1] \o q[n + 2].data /\ g[n + 2] = g[n + 1] \o r[n + 2].data
      BY <1>2, <2>1, <3>1
    <3> QED
      BY <1>1, <3>1, <3>2, <3>3
  <2>4. \A n \in Nat : n \in P
    <3> HIDE DEF P
    <3>1. P \in SUBSET Nat
      BY DEF P
    <3> QED
      BY <2>2, <2>3, <3>1, SetInduction
  <2>5. f[Len(q)] = g[Len(q)]
    <3>1. Len(q) - 1 \in P /\ (Len(q) - 1) + 1 = Len(q)
      BY <2>0, <2>4
    <3> QED
      BY <2>0, <3>1
  <2>6. Len(r) \in 2..Len(r) /\ Len(r) - 1 = Len(q)
    BY <1>1, <2>0
  <2>7. g[Len(r)] = g[Len(q)] \o r[Len(r)].data
    BY <1>2, <2>6
  <2> QED
    BY <1>1, <1>2, <2>1, <2>5, <2>7 DEF r
<1> QED
  BY <1>3, <1>4

(* start with the data of the first functor,                                *)
LEMMA DataTail ==
    ASSUME NEW q \in Seq(Functors), q # <<>>
    PROVE  Data(q) = Head(q).data \o Data(Tail(q))
<1> DEFINE t == Tail(q)
           h == Head(q).data
<1>1. /\ t \in Seq(Functors) /\ Len(t) = Len(q) - 1 /\ Len(q) \in Nat \ {0}
      /\ \A i \in 1..Len(t) : t[i] = q[i + 1]
      /\ h = q[1].data /\ h \in Seq(Bytes)
  <2>1. /\ t \in Seq(Functors) /\ Len(t) = Len(q) - 1 /\ Len(q) \in Nat \ {0}
        /\ Head(q) \in Functors
    BY HeadTailProperties, EmptySeq
  <2>2. \A i \in 1..Len(t) : t[i] = q[i + 1]
    BY HeadTailProperties
  <2>3. Head(q) = q[1]
    OBVIOUS
  <2> QED
    BY <2>1, <2>2, <2>3, FunctorData
<1> HIDE DEF t, h
<1>2. PICK f : /\ Data(q) = f[Len(q)] /\ f[1] = q[1].data
               /\ \A i \in 2..Len(q) : f[i] = f[i - 1] \o q[i].data
               /\ \A i \in 1..Len(q) : f[i] \in Seq(Bytes) /\ q[i].data \in Seq(Bytes)
  BY DataIs
<1>3. CASE t = <<>>
  <2>1. Len(t) = 0 /\ Data(t) = <<>>
    BY <1>1, <1>3, DataSeqs, EmptySeq
  <2>2. Len(q) = 1
    BY <1>1, <2>1
  <2>3. Data(q) = h /\ h \o <<>> = h
    BY <1>1, <1>2, <2>2, ConcatEmptySeq
  <2> QED
    BY <2>1, <2>3 DEF t, h
<1>4. CASE t # <<>>
  <2>0. Len(t) \in Nat \ {0}
    BY <1>1, <1>4, EmptySeq
  <2>1. PICK g : /\ Data(t) = g[Len(t)] /\ g[1] = t[1].data
                 /\ \A i \in 2..Len(t) : g[i] = g[i - 1] \o t[i].data
                 /\ \A i \in 1..Len(t) : g[i] \in Seq(Bytes) /\ t[i].data \in Seq(Bytes)
    BY <1>1, <1>4, DataIs
  <2> DEFINE P == {n \in Nat : n + 1 <= Len(t) => f[n + 2] = h \o g[n + 1]}
  <2>2. 0 \in P
    <3>1. 2 \in 2..Len(q) /\ 1 \in 1..Len(t) /\ 2 - 1 = 1 /\ 1 + 1 = 2
      BY <1>1, <2>0
    <3>2. f[2] = f[1] \o q[2].data /\ t[1] = q[2]
      BY <1>1, <1>2, <3>1
    <3>3. f[2] = h \o g[1]
      BY <1>1, <1>2, <2>1, <3>2, Zenon
    <3> QED
      BY <3>3
  <2>3. ASSUME NEW n \in P PROVE n + 1 \in P
    <3> SUFFICES ASSUME n + 2 <= Len(t) PROVE f[n + 3] = h \o g[n + 2]
      OBVIOUS
    <3>1. /\ n + 3 \in 2..Len(q) /\ n + 2 \in 2..Len(t) /\ (n + 3) - 1 = n + 2
          /\ (n + 2) - 1 = n + 1 /\ n + 2 \in 1..Len(t) /\ n + 1 \in 1..Len(t)
          /\ (n + 2) + 1 = n + 3
      BY <1>1
    <3>2. f[n + 2] = h \o g[n + 1]
      <4>1. n \in Nat /\ n + 1 <= Len(t)
        BY <2>0
      <4> QED
        BY <4>1
    <3>3. f[n + 3] = f[n + 2] \o q[n + 3].data
      BY <1>2, <3>1
    <3>4. g[n + 2] = g[n + 1] \o t[n + 2].data /\ t[n + 2] = q[n + 3]
      BY <1>1, <2>1, <3>1
    <3> DEFINE a == g[n + 1]
               b == t[n + 2].data
    <3>5. a \in Seq(Bytes) /\ b \in Seq(Bytes)
      BY <2>1, <3>1
    <3>6. f[n + 3] = (h \o a) \o b /\ g[n + 2] = a \o b
      BY <3>2, <3>3, <3>4
    <3> HIDE DEF a, b
    <3>7. (h \o a) \o b = h \o (a \o b)
      <4>1. Regrouped(h, a, b, b)
        BY <1>1, <3>5, Regroup
      <4> QED
        BY <4>1 DEF Regrouped
    <3> QED
      BY <3>6, <3>7
  <2>4. \A n \in Nat : n \in P
    <3> HIDE DEF P
    <3>1. P \in SUBSET Nat
      BY DEF P
    <3> QED
      BY <2>2, <2>3, <3>1, SetInduction
  <2>5. f[Len(q)] = h \o g[Len(t)]
    <3>1. Len(t) - 1 \in Nat /\ (Len(t) - 1) + 1 = Len(t) /\ (Len(t) - 1) + 2 = Len(q)
      BY <1>1, <2>0
    <3>2. Len(t) - 1 \in P
      BY <2>4, <3>1
    <3> QED
      BY <2>0, <3>1, <3>2
  <2> QED
    BY <1>2, <2>1, <2>5 DEF t, h
<1> QED
  BY <1>3, <1>4

(* and are none if no functor carries any.                                  *)
LEMMA DataSilent ==
    ASSUME NEW q \in Seq(Silent)
    PROVE  Data(q) = <<>>
<1>0. q \in Seq(Functors) /\ \A i \in 1..Len(q) : q[i].data = <<>>
  BY SeqMonotonic, ElementOfSeq DEF Silent
<1>1. CASE q = <<>>
  BY <1>0, <1>1, DataSeqs
<1>2. CASE q # <<>>
  <2>0. Len(q) \in Nat \ {0}
    BY <1>2, EmptySeq
  <2>1. PICK f : /\ Data(q) = f[Len(q)] /\ f[1] = q[1].data
                 /\ \A i \in 2..Len(q) : f[i] = f[i - 1] \o q[i].data
    BY <1>0, <1>2, DataIs
  <2> DEFINE P == {n \in Nat : n + 1 <= Len(q) => f[n + 1] = <<>>}
  <2>2. 0 \in P
    BY <1>0, <2>0, <2>1
  <2>3. ASSUME NEW n \in P PROVE n + 1 \in P
    <3> SUFFICES ASSUME n + 2 <= Len(q) PROVE f[n + 2] = <<>>
      OBVIOUS
    <3>1. n + 2 \in 2..Len(q) /\ (n + 2) - 1 = n + 1 /\ n + 2 \in 1..Len(q)
      BY <2>0
    <3>2. f[n + 1] = <<>> /\ f[n + 2] = f[n + 1] \o q[n + 2].data
      <4>1. n \in Nat /\ n + 1 <= Len(q)
        BY <2>0
      <4>2. f[n + 1] = <<>>
        BY <4>1
      <4> QED
        BY <2>1, <3>1, <4>2
    <3>3. <<>> \o <<>> = <<>>
      BY EmptySeq, ConcatEmptySeq
    <3> QED
      BY <1>0, <3>1, <3>2, <3>3
  <2>4. \A n \in Nat : n \in P
    <3> HIDE DEF P
    <3>1. P \in SUBSET Nat
      BY DEF P
    <3> QED
      BY <2>2, <2>3, <3>1, SetInduction
  <2>5. Len(q) - 1 \in P /\ (Len(q) - 1) + 1 = Len(q)
    BY <2>0, <2>4
  <2> QED
    BY <2>0, <2>1, <2>5
<1> QED
  BY <1>1, <1>2

(* What has left the queue, in the order in which the client gets it.       *)
SentOut == got \o snd \o Unsent

(* These are sequences of bytes.                                            *)
LEMMA OutTypes ==
    TypeOK /\ PlaceInv => SentOut \in Seq(Bytes) /\ Unsent \in Seq(Bytes) /\ Queued \in Seq(Bytes)
<1> SUFFICES ASSUME TypeOK, PlaceInv
             PROVE  SentOut \in Seq(Bytes) /\ Unsent \in Seq(Bytes) /\ Queued \in Seq(Bytes)
  OBVIOUS
<1>1. out \in Seq(Bytes) /\ wcnt \in Nat /\ Len(out) \in Nat
  BY DEF TypeOK
<1>2. Rest(out, wcnt) \in Seq(Bytes)
  <2>1. \A i \in (wcnt + 1)..Len(out) : i \in 1..Len(out)
    BY <1>1
  <2>2. \A i \in (wcnt + 1)..Len(out) : out[i] \in Bytes
    BY <1>1, <2>1, ElementOfSeq
  <2>3. wcnt + 1 \in Int /\ Len(out) \in Int
    BY <1>1
  <2> QED
    BY <2>2, <2>3, SubSeqProperties DEF Rest
<1>3. Unsent \in Seq(Bytes)
  BY <1>2 DEF Unsent, TypeOK
<1>4. SentOut \in Seq(Bytes)
  BY <1>3, ConcatType DEF SentOut, TypeOK
<1>5. /\ batch \in Seq(Functors) /\ queue \in Seq(Functors)
      /\ at = "send" => Tail(batch) \in Seq(Functors)
  BY QueueTypes DEF TypeOK, PlaceInv
<1>6. /\ Data(batch) \in Seq(Bytes) /\ Data(queue) \in Seq(Bytes)
      /\ at = "send" => Data(Tail(batch)) \in Seq(Bytes)
  BY <1>5, DataType
<1>7. Queued \in Seq(Bytes)
  BY <1>6, ConcatType DEF Queued
<1> QED
  BY <1>3, <1>4, <1>7

(* A functor without data adds nothing.                                     *)
LEMMA DataPlain ==
    ASSUME NEW q \in Seq(Functors), NEW op \in Ops
    PROVE  Data(Append(q, Functor(op, <<>>))) = Data(q)
<1>1. Functor(op, <<>>) \in Functors /\ Functor(op, <<>>).data = <<>>
  BY EmptySeq DEF Functor, Functors
<1>2. Data(Append(q, Functor(op, <<>>))) = Data(q) \o <<>>
  BY <1>1, DataAppend
<1> QED
  BY <1>2, DataType, ConcatEmptySeq

(* Every step keeps what is known of the bytes on the way out.              *)
LEMMA OutboundStep ==
    ASSUME TypeOK, TypeOK', PlaceInv, PlaceInv', EventInv, FunctorInv, WriteInv,
           OutboundFaithful, [Next]_vars
    PROVE  OutboundFaithful'
<1>0. /\ SndCap \in Nat \ {0} /\ wcnt \in Nat /\ drains \in Nat /\ Len(out) \in Nat
      /\ out \in Seq(Bytes) /\ snd \in Seq(Bytes) /\ got \in Seq(Bytes) /\ told \in Seq(Bytes)
      /\ write_buf_ \in Seq(Bytes) /\ read_buf_ \in Seq(Bytes) /\ Len(snd) \in Nat
      /\ queue \in Seq(Functors) /\ batch \in Seq(Functors)
  <2>1. SndCap \in Nat \ {0} /\ MaxDrains \in Nat
    BY StreamAssumption
  <2>2. drains \in Nat
    BY <2>1 DEF TypeOK
  <2>3. /\ out \in Seq(Bytes) /\ snd \in Seq(Bytes) /\ got \in Seq(Bytes) /\ told \in Seq(Bytes)
        /\ write_buf_ \in Seq(Bytes) /\ read_buf_ \in Seq(Bytes) /\ wcnt \in Nat
        /\ queue \in Seq(Functors) /\ batch \in Seq(Functors)
    BY DEF TypeOK
  <2>4. Len(out) \in Nat /\ Len(snd) \in Nat
    BY <2>3, LenProperties
  <2> QED
    BY <2>1, <2>2, <2>3, <2>4
<1>t. /\ SentOut \in Seq(Bytes) /\ Queued \in Seq(Bytes) /\ Unsent \in Seq(Bytes)
      /\ got \o snd \in Seq(Bytes)
  BY <1>0, OutTypes, ConcatType
<1>u. SentOut' \in Seq(Bytes) /\ Queued' \in Seq(Bytes) /\ told' \in Seq(Bytes)
  <2>1. SentOut' \in Seq(Bytes) /\ Queued' \in Seq(Bytes)
    <3>1. (TypeOK /\ PlaceInv =>
              SentOut \in Seq(Bytes) /\ Unsent \in Seq(Bytes) /\ Queued \in Seq(Bytes))'
      BY OutTypes, PTL
    <3> QED
      BY <3>1
  <2> QED
    BY <2>1 DEF TypeOK
<1>e. <<>> \in Seq(Bytes) /\ \A b \in Seq(Bytes) : b \o <<>> = b /\ <<>> \o b = b
  BY EmptySeq, ConcatEmptySeq
<1> SUFFICES ASSUME drains' = 0 PROVE OutboundFaithful'
  BY DEF OutboundFaithful
<1> USE DEF kernelVars, loopVars, readVars, writeVars, stateVars, ghostVars
<1>a. drains = 0
  <2>1. CASE ClientRead
    BY <1>0, <2>1 DEF ClientRead
  <2>2. CASE \/ ClientSend \/ ClientFin \/ EndRun \/ UNCHANGED vars \/ PopAll
             \/ ReadFull \/ ReadShort \/ ReadEndAfterFull \/ HandleReadMessage \/ HandleReadClose
             \/ HandleWriteStarts \/ SkipWrite \/ WriteSome \/ WriteThrows \/ Wait
             \/ WriteReturns \/ WriteAgain
    BY <2>2 DEF ClientSend, ClientFin, Wait, EndRun, PopAll, ReadFull, HandleReadMessage,
       HandleReadClose, ReadShort, ReadEndAfterFull, HandleWriteStarts, SkipWrite, WriteSome,
       WriteThrows, WriteReturns, WriteAgain, Returns, vars
  <2>3. CASE \/ WriteDropped \/ WriteDirect \/ WriteBehind \/ WriteComplete
             \/ HandleConnectionClose \/ CloseConnection
    BY <2>3 DEF WriteDropped, WriteDirect, WriteBehind, WriteComplete, HandleConnectionClose,
       CloseConnection
  <2> QED
    BY <2>1, <2>2, <2>3 DEF Next, LoopStep
<1>b. /\ ~crashed /\ IsPrefix(SentOut, told)
      /\ ~disconnected_ => SentOut \o Queued = told
  BY <1>a DEF OutboundFaithful, SentOut
<1>c. at # "dead" /\ wcnt <= Len(out) /\ (wcnt > 0 => Len(snd) = SndCap)
  BY <1>a DEF WriteInv
<1>d. CASE WriteThrows
  BY <1>0, <1>c, <1>d DEF WriteThrows
<1>k. ASSUME ~crashed', UNCHANGED <<SentOut, Queued, told>>, disconnected_ => disconnected_'
      PROVE  OutboundFaithful'
  BY <1>b, <1>k DEF OutboundFaithful, SentOut
<1>f. ASSUME ~crashed', disconnected_', IsPrefix(SentOut', told')
      PROVE  OutboundFaithful'
  BY <1>f DEF OutboundFaithful, SentOut
<1>g. ASSUME ~crashed', SentOut' \o Queued' = told'
      PROVE  OutboundFaithful'
  <2>1. IsPrefix(SentOut', SentOut' \o Queued')
    BY <1>u, PrefixFacts
  <2> QED
    BY <1>g, <2>1 DEF OutboundFaithful, SentOut
<1>h. ASSUME batch # <<>>
      PROVE  /\ Head(batch).data \in Seq(Bytes) /\ Tail(batch) \in Seq(Functors)
             /\ Head(batch).op # "writeInLoop" => Head(batch).data = <<>>
             /\ Data(batch) = Head(batch).data \o Data(Tail(batch))
             /\ Data(Tail(batch)) \in Seq(Bytes)
  <2>1. Head(batch) \in Fit
    BY <1>h, HeadTailProperties DEF FunctorInv
  <2> QED
    BY <1>0, <1>h, <2>1, QueueTypes, DataTail, DataType DEF Fit
<1>i. /\ Data(batch) \in Seq(Bytes) /\ Data(queue) \in Seq(Bytes)
      /\ (batch = <<>> => Data(batch) = <<>>)
  BY <1>0, DataType, DataSeqs
<1>1. CASE ClientSend \/ ClientFin \/ UNCHANGED vars \/ ReadFull \/ ReadShort \/ ReadEndAfterFull
  <2>1. UNCHANGED <<SentOut, Queued, told, crashed, disconnected_>>
    BY <1>1 DEF ClientSend, ClientFin, vars, ReadFull, ReadShort, ReadEndAfterFull,
       SentOut, Unsent, Queued
  <2> QED
    BY <1>b, <1>k, <2>1
<1>2. CASE Wait \/ EndRun \/ SkipWrite
  <2>1. /\ UNCHANGED <<got, snd, out, wcnt, write_buf_, queue, batch, told, crashed,
                       disconnected_>>
        /\ at \notin {"flush", "send"} /\ at' \notin {"flush", "send"}
    BY <1>2 DEF Wait, EndRun, SkipWrite
  <2>2. UNCHANGED <<SentOut, Queued, told, crashed, disconnected_>>
    BY <2>1 DEF SentOut, Unsent, Queued
  <2> QED
    BY <1>b, <1>k, <2>2
<1>3. CASE ClientRead
  <2>1. PICK n \in 1..Len(snd) : got' = got \o First(snd, n) /\ snd' = Rest(snd, n)
    BY <1>3 DEF ClientRead
  <2> DEFINE f == First(snd, n)
             r == Rest(snd, n)
  <2>2. f \in Seq(Bytes) /\ r \in Seq(Bytes) /\ f \o r = snd
    <3>1. n \in 0..Len(snd)
      BY <1>0
    <3> QED
      BY <1>0, <3>1, FirstRest
  <2> HIDE DEF f, r
  <2>3. Regrouped(got, f, r, r)
    BY <1>0, <2>2, Regroup
  <2>4. (got \o f) \o r = got \o snd
    BY <2>2, <2>3, Zenon DEF Regrouped
  <2>5. got' \o snd' = got \o snd
    BY <2>1, <2>4 DEF f, r
  <2>6. UNCHANGED <<SentOut, Queued, told, crashed, disconnected_>>
    BY <1>3, <2>5 DEF ClientRead, SentOut, Unsent, Queued
  <2> QED
    BY <1>b, <1>k, <2>6
<1>4. CASE PopAll
  <2>1. Queued = <<>> \o Data(queue) /\ Queued' = Data(queue) \o Data(<<>>)
    BY <1>4, <1>i DEF PopAll, Queued, PlaceInv
  <2>2. Data(<<>>) = <<>>
    BY DataSeqs, EmptySeq
  <2>3. Queued' = Queued
    BY <1>e, <1>i, <2>1, <2>2
  <2> QED
    BY <1>4, <1>b, <1>k, <2>3 DEF PopAll, SentOut, Unsent
<1>5. CASE HandleReadMessage
  <2>1. SentOut' = SentOut /\ told' = told \o read_buf_ /\ UNCHANGED <<crashed, disconnected_>>
    BY <1>5 DEF HandleReadMessage, MessageCallBack, ReadEnds, SentOut, Unsent
  <2>2. CASE disconnected_
    <3>1. IsPrefix(SentOut, told \o read_buf_)
      BY <1>0, <1>b, <1>t, PrefixFacts
    <3> QED
      BY <1>b, <1>f, <2>1, <2>2, <3>1
  <2>3. CASE ~disconnected_
    <3>1. Data(queue') = Data(queue) \o read_buf_
      <4>1. Functor("writeInLoop", read_buf_) \in Functors
        BY <1>0 DEF Functor, Functors, Ops
      <4>2. Functor("writeInLoop", read_buf_).data = read_buf_
        BY DEF Functor
      <4> QED
        BY <1>0, <1>5, <4>1, <4>2, DataAppend DEF HandleReadMessage, MessageCallBack
    <3>2. Queued = <<>> \o Data(queue) /\ Queued' = <<>> \o Data(queue')
      BY <1>5, <1>i DEF HandleReadMessage, ReadEnds, Queued, PlaceInv
    <3>3. Queued' = Queued \o read_buf_
      BY <1>0, <1>e, <1>i, <3>1, <3>2, ConcatType
    <3>4. Regrouped(SentOut, Queued, read_buf_, read_buf_)
      BY <1>0, <1>t, Regroup
    <3>5. SentOut \o (Queued \o read_buf_) = (SentOut \o Queued) \o read_buf_
      BY <3>4 DEF Regrouped
    <3> QED
      BY <1>b, <1>g, <2>1, <2>3, <3>3, <3>5
  <2> QED
    BY <2>2, <2>3
<1>6. CASE HandleReadClose
  <2>1. SentOut' = SentOut /\ told' = told /\ crashed' = crashed /\ disconnected_'
    BY <1>6 DEF HandleReadClose, ReadEnds, SentOut, Unsent
  <2> QED
    BY <1>b, <1>f, <2>1
<1>7. CASE HandleWriteStarts
  <2>1. Rest(write_buf_, 0) = write_buf_
    BY <1>0, FirstRest
  <2>2. UNCHANGED <<SentOut, Queued, told, crashed, disconnected_>>
    BY <1>7, <2>1 DEF HandleWriteStarts, SentOut, Unsent, Queued
  <2> QED
    BY <1>b, <1>k, <2>2
<1>w. ASSUME NEW n \in 1..SndCap, Writes(n)
      PROVE  /\ wcnt = 0 /\ n \in 0..Len(out) /\ at \in {"flush", "send"} /\ Unsent = out
             /\ snd' = snd \o First(out, n)
  <2>1. n \in 0..Len(out) /\ Len(snd) # SndCap
    BY <1>0, <1>w DEF Writes, Least
  <2>2. wcnt = 0 /\ at \in {"flush", "send"}
    BY <1>0, <1>c, <1>w, <2>1 DEF Writes
  <2>3. Rest(out, 0) = out
    BY <1>0, FirstRest
  <2> QED
    BY <1>w, <2>1, <2>2, <2>3 DEF Writes, Unsent
<1>8. CASE WriteSome
  <2>1. PICK n \in 1..SndCap : Writes(n) /\ wcnt' = wcnt + n
    BY <1>8 DEF WriteSome
  <2>2. /\ wcnt = 0 /\ n \in 0..Len(out) /\ at \in {"flush", "send"} /\ Unsent = out
        /\ snd' = snd \o First(out, n)
    BY <1>w, <2>1
  <2> DEFINE f == First(out, n)
             r == Rest(out, n)
  <2>3. f \in Seq(Bytes) /\ r \in Seq(Bytes) /\ f \o r = out
    BY <1>0, <2>2, FirstRest
  <2>4. Unsent' = r
    BY <1>8, <2>1, <2>2 DEF WriteSome, Unsent
  <2>5. SentOut' = got \o (snd \o f) \o r /\ SentOut = got \o snd \o out
    BY <1>8, <2>2, <2>4 DEF WriteSome, SentOut
  <2> HIDE DEF f, r
  <2>6. Regrouped(got, snd, f, r)
    BY <1>0, <2>3, Regroup
  <2>7. SentOut' = SentOut
    BY <2>3, <2>5, <2>6, Zenon DEF Regrouped
  <2> QED
    BY <1>8, <1>b, <1>k, <2>7 DEF WriteSome, Queued
<1>q. ASSUME NEW n \in 0..Len(out), Returns(n)
      PROVE  /\ Queued' = Queued /\ Unsent' = Substr(n)
             /\ UNCHANGED <<told, crashed, disconnected_>>
             /\ at \in {"flush", "send"}
  <2>1. Data(queue') = Data(queue)
    <3>1. Data(Complete) = Data(queue)
      BY <1>0, DataPlain DEF Complete, Ops
    <3> QED
      BY <1>q, <3>1, ReturnsCases
  <2> QED
    BY <1>q, <2>1, ReturnsCases DEF Queued, Unsent
<1>9. CASE WriteReturns
  <2>1. PICK n \in 1..SndCap : Writes(n) /\ IsTotal(wcnt + n)
    BY <1>9 DEF WriteReturns
  <2>2. wcnt = 0 /\ Unsent = out /\ snd' = snd \o First(out, n)
    BY <1>w, <2>1
  <2>3. n = Len(out) /\ First(out, n) = out
    BY <1>0, <2>1, <2>2, SubSeqFull DEF IsTotal, First
  <2>4. Substr(Len(out)) = <<>> /\ Len(out) \in 0..Len(out)
    BY <1>0, SubstrEmpty
  <2>5. Returns(Len(out)) /\ got' = got
    BY <1>9 DEF WriteReturns
  <2>6. /\ Queued' = Queued /\ Unsent' = <<>> /\ UNCHANGED <<told, crashed, disconnected_>>
    BY <1>q, <2>4, <2>5
  <2>7. /\ Regrouped(got, snd, out, out) /\ snd \o out \in Seq(Bytes)
        /\ got \o (snd \o out) \in Seq(Bytes)
    BY <1>0, Regroup, ConcatType
  <2>8. SentOut' = got \o (snd \o out) \o <<>> /\ SentOut = got \o snd \o out
    BY <2>2, <2>3, <2>5, <2>6 DEF SentOut
  <2>9. SentOut' = SentOut
    BY <1>e, <2>7, <2>8 DEF Regrouped
  <2> QED
    BY <1>b, <1>k, <2>6, <2>9
<1>10. CASE WriteAgain
  <2>1. wcnt \in 0..Len(out) /\ Returns(wcnt) /\ got' = got /\ snd' = snd
    BY <1>0, <1>10 DEF WriteAgain
  <2>2. Queued' = Queued /\ Unsent' = Unsent /\ UNCHANGED <<told, crashed, disconnected_>>
    BY <1>q, <2>1 DEF Unsent, Substr
  <2> QED
    BY <1>b, <1>k, <2>1, <2>2 DEF SentOut
<1>11. CASE WriteDropped
  <2>1. SentOut' = SentOut /\ UNCHANGED <<told, crashed, disconnected_>> /\ disconnected_
    BY <1>11 DEF WriteDropped, SentOut, Unsent
  <2> QED
    BY <1>b, <1>f, <2>1
<1>12. CASE WriteDirect \/ WriteBehind
  <2> DEFINE h == Head(batch).data
             t == Data(Tail(batch))
             z == Data(queue)
             a == got \o snd
             s == write_buf_
  <2>1. batch # <<>> /\ at = "run" /\ ~disconnected_
    BY <1>12 DEF WriteDirect, WriteBehind, Runs
  <2>2. /\ h \in Seq(Bytes) /\ t \in Seq(Bytes) /\ z \in Seq(Bytes) /\ a \in Seq(Bytes)
        /\ s \in Seq(Bytes)
    BY <1>0, <1>h, <1>i, <1>t, <2>1
  <2>3. SentOut = a \o s /\ Queued = h \o t \o z
    BY <1>h, <2>1 DEF SentOut, Unsent, Queued
  <2>4. Queued' = t \o z /\ UNCHANGED <<told, crashed, disconnected_>>
    BY <1>12, <2>1 DEF WriteDirect, WriteBehind, Queued
  <2>5. SentOut' = a \o (s \o h)
    <3>1. CASE WriteDirect
      <4>1. Rest(h, 0) = h
        BY <2>2, FirstRest
      <4>2. SentOut' = a \o h
        BY <3>1, <4>1 DEF WriteDirect, SentOut, Unsent
      <4>3. s \o h = h
        BY <1>e, <2>2, <3>1 DEF WriteDirect, CanWriteDirect
      <4> QED
        BY <4>2, <4>3
    <3>2. CASE WriteBehind
      BY <2>1, <3>2 DEF WriteBehind, SentOut, Unsent
    <3> QED
      BY <1>12, <3>1, <3>2
  <2> HIDE DEF h, t, z, a, s
  <2>6. Shifted(a, s, h, t, z)
    BY <2>2, Shifts
  <2>7. SentOut' \o Queued' = SentOut \o Queued
    BY <2>3, <2>4, <2>5, <2>6, Zenon DEF Shifted
  <2> QED
    BY <1>b, <1>g, <2>1, <2>4, <2>7
<1>13. CASE WriteComplete
  <2>1. batch # <<>> /\ Head(batch).op = "writeComplete" /\ at = "run"
    BY <1>13 DEF WriteComplete, Runs
  <2>2. Data(batch) = Data(Tail(batch))
    BY <1>e, <1>h, <2>1
  <2>3. UNCHANGED <<SentOut, Queued, told, crashed, disconnected_>>
    BY <1>13, <2>1, <2>2 DEF WriteComplete, SentOut, Unsent, Queued
  <2> QED
    BY <1>b, <1>k, <2>3
<1>j. ASSUME NEW op, Runs(op), op \in {"handleConnectionClose", "closeConnection"}
      PROVE  disconnected_ /\ write_buf_ = <<>> /\ at = "run"
  <2>1. Head(batch) \in Fit /\ Closing(Head(batch))
    BY <1>j, HeadTailProperties DEF FunctorInv, Runs, Closing
  <2> QED
    BY <1>j, <2>1 DEF Fit, EventInv, Runs
<1>14. CASE HandleConnectionClose
  <2>1. disconnected_
    BY <1>14, <1>j DEF HandleConnectionClose
  <2>2. SentOut' = SentOut /\ UNCHANGED <<told, crashed, disconnected_>>
    BY <1>14 DEF HandleConnectionClose, SentOut, Unsent
  <2> QED
    BY <1>b, <1>f, <2>1, <2>2
<1>15. CASE CloseConnection
  <2>1. write_buf_ = <<>> /\ at = "run"
    BY <1>15, <1>j DEF CloseConnection
  <2>2. SentOut = (got \o snd) \o <<>> /\ SentOut' = (got \o snd') \o <<>>
    BY <1>15, <2>1 DEF CloseConnection, SentOut, Unsent
  <2>3. /\ (got \o snd) \o <<>> = got \o snd /\ (got \o <<>>) \o <<>> = got
    BY <1>0, <1>e, <1>t
  <2>4. SentOut' = SentOut \/ SentOut' = got
    BY <1>15, <2>2, <2>3 DEF CloseConnection
  <2>5. IsPrefix(got, told)
    BY <1>0, <1>b, <2>2, <2>3, PrefixFacts
  <2>6. UNCHANGED <<told, crashed>> /\ disconnected_'
    BY <1>15 DEF CloseConnection
  <2> QED
    BY <1>b, <1>f, <2>4, <2>5, <2>6
<1> QED
  BY <1>d, <1>1, <1>2, <1>3, <1>4, <1>5, <1>6, <1>7, <1>8, <1>9, <1>10, <1>11, <1>12, <1>13, <1>14,
     <1>15 DEF Next, LoopStep

------------------------------------------------------------------------------
(* Theorems                                                                 *)

(* The inductive invariant.                                                 *)
Inv ==
    /\ TypeOK /\ PlaceInv /\ EventInv /\ FunctorInv /\ ReadInv /\ WriteInv
    /\ InboundFaithful /\ OutboundFaithful /\ KeptOpen

(* It holds initially,                                                      *)
LEMMA InvInit == Init => Inv
<1> SUFFICES ASSUME Init PROVE Inv
  OBVIOUS
<1>0. ReadSize \in Nat \ {0} /\ SndCap \in Nat \ {0} /\ MaxSent \in Nat /\ MaxDrains \in Nat
  BY StreamAssumption
<1>1. <<>> \in Seq(Bytes) /\ <<>> \in Seq(Functors) /\ <<>> \in Seq(Fit) /\ <<>> \in Seq(Silent)
      /\ Len(<<>>) = 0
  BY EmptySeq
<1>6. TypeOK
  <2>1. /\ fin \in BOOLEAN /\ open \in BOOLEAN /\ disconnected_ \in BOOLEAN /\ crashed \in BOOLEAN
        /\ owed \in BOOLEAN /\ again \in BOOLEAN /\ exact \in BOOLEAN
    BY Zenon DEF Init
  <2>2. sent \in 0..MaxSent /\ drains \in 0..MaxDrains /\ Len(snd) <= SndCap
    BY <1>0, <1>1 DEF Init
  <2> QED
    BY <1>1, <2>1, <2>2 DEF Init, TypeOK
<1>2. PlaceInv /\ EventInv /\ ReadInv /\ WriteInv /\ KeptOpen
  BY <1>0, <1>1 DEF Init, PlaceInv, EventInv, ReadInv, WriteInv, KeptOpen
<1>3. FunctorInv
  BY <1>1 DEF Init, FunctorInv
<1>4. InboundFaithful
  <2>1. <<>> \o <<>> = <<>> /\ [i \in 1..0 |-> i] = <<>>
    BY <1>1, ConcatEmptySeq
  <2> QED
    BY <2>1 DEF Init, InboundFaithful, Taken
<1>5. OutboundFaithful
  <2>1. <<>> \o <<>> = <<>> /\ Data(<<>>) = <<>>
    BY <1>1, ConcatEmptySeq, DataSeqs
  <2>2. IsPrefix(<<>>, <<>>)
    BY <1>1, PrefixFacts, <2>1
  <2> QED
    BY <2>1, <2>2 DEF Init, OutboundFaithful, Unsent, Queued
<1> QED
  BY <1>2, <1>3, <1>4, <1>5, <1>6 DEF Inv

(* and every step keeps it.                                                 *)
LEMMA InvStep == Inv /\ [Next]_vars => Inv'
<1> SUFFICES ASSUME Inv, [Next]_vars PROVE Inv'
  OBVIOUS
<1>1. /\ TypeOK /\ PlaceInv /\ EventInv /\ FunctorInv /\ ReadInv /\ WriteInv
      /\ InboundFaithful /\ OutboundFaithful /\ KeptOpen
  BY DEF Inv
<1>2. TypeOK' /\ PlaceInv' /\ EventInv'
  BY <1>1, TypeStep, PlaceStep, EventStep
<1>3. FunctorInv' /\ ReadInv' /\ WriteInv'
  BY <1>1, FunctorStep, ReadStep, WriteStep
<1>4. InboundFaithful' /\ KeptOpen'
  BY <1>1, InboundStep, KeptStep
<1>5. OutboundFaithful'
  BY <1>1, <1>2, OutboundStep
<1> QED
  BY <1>2, <1>3, <1>4, <1>5 DEF Inv

(* It holds in every reachable state, whatever the sizes of the buffers and *)
(* however many bytes the client sends.                                     *)
THEOREM InvHolds == Safety => []Inv
BY InvInit, InvStep, PTL DEF Safety

(* Types, and that handleRead and qg::write leave no counter and no byte    *)
(* behind when they return (tcp_connection.cpp:55, rwtool.h).               *)
THEOREM TypeCorrect == Safety => []TypeOK
<1>1. Inv => TypeOK
  BY DEF Inv
<1> QED
  BY <1>1, InvHolds, PTL

(* Nothing is lost, repeated or reordered on the way in, unless bytes came  *)
(* between two calls of qg::read in one handleRead or EAGAIN followed a     *)
(* full read (tcp_connection.cpp:60).                                       *)
THEOREM Inbound == Safety => []InboundFaithful
<1>1. Inv => InboundFaithful
  BY DEF Inv
<1> QED
  BY <1>1, InvHolds, PTL

(* Nothing is lost, repeated or reordered on the way out through direct     *)
(* writes, write_buf_ and the queue, and substr never throws, unless the    *)
(* client reads between two calls of ::write in one qg::write               *)
(* (tcp_connection.cpp:124, 143).                                           *)
THEOREM Outbound == Safety => []OutboundFaithful
<1>1. Inv => OutboundFaithful
  BY DEF Inv
<1> QED
  BY <1>1, InvHolds, PTL

(* A connection counts as disconnected, and is closed, only for the reasons *)
(* the property lists (tcp_connection.cpp:60).                              *)
THEOREM StaysOpen == Safety => []KeptOpen
<1>1. Inv => KeptOpen
  BY DEF Inv
<1> QED
  BY <1>1, InvHolds, PTL

(* Between rounds the application has been told of a completed write if and *)
(* only if all it wrote is in the kernel's hands (tcp_connection.cpp:99,    *)
(* 146).                                                                    *)
THEOREM Completion == Safety => []CompletionTrue
<1>1. ASSUME Inv, at = "wait", ~disconnected_, drains = 0
      PROVE  owed <=> Len(got) + Len(snd) < Len(told)
  <2>0. /\ got \in Seq(Bytes) /\ snd \in Seq(Bytes) /\ write_buf_ \in Seq(Bytes)
        /\ Len(got) \in Nat /\ Len(snd) \in Nat /\ Len(write_buf_) \in Nat
    BY <1>1 DEF Inv, TypeOK
  <2>1. batch = <<>> /\ queue \in Seq(Silent)
    BY <1>1 DEF Inv, PlaceInv, FunctorInv
  <2>2. Data(batch) = <<>> /\ Data(queue) = <<>>
    BY <2>1, DataSilent, EmptySeq
  <2>3. got \o snd \o write_buf_ \o (<<>> \o <<>>) = told
    BY <1>1, <2>2 DEF Inv, OutboundFaithful, Unsent, Queued
  <2>4. Len(got \o snd \o write_buf_) = Len(got) + Len(snd) + Len(write_buf_)
        /\ got \o snd \o write_buf_ \in Seq(Bytes)
    BY <2>0, ConcatType
  <2>5. told = got \o snd \o write_buf_
    BY <2>3, <2>4, EmptySeq, ConcatEmptySeq
  <2>6. owed <=> Len(write_buf_) > 0
    BY <1>1, <2>0, EmptySeq DEF Inv, EventInv
  <2> QED
    BY <2>0, <2>4, <2>5, <2>6
<1>2. Inv => CompletionTrue
  BY <1>1 DEF CompletionTrue
<1> QED
  BY <1>2, InvHolds, PTL
==============================================================================
