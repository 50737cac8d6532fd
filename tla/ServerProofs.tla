---------------------------- MODULE ServerProofs -----------------------------
(***************************************************************************)
(* Proofs about Server, for any clients, io loops, sizes, descriptors and   *)
(* callbacks. This module proves the types, and what a step does to the     *)
(* queues of functors; ServerLifeProofs builds on it.                       *)
(***************************************************************************)
EXTENDS Server, SequenceFacts

(* The queues of functors still to run, and the connection that is being    *)
(* constructed: what the life of a connection needs to know of threads.     *)
Todos == [l \in Loops |-> Todo(l)]

(* The connection that handleNewCon is constructing, if there is one.       *)
Building == IF at[Base] = "inc" THEN {cur[Base]} ELSE {}

------------------------------------------------------------------------------
(* Types                                                                    *)

(* LoopThreadPool::getNextLoop stays inside loops_.                         *)
LEMMA NextLoopType ==
    ASSUME TypeOK
    PROVE  /\ NextLoop \in Loops
           /\ NextPos \in Nat
           /\ IoLoops # <<>> => NextPos < Len(IoLoops)
<1>1. /\ IoLoops \in Seq(Loops) /\ curPos \in Nat
      /\ IoLoops # <<>> => curPos < Len(IoLoops)
  BY ReactorAssumption DEF TypeOK
<1>2. Base \in Loops
  BY DEF Loops
<1> QED
  BY <1>1, <1>2 DEF NextLoop, NextPos

(* accept has a lowest free descriptor to return.                           *)
LEMMA LowestFd ==
    ASSUME FreeFds # {}
    PROVE  (CHOOSE f \in FreeFds : \A g \in FreeFds : f <= g) \in FreeFds
<1>1. FreeFds \in SUBSET Nat
  BY ServerAssumption DEF FreeFds
<1>2. \E f \in FreeFds : \A g \in FreeFds : f <= g
  BY <1>1, LeastNat
<1> QED
  BY <1>2

(* addFunctor keeps the queues queues.                                      *)
LEMMA PostType ==
    ASSUME ReactorTypeOK, NEW l, NEW op \in Ops, NEW c \in Conns
    PROVE  AddFunctor(l, Functor(op, c)) \in [Loops -> Seq(Functors)]
<1>1. Functor(op, c) \in Functors
  BY DEF Functor, Functors
<1>2. \A q \in Seq(Functors) : Append(q, Functor(op, c)) \in Seq(Functors)
  BY <1>1
<1> QED
  BY <1>2 DEF ReactorTypeOK, AddFunctor

(* A thread that is inside or behind a functor has it at the head of its    *)
(* batch.                                                                   *)
BatchInv == \A l \in Loops : at[l] \in {"dec", "pop"} => batch[l] # <<>>

(* Every step keeps the types of the reactor's state,                       *)
LEMMA ReactorTypeStep == ASSUME TypeOK, BatchInv, [Next]_vars PROVE ReactorTypeOK'
<1> USE DEF ReactorTypeOK, Places, Events
<1>0. ReactorTypeOK /\ Base \in Loops
  BY DEF TypeOK, Loops
<1>a. \A l, op, c : op \in Ops /\ c \in Conns =>
         AddFunctor(l, Functor(op, c)) \in [Loops -> Seq(Functors)]
  BY <1>0, PostType
<1>1. ASSUME NEW l \in Loops, ReactorStep(l) PROVE ReactorTypeOK'
  <2>1. CASE Wait(l, Polled, ListenerReady(l))
    BY <1>0, <2>1 DEF Wait, Polled, ListenerReady
  <2>2. CASE PopAll(l)
    BY <1>0, <2>2 DEF PopAll
  <2>3. CASE PopFunctor(l)
    <3>1. Tail(batch[l]) \in Seq(Functors)
      BY <1>0, <2>3 DEF PopFunctor, BatchInv
    <3> QED
      BY <1>0, <2>3, <3>1 DEF PopFunctor
  <2>4. CASE EndRun(l)
    BY <1>0, <2>4 DEF EndRun
  <2> QED
    BY <1>1, <2>1, <2>2, <2>3, <2>4 DEF ReactorStep
<1>2. ASSUME NEW l \in Loops, NEW c \in Conns, TcpStep(l, c) PROVE ReactorTypeOK'
  <2>1. CASE HandleReadMessage(l, c)
    BY <1>0, <1>a, <2>1 DEF HandleReadMessage, CallBack, TakeHandler, Ops
  <2>2. CASE HandleReadClose(l, c)
    <3>1. ievents_' \in [Conns -> SUBSET Events]
      BY <1>0, <2>2 DEF HandleReadClose, HandleClose, Ops
    <3>2. pending' \in [Loops -> Seq(Functors)]
      BY <1>0, <1>a, <2>2 DEF HandleReadClose, HandleClose, Ops
    <3> QED
      BY <1>0, <2>2, <3>1, <3>2 DEF HandleReadClose, TakeHandler
  <2>3. CASE SkipRead(l, c)
    BY <1>0, <1>a, <2>3 DEF SkipRead, TakeHandler, Ops
  <2>4. CASE HandleWriteSome(l, c)
    <3>1. ievents_' \in [Conns -> SUBSET Events]
      <4>1. UNCHANGED ievents_ \/ ievents_' = DisableWrite(c)
        BY <2>4 DEF HandleWriteSome
      <4> QED
        BY <1>0, <4>1 DEF DisableWrite
    <3>2. pending' \in [Loops -> Seq(Functors)]
      BY <1>0, <1>a, <2>4 DEF HandleWriteSome, DisableWrite, Least, Ops
    <3> QED
      BY <1>0, <2>4, <3>1, <3>2 DEF HandleWriteSome, LeaveHandler
  <2>5. CASE HandleWriteFails(l, c)
    BY <1>0, <1>a, <2>5 DEF HandleWriteFails, LeaveHandler, HandleClose, Ops
  <2>6. CASE HandleWriteDies(l, c)
    BY <1>0, <1>a, <2>6 DEF HandleWriteDies, LeaveHandler, Ops
  <2>7. CASE SkipWrite(l, c)
    BY <1>0, <1>a, <2>7 DEF SkipWrite, LeaveHandler, Ops
  <2>8. CASE HandleConnection(l, c)
    <3>1. ievents_' \in [Conns -> SUBSET Events]
      BY <1>0, <2>8 DEF HandleConnection, CallBack, Ops
    <3>2. pending' \in [Loops -> Seq(Functors)]
      BY <1>0, <1>a, <2>8 DEF HandleConnection, CallBack, Ops
    <3> QED
      BY <1>0, <2>8, <3>1, <3>2 DEF HandleConnection, Returns
  <2>9. CASE WriteDropped(l, c)
    BY <1>0, <1>a, <2>9 DEF WriteDropped, Returns, Ops
  <2>10. CASE WriteNow(l, c)
    BY <1>0, <1>a, <2>10 DEF WriteNow, Returns, CanWriteDirect, Least, Ops
  <2>11. CASE WriteDies(l, c)
    BY <1>0, <1>a, <2>11 DEF WriteDies, Returns, Ops
  <2>12. CASE WriteComplete(l, c)
    BY <1>0, <1>a, <2>12 DEF WriteComplete, Returns, CallBack, Ops
  <2> QED
    BY <1>2, <2>1, <2>2, <2>3, <2>4, <2>5, <2>6, <2>7, <2>8, <2>9, <2>10, <2>11, <2>12 DEF TcpStep
<1>3. ASSUME NEW l \in Loops, NEW c \in Conns, CloseStep(l, c) PROVE ReactorTypeOK'
  <2>1. CASE HandleConnectionClose(l, c)
    BY <1>0, <1>a, <2>1 DEF HandleConnectionClose, Returns, Ops
  <2>2. CASE CloseConnectionLoad(l, c)
    BY <1>0, <2>2 DEF CloseConnectionLoad
  <2>3. CASE CloseConnection(l, c)
    BY <1>0, <2>3 DEF CloseConnection, Returns
  <2> QED
    BY <1>3, <2>1, <2>2, <2>3 DEF CloseStep
<1>4. CASE AcceptStep
  <2>1. CASE StartAccept
    BY <1>0, <2>1 DEF StartAccept
  <2>2. ASSUME NEW c \in Conns, AcceptDeny(c) PROVE ReactorTypeOK'
    BY <1>0, <2>2 DEF AcceptDeny
  <2>3. ASSUME NEW c \in Conns, AcceptConn(c) PROVE ReactorTypeOK'
    BY <1>0, <2>3 DEF AcceptConn
  <2>4. ASSUME NEW c \in Conns, HandleNewCon(c) PROVE ReactorTypeOK'
    BY <1>0, <1>a, <2>4 DEF HandleNewCon, Ops
  <2>5. CASE EndAccept
    BY <1>0, <2>5 DEF EndAccept
  <2> QED
    BY <1>4, <2>1, <2>2, <2>3, <2>4, <2>5 DEF AcceptStep
<1>5. CASE UNCHANGED reactorVars
  BY <1>0, <1>5 DEF reactorVars
<1> QED
  BY <1>1, <1>2, <1>3, <1>4, <1>5 DEF Next, LoopStep, Client, ClientConnect, vars

(* of the connections and their sockets,                                    *)
LEMMA TcpTypeStep == ASSUME TypeOK, [Next]_vars PROVE TcpTypeOK'
<1> USE TcpAssumption DEF TcpTypeOK, PeerStates
<1>0. TcpTypeOK /\ Base \in Loops
  BY DEF TypeOK, Loops
<1>2. ASSUME NEW l \in Loops, NEW c \in Conns, TcpStep(l, c) PROVE TcpTypeOK'
  <2>1. CASE HandleReadMessage(l, c)
    BY <1>0, <2>1 DEF HandleReadMessage, CallBack, kernelVars, tcpVars
  <2>2. CASE HandleReadClose(l, c)
    BY <1>0, <2>2 DEF HandleReadClose, kernelVars, tcpVars
  <2>3. CASE SkipRead(l, c)
    BY <1>0, <2>3 DEF SkipRead, kernelVars, tcpVars
  <2>4. CASE HandleWriteSome(l, c)
    BY <1>0, <2>4 DEF HandleWriteSome, Least, kernelVars, tcpVars
  <2>5. CASE HandleWriteFails(l, c)
    BY <1>0, <2>5 DEF HandleWriteFails, kernelVars, tcpVars
  <2>6. CASE HandleWriteDies(l, c)
    BY <1>0, <2>6 DEF HandleWriteDies, kernelVars, tcpVars
  <2>7. CASE SkipWrite(l, c)
    BY <1>0, <2>7 DEF SkipWrite, kernelVars, tcpVars
  <2>8. CASE HandleConnection(l, c)
    BY <1>0, <2>8 DEF HandleConnection, CallBack, kernelVars, tcpVars
  <2>9. CASE WriteDropped(l, c)
    BY <1>0, <2>9 DEF WriteDropped, kernelVars, tcpVars
  <2>10. CASE WriteNow(l, c)
    BY <1>0, <2>10 DEF WriteNow, CanWriteDirect, Least, kernelVars, tcpVars
  <2>11. CASE WriteDies(l, c)
    BY <1>0, <2>11 DEF WriteDies, kernelVars, tcpVars
  <2>12. CASE WriteComplete(l, c)
    BY <1>0, <2>12 DEF WriteComplete, CallBack, kernelVars, tcpVars
  <2> QED
    BY <1>2, <2>1, <2>2, <2>3, <2>4, <2>5, <2>6, <2>7, <2>8, <2>9, <2>10, <2>11, <2>12 DEF TcpStep
<1>3. ASSUME NEW l \in Loops, NEW c \in Conns, CloseStep(l, c) PROVE TcpTypeOK'
  BY <1>0, <1>3 DEF CloseStep, HandleConnectionClose, CloseConnectionLoad, CloseConnection,
                    kernelVars, tcpVars
<1>4. CASE AcceptStep
  <2>1. ASSUME NEW c \in Conns, AcceptDeny(c) PROVE TcpTypeOK'
    BY <1>0, <2>1 DEF AcceptDeny, tcpVars
  <2>2. ASSUME NEW c \in Conns, AcceptConn(c) PROVE TcpTypeOK'
    BY <1>0, <2>2, NextLoopType DEF AcceptConn, kernelVars
  <2>3. CASE UNCHANGED <<kernelVars, tcpVars>>
    BY <1>0, <2>3 DEF kernelVars, tcpVars
  <2> QED
    BY <1>4, <2>1, <2>2, <2>3 DEF AcceptStep, StartAccept, HandleNewCon, EndAccept
<1>5. ASSUME NEW c \in Conns, Client(c) PROVE TcpTypeOK'
  <2>1. CASE ClientConnect(c)
    BY <1>0, <2>1 DEF ClientConnect, tcpVars
  <2>2. CASE ClientStep(c) /\ UNCHANGED tcpVars
    BY <1>0, <2>2 DEF ClientStep, ClientSend, ClientFin, ClientReset, ClientRead, tcpVars
  <2> QED
    BY <1>5, <2>1, <2>2 DEF Client
<1>6. CASE UNCHANGED <<kernelVars, tcpVars>>
  BY <1>0, <1>6 DEF kernelVars, tcpVars
<1> QED
  BY <1>2, <1>3, <1>4, <1>5, <1>6 DEF Next, LoopStep, ReactorStep, vars

(* and of the server's.                                                     *)
LEMMA TypeStep == ASSUME TypeOK, BatchInv, [Next]_vars PROVE TypeOK'
<1> USE ServerAssumption
<1>0. ReactorTypeOK' /\ TcpTypeOK' /\ Base \in Loops
  BY ReactorTypeStep, TcpTypeStep DEF Loops
<1>1. CASE UNCHANGED serverVars
  BY <1>0, <1>1 DEF TypeOK, serverVars
<1>2. ASSUME NEW l \in Loops, NEW c \in Conns, CloseStep(l, c) PROVE TypeOK'
  <2>1. CASE HandleConnectionClose(l, c)
    BY <1>0, <2>1 DEF TypeOK, HandleConnectionClose
  <2>2. CASE CloseConnectionLoad(l, c)
    BY <1>0, <2>2 DEF TypeOK, CloseConnectionLoad
  <2>3. CASE CloseConnection(l, c)
    BY <1>0, <2>3 DEF TypeOK, CloseConnection
  <2> QED
    BY <1>2, <2>1, <2>2, <2>3 DEF CloseStep
<1>3. CASE AcceptStep
  <2>1. CASE StartAccept \/ EndAccept
    BY <1>1, <2>1 DEF StartAccept, EndAccept
  <2>2. ASSUME NEW c \in Conns, AcceptDeny(c) PROVE TypeOK'
    BY <1>0, <2>2 DEF TypeOK, AcceptDeny, Accepts
  <2>3. ASSUME NEW c \in Conns, AcceptConn(c) PROVE TypeOK'
    <3>1. fd' \in [Conns -> Fds \cup {None}]
      BY <2>3, LowestFd DEF TypeOK, AcceptConn, Accepts, FreeFds
    <3> QED
      BY <1>0, <2>3, <3>1, NextLoopType DEF TypeOK, AcceptConn, Accepts
  <2>4. ASSUME NEW c \in Conns, HandleNewCon(c) PROVE TypeOK'
    <3>1. connections_' \in [Fds -> Conns \cup {None}]
      BY <2>4 DEF TypeOK, HandleNewCon
    <3> QED
      BY <1>0, <2>4, <3>1 DEF TypeOK, HandleNewCon
  <2> QED
    BY <1>3, <2>1, <2>2, <2>3, <2>4 DEF AcceptStep
<1>4. ASSUME NEW c \in Conns, ClientConnect(c) PROVE TypeOK'
  BY <1>0, <1>4 DEF TypeOK, ClientConnect
<1> QED
  BY <1>1, <1>2, <1>3, <1>4 DEF Next, LoopStep, ReactorStep, Client, vars

(* A functor leaves the batch only behind itself.                          *)
LEMMA BatchStep == ASSUME TypeOK, BatchInv, [Next]_vars PROVE BatchInv'
<1> USE DEF BatchInv, TypeOK, ReactorTypeOK
<1>1. ASSUME NEW l \in Loops, ReactorStep(l) PROVE BatchInv'
  BY <1>1 DEF ReactorStep, Wait, PopAll, PopFunctor, EndRun
<1>2. ASSUME NEW l \in Loops, NEW c \in Conns, TcpStep(l, c) PROVE BatchInv'
  BY <1>2 DEF TcpStep, HandleReadMessage, HandleReadClose, SkipRead, TakeHandler,
              HandleWriteSome, HandleWriteFails, HandleWriteDies, SkipWrite, LeaveHandler,
              HandleConnection, WriteDropped, WriteNow, WriteDies, WriteComplete,
              Runs, Returns
<1>3. ASSUME NEW l \in Loops, NEW c \in Conns, CloseStep(l, c) PROVE BatchInv'
  BY <1>3 DEF CloseStep, HandleConnectionClose, CloseConnectionLoad, CloseConnection,
              Runs, Returns
<1>4. CASE AcceptStep
  BY <1>4 DEF AcceptStep, StartAccept, AcceptDeny, AcceptConn, HandleNewCon, EndAccept, Loops
<1>5. CASE UNCHANGED reactorVars
  BY <1>5 DEF reactorVars
<1> QED
  BY <1>1, <1>2, <1>3, <1>4, <1>5 DEF Next, LoopStep, Client, ClientConnect, vars

(* The initial state has its types.                                         *)
LEMMA TypeInit == Init => TypeOK /\ BatchInv
<1> SUFFICES ASSUME Init PROVE TypeOK /\ BatchInv
  OBVIOUS
<1>1. ReactorTypeOK /\ BatchInv
  BY ReactorAssumption DEF Init, ReactorInit, ReactorTypeOK, Places, Events, BatchInv
<1>2. TcpTypeOK
  <2>1. wrShut \in [Conns -> BOOLEAN] /\ disconnected_ \in [Conns -> BOOLEAN]
    BY Zenon DEF Init, TcpInit
  <2>2. crashed \in BOOLEAN
    BY DEF Init, TcpInit
  <2> QED
    BY <2>1, <2>2, TcpAssumption DEF Init, TcpInit, TcpTypeOK, PeerStates
<1> QED
  BY <1>1, <1>2, ReactorAssumption DEF Init, TypeOK

(* Every value the server keeps has its type in every reachable state: in   *)
(* particular a descriptor that accept returned is one of the kernel's, and *)
(* getNextLoop never leaves loops_ (loop_thread_pool.h).                    *)
THEOREM TypeCorrect == Safety => []TypeOK
<1>1. TypeOK /\ BatchInv /\ [Next]_vars => (TypeOK /\ BatchInv)'
  BY TypeStep, BatchStep
<1> QED
  BY TypeInit, <1>1, PTL DEF Safety

------------------------------------------------------------------------------
(* The queues of functors to run                                            *)

(* How many functors loop x has run in a step in which those of ran have.   *)
Shift(x, ran) == IF x \in ran THEN 1 ELSE 0

(* What a step does to the queues of functors to run: the loops of ran have *)
(* run the head of theirs, and loop m, if it is one, has f behind its own.  *)
Moves(ran, m, f) ==
    \A x \in Loops :
      /\ x \in ran => 1 \in DOMAIN Todos[x]
      /\ Len(Todos'[x]) = Len(Todos[x]) - Shift(x, ran) + (IF x = m THEN 1 ELSE 0)
      /\ \A i \in DOMAIN Todos'[x] :
           Todos'[x][i] = IF i + Shift(x, ran) \in DOMAIN Todos[x]
                          THEN Todos[x][i + Shift(x, ran)] ELSE f

(* The functors to run are functors.                                        *)
LEMMA TodosType == TypeOK /\ BatchInv => Todos \in [Loops -> Seq(Functors)]
<1> SUFFICES ASSUME TypeOK, BatchInv PROVE Todos \in [Loops -> Seq(Functors)]
  OBVIOUS
<1>1. ASSUME NEW l \in Loops PROVE Todo(l) \in Seq(Functors)
  <2>1. batch[l] \in Seq(Functors) /\ pending[l] \in Seq(Functors)
    BY DEF TypeOK, ReactorTypeOK
  <2>2. at[l] = "pop" => Tail(batch[l]) \in Seq(Functors)
    BY <2>1 DEF BatchInv
  <2> QED
    BY <2>1, <2>2 DEF Todo
<1> QED
  BY <1>1 DEF Todos

(* One queue: the batch b loses its head or not, the queue p becomes p2,    *)
(* with f at its end, or not.                                               *)
QueueFacts(b, p, p2, f) ==
    /\ Len(b \o p2) = Len(b \o p) + Len(p2) - Len(p)
    /\ \A i \in DOMAIN (b \o p2) :
         (b \o p2)[i] = IF i \in DOMAIN (b \o p) THEN (b \o p)[i] ELSE f
    /\ b # <<>> =>
         /\ 1 \in DOMAIN (b \o p)
         /\ Len(Tail(b) \o p2) = Len(b \o p) - 1 + Len(p2) - Len(p)
         /\ \A i \in DOMAIN (Tail(b) \o p2) :
              (Tail(b) \o p2)[i] =
                IF i + 1 \in DOMAIN (b \o p) THEN (b \o p)[i + 1] ELSE f

(* One queue whose batch is b and whose pending part grows by f or not at   *)
(* all, seen as the sequence of what is still to run.                       *)
LEMMA OneQueue ==
    ASSUME NEW S, NEW b \in Seq(S), NEW p \in Seq(S), NEW f \in S, NEW p2 \in Seq(S),
           p2 = p \/ p2 = Append(p, f)
    PROVE  QueueFacts(b, p, p2, f)
<1>1. Len(p2) \in Nat /\ Len(p) \in Nat /\ Len(p2) >= Len(p)
  OBVIOUS
<1>2. \A i \in 1..Len(p2) : p2[i] = IF i \in 1..Len(p) THEN p[i] ELSE f
  OBVIOUS
<1>3. b \o p \in Seq(S) /\ b \o p2 \in Seq(S)
  BY <1>1
<1>4. DOMAIN (b \o p) = 1..(Len(b) + Len(p)) /\ DOMAIN (b \o p2) = 1..(Len(b) + Len(p2))
  BY <1>1
<1>5. /\ Len(b \o p2) = Len(b \o p) + Len(p2) - Len(p)
      /\ \A i \in DOMAIN (b \o p2) :
           (b \o p2)[i] = IF i \in DOMAIN (b \o p) THEN (b \o p)[i] ELSE f
  BY <1>1, <1>2, <1>3, <1>4
<1>6. ASSUME b # <<>>
      PROVE  /\ 1 \in DOMAIN (b \o p)
             /\ Len(Tail(b) \o p2) = Len(b \o p) - 1 + Len(p2) - Len(p)
             /\ \A i \in DOMAIN (Tail(b) \o p2) :
                  (Tail(b) \o p2)[i] =
                    IF i + 1 \in DOMAIN (b \o p) THEN (b \o p)[i + 1] ELSE f
  <2>1. /\ Tail(b) \in Seq(S) /\ Len(Tail(b)) = Len(b) - 1 /\ Len(b) \in Nat \ {0}
        /\ \A i \in 1..(Len(b) - 1) : Tail(b)[i] = b[i + 1]
    BY <1>6
  <2>2. /\ Tail(b) \o p2 \in Seq(S)
        /\ DOMAIN (Tail(b) \o p2) = 1..(Len(b) - 1 + Len(p2))
    BY <1>1, <2>1
  <2>3. 1 \in DOMAIN (b \o p) /\ Len(Tail(b) \o p2) = Len(b \o p) - 1 + Len(p2) - Len(p)
    BY <1>1, <1>4, <2>1
  <2>4. ASSUME NEW i \in DOMAIN (Tail(b) \o p2)
        PROVE  (Tail(b) \o p2)[i] =
                 IF i + 1 \in DOMAIN (b \o p) THEN (b \o p)[i + 1] ELSE f
    <3>1. i \in 1..(Len(b) - 1 + Len(p2))
      BY <2>2
    <3>2. CASE i < Len(b)
      <4>1. (Tail(b) \o p2)[i] = b[i + 1]
        BY <1>1, <2>1, <3>1, <3>2
      <4>2. i + 1 \in DOMAIN (b \o p) /\ (b \o p)[i + 1] = b[i + 1]
        BY <1>4, <2>1, <3>1, <3>2
      <4> QED
        BY <4>1, <4>2
    <3>3. CASE i >= Len(b)
      <4>1. (Tail(b) \o p2)[i] = p2[i + 1 - Len(b)]
        BY <1>1, <2>1, <3>1, <3>3
      <4>2. i + 1 \in DOMAIN (b \o p) => (b \o p)[i + 1] = p[i + 1 - Len(b)]
        BY <1>4, <2>1, <3>1, <3>3
      <4>3. QED
        <5>1. i + 1 - Len(b) \in 1..Len(p2)
          BY <1>1, <2>1, <3>1, <3>3
        <5>2. i + 1 \in DOMAIN (b \o p) <=> i + 1 - Len(b) \in 1..Len(p)
          BY <1>4, <2>1, <3>1, <3>3
        <5> QED
          BY <1>2, <4>1, <4>2, <5>1, <5>2
    <3> QED
      BY <2>1, <3>1, <3>2, <3>3
  <2> QED
    BY <2>3, <2>4
<1> QED
  BY <1>5, <1>6 DEF QueueFacts

(* A step that returns from functors and posts at most one moves the        *)
(* queues.                                                                  *)
LEMMA MovesStep ==
    ASSUME TypeOK, TypeOK', BatchInv, NEW ran, NEW m, NEW f \in Functors,
           batch' = batch,
           \A x \in Loops : x \notin ran => (at'[x] = "pop" <=> at[x] = "pop"),
           \A x \in Loops : x \in ran => at[x] # "pop" /\ at'[x] = "pop" /\ batch[x] # <<>>,
           \/ m = None /\ pending' = pending
           \/ m \in Loops /\ pending' = AddFunctor(m, f)
    PROVE  Moves(ran, m, f)
<1> SUFFICES ASSUME NEW x \in Loops
             PROVE /\ x \in ran => 1 \in DOMAIN Todo(x)
                   /\ Len(Todo(x)') = Len(Todo(x)) - Shift(x, ran) + (IF x = m THEN 1 ELSE 0)
                   /\ \A i \in DOMAIN Todo(x)' :
                        Todo(x)'[i] = IF i + Shift(x, ran) \in DOMAIN Todo(x)
                                      THEN Todo(x)[i + Shift(x, ran)] ELSE f
  BY DEF Moves, Todos
<1> DEFINE p == pending[x]
           q == pending'[x]
           b == IF at[x] = "pop" THEN Tail(batch[x]) ELSE batch[x]
<1>1. /\ p \in Seq(Functors) /\ q \in Seq(Functors)
      /\ x = m => q = Append(p, f)
      /\ x # m => q = p
  <2>1. pending \in [Loops -> Seq(Functors)] /\ None \notin Loops
    BY ReactorAssumption DEF TypeOK, ReactorTypeOK
  <2>2. CASE m = None /\ pending' = pending
    BY <2>1, <2>2
  <2>3. CASE m \in Loops /\ pending' = AddFunctor(m, f)
    BY <2>1, <2>3 DEF AddFunctor
  <2> QED
    BY <2>2, <2>3
<1>2. b \in Seq(Functors)
  BY DEF TypeOK, ReactorTypeOK, BatchInv
<1>3. Todo(x) = b \o p /\ Todo(x)' = (IF x \in ran THEN Tail(b) ELSE b) \o q
  BY DEF Todo
<1>4. x \in ran => b # <<>>
  OBVIOUS
<1> HIDE DEF p, q, b
<1>5. QueueFacts(b, p, q, f)
  BY <1>1, <1>2, OneQueue
<1>6. Len(q) - Len(p) = (IF x = m THEN 1 ELSE 0) /\ Len(p) \in Nat /\ Len(q) \in Nat
  BY <1>1
<1>7. Len(b \o p) \in Nat /\ DOMAIN (b \o q) \in SUBSET Int
  BY <1>1, <1>2
<1>8. CASE x \in ran
  BY <1>3, <1>4, <1>5, <1>6, <1>7, <1>8 DEF QueueFacts, Shift
<1>9. CASE x \notin ran
  <2>1. Shift(x, ran) = 0 /\ Todo(x) = b \o p /\ Todo(x)' = b \o q
    BY <1>3, <1>9 DEF Shift
  <2>2. \A i \in DOMAIN (b \o q) : i + 0 = i
    BY <1>7
  <2>3. \A i \in DOMAIN (b \o q) :
          (b \o q)[i] = IF i + 0 \in DOMAIN (b \o p) THEN (b \o p)[i + 0] ELSE f
    BY <1>5, <2>2 DEF QueueFacts
  <2>4. Len(b \o q) = Len(b \o p) - 0 + (IF x = m THEN 1 ELSE 0)
    BY <1>5, <1>6, <1>7 DEF QueueFacts
  <2> QED
    BY <1>9, <2>1, <2>3, <2>4
<1> QED
  BY <1>8, <1>9
==============================================================================
