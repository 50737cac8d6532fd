-------------------------- MODULE ServerLifeProofs ---------------------------
(***************************************************************************)
(* The life of a connection, from accept to the destructor: the inductive   *)
(* invariant of Server, and what follows from it: for any program,          *)
(* ClosesOnce, FdsDistinct and NeverDisplaced; NoDangling when no           *)
(* write-complete callback writes, and AdmissionBound when there are no io  *)
(* threads.                                                                 *)
(***************************************************************************)
EXTENDS ServerProofs

------------------------------------------------------------------------------
(* The life of a connection                                                 *)

(* f is the functor op bound to c.                                          *)
Is(f, op, c) == f.op = op /\ f.conn = c

(* c is in Server's map, under its own descriptor.                          *)
Mapped(c) == fd[c] \in Fds /\ connections_[fd[c]] = c

(* The handler of c is registered with its loop.                            *)
Registered(c) == event_loop_[c] \in Loops /\ c \in handler_map_[event_loop_[c]]

(* Everything of a connection is where it belongs.                          *)
Placed(c) ==
    /\ event_loop_[c] = None <=> fd[c] = None
    /\ event_loop_[c] = None => ievents_[c] = {} /\ ~disconnected_[c]
    /\ \A l \in Loops : c \in handler_map_[l] => l = event_loop_[c]
    /\ \A f \in Fds : connections_[f] = c => f = fd[c]
    /\ \A l \in Loops : \A i \in DOMAIN Todos[l] : Todos[l][i].conn = c =>
         l = IF Todos[l][i].op = "handleConnectionClose" THEN Base ELSE event_loop_[c]

(* Under construction a connection is known to nobody.                      *)
Built(c) ==
    c \in Building =>
      /\ event_loop_[c] \in Loops
      /\ ievents_[c] = {}
      /\ ~disconnected_[c]
      /\ \A f \in Fds : connections_[f] # c
      /\ \A l \in Loops : c \notin handler_map_[l]
      /\ \A l \in Loops : \A i \in DOMAIN Todos[l] : Todos[l][i].conn # c

(* handleConnection comes before everything else.                           *)
Entered(c) ==
    \A l \in Loops : \A i \in DOMAIN Todos[l] :
      Is(Todos[l][i], "handleConnection", c) =>
        /\ Mapped(c)
        /\ ievents_[c] = {}
        /\ ~disconnected_[c]
        /\ \A m \in Loops : c \notin handler_map_[m]
        /\ \A m \in Loops : \A j \in DOMAIN Todos[m] :
             Todos[m][j].conn = c => m = l /\ j = i

(* While a closing functor is to run, no other is, and the connection is    *)
(* registered, asks for nothing and counts as disconnected.  It is in the   *)
(* map until handleConnectionClose has run.                                 *)
Closed(c) ==
    \A l \in Loops : \A i \in DOMAIN Todos[l] :
      Closes(Todos[l][i], c) =>
        /\ Registered(c)
        /\ ievents_[c] = {}
        /\ disconnected_[c]
        /\ Mapped(c) <=> Todos[l][i].op = "handleConnectionClose"
        /\ \A m \in Loops : \A j \in DOMAIN Todos[m] :
             Closes(Todos[m][j], c) => m = l /\ j = i

(* Nothing but closeConnection keeps a registered connection that has left  *)
(* the map, and a connection that left it counts as disconnected.           *)
Kept(c) ==
    /\ Registered(c) => Mapped(c) \/ \E i \in DOMAIN Todos[event_loop_[c]] :
                               Is(Todos[event_loop_[c]][i], "closeConnection", c)
    /\ event_loop_[c] # None => c \in Building \/ Mapped(c) \/ disconnected_[c]

(* All that is said of one connection.                                      *)
Life(c) == Placed(c) /\ Built(c) /\ Entered(c) /\ Closed(c) /\ Kept(c)

(* The step leaves connection d where it is.                                *)
SamePlace(d) ==
    /\ event_loop_'[d] = event_loop_[d]
    /\ fd'[d] = fd[d]
    /\ \A l \in Loops : d \in handler_map_'[l] <=> d \in handler_map_[l]
    /\ \A f \in Fds : connections_'[f] = d <=> connections_[f] = d
    /\ d \in Building' <=> d \in Building

(* The step leaves connection d alone.                                      *)
SameConn(d) ==
    /\ SamePlace(d)
    /\ ievents_'[d] = ievents_[d]
    /\ disconnected_'[d] <=> disconnected_[d]

(* Where a functor that is to run after the step was before it,             *)
MoveBack(ran, m, f) ==
    \A x \in Loops : \A i \in DOMAIN Todos'[x] :
      \/ i + Shift(x, ran) \in DOMAIN Todos[x] /\ Todos'[x][i] = Todos[x][i + Shift(x, ran)]
      \/ x = m /\ i + Shift(x, ran) = Len(Todos[x]) + 1 /\ Todos'[x][i] = f

(* and where one that was to run is after it.                               *)
MoveOn(ran, m, f) ==
    \A x \in Loops :
      /\ \A j \in DOMAIN Todos[x] :
           j > Shift(x, ran) =>
             /\ j - Shift(x, ran) \in DOMAIN Todos'[x]
             /\ Todos'[x][j - Shift(x, ran)] = Todos[x][j]
      /\ x = m => /\ Len(Todos[x]) + 1 - Shift(x, ran) \in DOMAIN Todos'[x]
                  /\ Todos'[x][Len(Todos[x]) + 1 - Shift(x, ran)] = f

(* Both follow from what the step does to the queues.                       *)
LEMMA MoveFacts ==
    ASSUME NEW ran, NEW m, NEW f, Moves(ran, m, f),
           Todos \in [Loops -> Seq(Functors)], Todos' \in [Loops -> Seq(Functors)]
    PROVE  MoveBack(ran, m, f) /\ MoveOn(ran, m, f)
<1> USE DEF Moves, Shift
<1>1. \A x \in Loops : /\ Len(Todos[x]) \in Nat /\ DOMAIN Todos[x] = 1..Len(Todos[x])
                       /\ Len(Todos'[x]) \in Nat /\ DOMAIN Todos'[x] = 1..Len(Todos'[x])
  OBVIOUS
<1>2. MoveBack(ran, m, f)
  <2> SUFFICES ASSUME NEW x \in Loops, NEW i \in DOMAIN Todos'[x]
               PROVE  \/ i + Shift(x, ran) \in DOMAIN Todos[x] /\ Todos'[x][i] = Todos[x][i + Shift(x, ran)]
                      \/ x = m /\ i + Shift(x, ran) = Len(Todos[x]) + 1 /\ Todos'[x][i] = f
    BY DEF MoveBack
  <2> QED
    BY <1>1
<1>3. MoveOn(ran, m, f)
  <2>1. ASSUME NEW x \in Loops, NEW j \in DOMAIN Todos[x], j > Shift(x, ran)
        PROVE /\ j - Shift(x, ran) \in DOMAIN Todos'[x]
              /\ Todos'[x][j - Shift(x, ran)] = Todos[x][j]
    <3>1. j - Shift(x, ran) \in DOMAIN Todos'[x] /\ (j - Shift(x, ran)) + Shift(x, ran) = j
      BY <1>1, <2>1
    <3> QED
      BY <3>1
  <2>2. ASSUME NEW x \in Loops, x = m
        PROVE /\ Len(Todos[x]) + 1 - Shift(x, ran) \in DOMAIN Todos'[x]
              /\ Todos'[x][Len(Todos[x]) + 1 - Shift(x, ran)] = f
    <3>1. /\ Len(Todos[x]) + 1 - Shift(x, ran) \in DOMAIN Todos'[x]
          /\ (Len(Todos[x]) + 1 - Shift(x, ran)) + Shift(x, ran) \notin DOMAIN Todos[x]
      BY <1>1, <2>2
    <3> QED
      BY <3>1
  <2> QED
    BY <2>1, <2>2 DEF MoveOn
<1> QED
  BY <1>2, <1>3

(* The queues move so between two states with well-typed queues.            *)
Moving(ran, m, f) ==
    /\ MoveBack(ran, m, f) /\ MoveOn(ran, m, f)
    /\ Todos \in [Loops -> Seq(Functors)] /\ Todos' \in [Loops -> Seq(Functors)]
    /\ m \in Loops => f \in Functors

(* A step of another connection.                                            *)
LEMMA OtherLife ==
    ASSUME NEW d \in Conns, NEW ran, NEW m, NEW f, Moving(ran, m, f),
           TypeOK, TypeOK', SameConn(d), Life(d),
           \A x \in Loops : x \in ran => Todos[x][1].conn # d,
           m \in Loops => f.conn # d
    PROVE  Life(d)'
<1> USE DEF SamePlace
<1>1. \A x \in Loops : \A i \in DOMAIN Todos'[x] :
         Todos'[x][i].conn = d => /\ i + Shift(x, ran) \in DOMAIN Todos[x] 
                                  /\ Todos'[x][i] = Todos[x][i + Shift(x, ran)]
                                  /\ i \in Nat
                                  /\ Shift(x, ran) \in Nat
  BY DEF Moving, MoveBack, Shift
<1>2. \A x \in Loops : \A i \in DOMAIN Todos[x] :
         Todos[x][i].conn = d => /\ i - Shift(x, ran) \in DOMAIN Todos'[x] 
                                 /\ Todos'[x][i - Shift(x, ran)] = Todos[x][i]
  BY DEF Moving, MoveOn, Shift
<1>3. /\ Mapped(d) <=> Mapped(d)'
      /\ Registered(d) <=> Registered(d)'
  BY DEF SameConn, Mapped, Registered, TypeOK, TcpTypeOK
<1>4. Placed(d)'
  BY <1>1 DEF SameConn, Life, Placed
<1>5. Built(d)'
  <2> SUFFICES ASSUME d \in Building'
               PROVE /\ event_loop_'[d] \in Loops
                     /\ ievents_'[d] = {}
                     /\ ~disconnected_'[d]
                     /\ \A g \in Fds : connections_'[g] # d
                     /\ \A l \in Loops : d \notin handler_map_'[l]
                     /\ \A l \in Loops : \A i \in DOMAIN Todos'[l] : Todos'[l][i].conn # d
    BY DEF Built
  <2>1. d \in Building /\ Built(d)
    BY DEF SameConn, Life
  <2>2. event_loop_'[d] \in Loops /\ ievents_'[d] = {}
    BY <2>1 DEF SameConn, Built
  <2>3. ~disconnected_'[d]
    BY <2>1 DEF SameConn, Built
  <2>4. \A l \in Loops : d \notin handler_map_'[l]
    BY <2>1 DEF SameConn, Built
  <2>5. \A g \in Fds : connections_'[g] # d
    BY <2>1 DEF SameConn, Built
  <2>6. \A l \in Loops : \A i \in DOMAIN Todos'[l] : Todos'[l][i].conn # d
    BY <1>1, <2>1 DEF Built
  <2> QED
    BY <2>2, <2>3, <2>4, <2>5, <2>6
<1>6. Entered(d)'
  <2> SUFFICES ASSUME NEW l \in Loops, NEW i \in DOMAIN Todos'[l],
                      Is(Todos'[l][i], "handleConnection", d)
               PROVE /\ Mapped(d)'
                     /\ ievents_'[d] = {}
                     /\ ~disconnected_'[d]
                     /\ \A x \in Loops : d \notin handler_map_'[x]
                     /\ \A x \in Loops : \A j \in DOMAIN Todos'[x] :
                          Todos'[x][j].conn = d => x = l /\ j = i
    BY DEF Entered
  <2>1. Todos'[l][i].conn = d
    BY DEF Is
  <2> DEFINE k == i + Shift(l, ran)
  <2>2. k \in DOMAIN Todos[l] /\ Is(Todos[l][k], "handleConnection", d)
    BY <1>1, <2>1
  <2>3. /\ Mapped(d)
        /\ ievents_[d] = {}
        /\ ~disconnected_[d]
        /\ \A x \in Loops : d \notin handler_map_[x]
        /\ \A x \in Loops : \A j \in DOMAIN Todos[x] : Todos[x][j].conn = d => x = l /\ j = k
    BY <2>2 DEF Life, Entered
  <2>4. Mapped(d)' /\ ievents_'[d] = {} /\ ~disconnected_'[d]
    BY <1>3, <2>3 DEF SameConn
  <2>5. \A x \in Loops : d \notin handler_map_'[x]
    BY <2>3 DEF SameConn
  <2>6. \A x \in Loops : \A j \in DOMAIN Todos'[x] : Todos'[x][j].conn = d => x = l /\ j = i
    BY <1>1, <2>1, <2>3
  <2> QED
    BY <2>4, <2>5, <2>6
<1>7. Closed(d)'
  BY <1>1, <1>3 DEF SameConn, Life, Closed, Closes
<1>8. Kept(d)'
  <2>1. ASSUME Registered(d)', ~Mapped(d)'
        PROVE \E i \in DOMAIN Todos'[event_loop_'[d]] : Is(Todos'[event_loop_'[d]][i], "closeConnection", d)
    <3>1. PICK j \in DOMAIN Todos[event_loop_[d]] : Is(Todos[event_loop_[d]][j], "closeConnection", d)
      BY <1>3, <2>1 DEF Life, Kept
    <3>2. QED
      <4>1. /\ event_loop_'[d] = event_loop_[d] /\ event_loop_[d] \in Loops
            /\ Todos[event_loop_[d]][j].conn = d
        BY <1>3, <2>1, <3>1 DEF SameConn, Registered, Is
      <4> QED
        BY <1>2, <3>1, <4>1
  <2> QED
    BY <1>3, <2>1 DEF SameConn, Life, Kept
<1> QED
  BY <1>4, <1>5, <1>6, <1>7, <1>8 DEF Life

------------------------------------------------------------------------------
(* How each operation changes the life of its connection                    *)

(* The slots of c after a step: old ones, and perhaps the new one.          *)
LEMMA Slots ==
    ASSUME NEW ran, NEW m, NEW f, Moving(ran, m, f)
    PROVE  /\ \A x \in Loops : \A i \in DOMAIN Todos'[x] :
                /\ i \in Nat \ {0} /\ Shift(x, ran) \in {0, 1} /\ i + Shift(x, ran) \in Nat
                /\ \/ /\ i + Shift(x, ran) \in DOMAIN Todos[x]
                      /\ Todos'[x][i] = Todos[x][i + Shift(x, ran)]
                   \/ x = m /\ i + Shift(x, ran) = Len(Todos[x]) + 1 /\ Todos'[x][i] = f
           /\ \A x \in Loops : \A i \in DOMAIN Todos[x] :
                /\ i \in Nat \ {0} /\ Shift(x, ran) \in {0, 1}
                /\ \/ i = 1 /\ x \in ran
                   \/ /\ i - Shift(x, ran) \in DOMAIN Todos'[x]
                      /\ Todos'[x][i - Shift(x, ran)] = Todos[x][i]
           /\ m \in Loops => /\ Len(Todos[m]) \in Nat
                             /\ Len(Todos[m]) + 1 - Shift(m, ran) \in DOMAIN Todos'[m]
                             /\ Todos'[m][Len(Todos[m]) + 1 - Shift(m, ran)] = f
<1>1. \A x \in Loops : Shift(x, ran) \in {0, 1} /\ (Shift(x, ran) = 1 <=> x \in ran)
  BY DEF Shift
<1>2. \A x \in Loops : /\ Len(Todos[x]) \in Nat /\ DOMAIN Todos[x] = 1..Len(Todos[x])
                       /\ Len(Todos'[x]) \in Nat /\ DOMAIN Todos'[x] = 1..Len(Todos'[x])
  BY DEF Moving
<1> QED
  BY <1>1, <1>2 DEF Moving, MoveBack, MoveOn

(* The same when no functor has run, and when loop l has run one.           *)
LEMMA PostSlots ==
    ASSUME NEW m, NEW f, Moving({}, m, f)
    PROVE  \A x \in Loops : \A i \in DOMAIN Todos'[x] :
             \/ i \in DOMAIN Todos[x] /\ Todos'[x][i] = Todos[x][i]
             \/ x = m /\ i = Len(Todos[x]) + 1 /\ Todos'[x][i] = f
<1> SUFFICES ASSUME NEW x \in Loops, NEW i \in DOMAIN Todos'[x]
             PROVE  \/ i \in DOMAIN Todos[x] /\ Todos'[x][i] = Todos[x][i]
                    \/ x = m /\ i = Len(Todos[x]) + 1 /\ Todos'[x][i] = f
  OBVIOUS
<1>1. i \in Nat /\ Shift(x, {}) = 0
  BY Slots DEF Shift
<1>2. i + Shift(x, {}) = i
  BY <1>1
<1> QED
  BY <1>2, Slots

(* The functors to run after loop l has run one: not that one.              *)
LEMMA RanSlots ==
    ASSUME NEW l \in Loops, NEW m, NEW f, Moving({l}, m, f)
    PROVE  \A x \in Loops : \A i \in DOMAIN Todos'[x] :
             /\ i \in Nat \ {0} /\ Shift(x, {l}) \in {0, 1} /\ Len(Todos[x]) \in Nat
             /\ \/ /\ i + Shift(x, {l}) \in DOMAIN Todos[x]
                   /\ Todos'[x][i] = Todos[x][i + Shift(x, {l})]
                   /\ ~(x = l /\ i + Shift(x, {l}) = 1)
                \/ x = m /\ i + Shift(x, {l}) = Len(Todos[x]) + 1 /\ Todos'[x][i] = f
<1> SUFFICES ASSUME NEW x \in Loops, NEW i \in DOMAIN Todos'[x]
             PROVE  /\ i \in Nat \ {0} /\ Shift(x, {l}) \in {0, 1} /\ Len(Todos[x]) \in Nat
                    /\ \/ /\ i + Shift(x, {l}) \in DOMAIN Todos[x]
                          /\ Todos'[x][i] = Todos[x][i + Shift(x, {l})]
                          /\ ~(x = l /\ i + Shift(x, {l}) = 1)
                       \/ x = m /\ i + Shift(x, {l}) = Len(Todos[x]) + 1 /\ Todos'[x][i] = f
  OBVIOUS
<1>1. i \in Nat \ {0} /\ (x = l => Shift(x, {l}) = 1) /\ Shift(x, {l}) \in {0, 1}
  BY Slots DEF Shift
<1>2. ~(x = l /\ i + Shift(x, {l}) = 1)
  BY <1>1
<1>3. Len(Todos[x]) \in Nat
  BY DEF Moving
<1> QED
  BY <1>1, <1>2, <1>3, Slots

(* A step that writes, reports or drops, for a connection that is open.     *)
LEMMA WorkLife ==
    ASSUME NEW c \in Conns, NEW ran, NEW m, NEW f, Moving(ran, m, f),
           TypeOK, TypeOK', SamePlace(c), Life(c), event_loop_[c] \in Loops,
           \A x \in Loops : x \in ran => /\ Todos[x][1].conn = c
                                         /\ Todos[x][1].op \in {"writeInLoop", "writeComplete"},
           m \in Loops => /\ m = event_loop_[c] /\ f.conn = c
                          /\ f.op \in {"writeInLoop", "writeComplete"},
           c \notin Building,
           \A x \in Loops : \A i \in DOMAIN Todos[x] : ~Is(Todos[x][i], "handleConnection", c),
           disconnected_[c] => disconnected_'[c],
           ievents_'[c] = ievents_[c] \/ \A x \in Loops : \A i \in DOMAIN Todos[x] : ~Closes(Todos[x][i], c)
    PROVE  Life(c)'
<1>1. \A x \in Loops : \A i \in DOMAIN Todos'[x] :
                /\ i \in Nat \ {0} /\ Shift(x, ran) \in {0, 1} /\ i + Shift(x, ran) \in Nat
                /\ \/ /\ i + Shift(x, ran) \in DOMAIN Todos[x]
                      /\ Todos'[x][i] = Todos[x][i + Shift(x, ran)]
                   \/ x = m /\ Todos'[x][i] = f
  BY Slots
<1>2. \A x \in Loops : \A i \in DOMAIN Todos[x] : Is(Todos[x][i], "closeConnection", c) =>
         /\ i - Shift(x, ran) \in DOMAIN Todos'[x]
         /\ Todos'[x][i - Shift(x, ran)] = Todos[x][i]
  BY Slots DEF Is
<1>3. Mapped(c)' <=> Mapped(c)
  BY DEF SamePlace, Mapped
<1>4. Registered(c)' <=> Registered(c)
  BY DEF SamePlace, Registered
<1>5. Placed(c)'
  BY <1>1, ReactorAssumption DEF SamePlace, Life, Placed
<1>6. Built(c)'
  BY DEF SamePlace, Built
<1>7. Entered(c)'
  <2>1. \A x \in Loops : \A i \in DOMAIN Todos'[x] : ~Is(Todos'[x][i], "handleConnection", c)
    BY <1>1 DEF Is
  <2> QED
    BY <2>1 DEF Entered
<1>8. Closed(c)'
  <2>1. \A x \in Loops : \A i \in DOMAIN Todos'[x] : Closes(Todos'[x][i], c) =>
          /\ i \in Nat /\ Shift(x, ran) \in {0, 1}
          /\ i + Shift(x, ran) \in DOMAIN Todos[x]
          /\ Todos'[x][i] = Todos[x][i + Shift(x, ran)]
          /\ Closes(Todos[x][i + Shift(x, ran)], c)
    BY <1>1 DEF Closes
  <2> QED
    BY <1>3, <1>4, <2>1 DEF Life, Closed
<1>9. Kept(c)'
  <2>1. ASSUME Registered(c)', ~Mapped(c)'
        PROVE \E i \in DOMAIN Todos'[event_loop_'[c]] : Is(Todos'[event_loop_'[c]][i], "closeConnection", c)
    <3>1. PICK j \in DOMAIN Todos[event_loop_[c]] : Is(Todos[event_loop_[c]][j], "closeConnection", c)
      BY <1>3, <1>4, <2>1 DEF Life, Kept
    <3>2. event_loop_'[c] = event_loop_[c]
      BY DEF SamePlace
    <3> QED
      BY <1>2, <3>1, <3>2
  <2> QED
    BY <1>3, <2>1 DEF SamePlace, Life, Kept
<1> QED
  BY <1>5, <1>6, <1>7, <1>8, <1>9 DEF Life

(* handleClose: polling stops and handleConnectionClose is posted.          *)
LEMMA BeginCloseLife ==
    ASSUME NEW c \in Conns, NEW f, Moving({}, Base, f), Is(f, "handleConnectionClose", c),
           TypeOK, TypeOK', SamePlace(c), Life(c),
           Registered(c), ievents_[c] # {},
           ievents_'[c] = {}, disconnected_'[c]
    PROVE  Life(c)'
<1>1. /\ c \notin Building
      /\ Mapped(c)
      /\ \A x \in Loops : \A i \in DOMAIN Todos[x] :
           ~Is(Todos[x][i], "handleConnection", c) /\ ~Closes(Todos[x][i], c)
  <2>1. \A x \in Loops : \A i \in DOMAIN Todos[x] :
           ~Is(Todos[x][i], "handleConnection", c) /\ ~Closes(Todos[x][i], c)
    BY DEF Life, Entered, Closed
  <2>2. c \notin Building
    BY DEF Life, Built
  <2>3. Mapped(c)
    BY <2>1 DEF Life, Kept, Registered, Is, Closes
  <2> QED
    BY <2>1, <2>2, <2>3
<1>2. \A x \in Loops : \A i \in DOMAIN Todos'[x] :
         \/ i \in DOMAIN Todos[x] /\ Todos'[x][i] = Todos[x][i]
         \/ x = Base /\ i = Len(Todos[Base]) + 1 /\ Todos'[x][i] = f
  BY PostSlots
<1>3. Mapped(c)' /\ Registered(c)'
  BY <1>1 DEF SamePlace, Mapped, Registered
<1>4. Placed(c)'
  BY <1>2, ReactorAssumption DEF SamePlace, Life, Placed, Is, Registered
<1>5. Built(c)'
  BY <1>1 DEF SamePlace, Built
<1>6. Entered(c)'
  <2>1. \A x \in Loops : \A i \in DOMAIN Todos'[x] : ~Is(Todos'[x][i], "handleConnection", c)
    BY <1>1, <1>2 DEF Is
  <2> QED
    BY <2>1 DEF Entered
<1>7. Closed(c)'
  <2>1. \A x \in Loops : \A i \in DOMAIN Todos'[x] : Closes(Todos'[x][i], c) =>
          x = Base /\ i = Len(Todos[Base]) + 1 /\ Todos'[x][i].op = "handleConnectionClose"
    BY <1>1, <1>2 DEF Is
  <2> QED
    BY <1>3, <2>1 DEF Closed
<1>8. Kept(c)'
  BY <1>3 DEF Kept
<1> QED
  BY <1>4, <1>5, <1>6, <1>7, <1>8 DEF Life

(* handleConnection: the handler is registered.                             *)
LEMMA ConnectLife ==
    ASSUME NEW c \in Conns, NEW l \in Loops, NEW m, NEW f, Moving({l}, m, f),
           1 \in DOMAIN Todos[l], Is(Todos[l][1], "handleConnection", c),
           m \in Loops => m = event_loop_[c] /\ Is(f, "writeInLoop", c),
           TypeOK, TypeOK', Life(c),
           event_loop_'[c] = event_loop_[c], fd'[c] = fd[c],
           \A x \in Loops : c \in handler_map_'[x] <=> x = event_loop_[c],
           \A g \in Fds : connections_'[g] = c <=> connections_[g] = c,
           c \in Building' <=> c \in Building,
           disconnected_'[c] <=> disconnected_[c]
    PROVE  Life(c)'
<1>1. /\ event_loop_[c] = l /\ Mapped(c) /\ c \notin Building
      /\ \A x \in Loops : \A i \in DOMAIN Todos[x] :
           Todos[x][i].conn = c => x = l /\ i = 1
  <2>1. event_loop_[c] = l
    BY DEF Life, Placed, Is
  <2>2. Mapped(c)
    BY DEF Life, Entered
  <2>3. \A x \in Loops : \A i \in DOMAIN Todos[x] : Todos[x][i].conn = c => x = l /\ i = 1
    BY DEF Life, Entered
  <2>4. c \notin Building
    BY DEF Life, Built, Is
  <2> QED
    BY <2>1, <2>2, <2>3, <2>4
<1>2. \A x \in Loops : \A i \in DOMAIN Todos'[x] :
         Todos'[x][i].conn = c => x = m /\ Todos'[x][i] = f
  <2> SUFFICES ASSUME NEW x \in Loops, NEW i \in DOMAIN Todos'[x], Todos'[x][i].conn = c
               PROVE  x = m /\ Todos'[x][i] = f
    OBVIOUS
  <2>1. \/ /\ i + Shift(x, {l}) \in DOMAIN Todos[x]
           /\ Todos'[x][i] = Todos[x][i + Shift(x, {l})]
           /\ ~(x = l /\ i + Shift(x, {l}) = 1)
        \/ x = m /\ Todos'[x][i] = f
    BY RanSlots
  <2> QED
    BY <1>1, <2>1
<1>3. Mapped(c)'
  BY <1>1 DEF Mapped
<1>4. Placed(c)'
  BY <1>1, <1>2, ReactorAssumption DEF Life, Placed, Is
<1>5. Built(c)'
  BY <1>1 DEF Built
<1>6. Entered(c)'
  <2>1. \A x \in Loops : \A i \in DOMAIN Todos'[x] : ~Is(Todos'[x][i], "handleConnection", c)
    BY <1>2 DEF Is
  <2> QED
    BY <2>1 DEF Entered
<1>7. Closed(c)'
  <2>1. \A x \in Loops : \A i \in DOMAIN Todos'[x] : ~Closes(Todos'[x][i], c)
    BY <1>2 DEF Is, Closes
  <2> QED
    BY <2>1 DEF Closed
<1>8. Kept(c)'
  BY <1>3 DEF Kept
<1> QED
  BY <1>4, <1>5, <1>6, <1>7, <1>8 DEF Life

(* accept and the constructor: a client without a connection gets one.      *)
LEMMA ConstructLife ==
    ASSUME NEW c \in Conns, Todos' = Todos, TypeOK, TypeOK', Life(c),
           event_loop_[c] = None, event_loop_'[c] \in Loops, fd'[c] \in Fds,
           ievents_'[c] = ievents_[c], disconnected_'[c] <=> disconnected_[c],
           \A x \in Loops : c \in handler_map_'[x] <=> c \in handler_map_[x],
           \A g \in Fds : connections_'[g] = c <=> connections_[g] = c,
           c \in Building'
    PROVE  Life(c)'
<1>1. None \notin Loops /\ None \notin Fds
  BY ReactorAssumption, ServerAssumption
<1>2. /\ fd[c] = None /\ ievents_[c] = {} /\ ~disconnected_[c]
      /\ \A x \in Loops : c \notin handler_map_[x]
      /\ \A g \in Fds : connections_[g] # c
  BY <1>1 DEF Life, Placed
<1>3. \A x \in Loops : \A i \in DOMAIN Todos[x] : Todos[x][i].conn # c
  <2> SUFFICES ASSUME NEW x \in Loops, NEW i \in DOMAIN Todos[x], Todos[x][i].conn = c PROVE FALSE
    OBVIOUS
  <2>1. Todos[x][i].op = "handleConnectionClose"
    BY <1>1 DEF Life, Placed
  <2>2. Registered(c)
    BY <2>1 DEF Life, Closed, Closes
  <2> QED
    BY <1>1, <2>2 DEF Registered
<1>4. Placed(c)'
  BY <1>1, <1>2, <1>3 DEF Placed
<1>5. Built(c)'
  BY <1>2, <1>3 DEF Built
<1>6. Entered(c)' /\ Closed(c)'
  BY <1>3 DEF Entered, Closed, Is, Closes
<1>7. Kept(c)'
  BY <1>2 DEF Kept, Registered
<1> QED
  BY <1>4, <1>5, <1>6, <1>7 DEF Life

(* handleNewCon: it enters the map and is handed to its loop.               *)
LEMMA EnterLife ==
    ASSUME NEW c \in Conns, NEW f, Moving({}, event_loop_[c], f), Is(f, "handleConnection", c),
           TypeOK, TypeOK', Life(c), c \in Building, c \notin Building',
           event_loop_'[c] = event_loop_[c], fd'[c] = fd[c],
           ievents_'[c] = ievents_[c], disconnected_'[c] <=> disconnected_[c],
           \A x \in Loops : c \in handler_map_'[x] <=> c \in handler_map_[x],
           \A g \in Fds : connections_'[g] = c <=> g = fd[c]
    PROVE  Life(c)'
<1>1. /\ event_loop_[c] \in Loops /\ ievents_[c] = {} /\ ~disconnected_[c]
      /\ \A x \in Loops : c \notin handler_map_[x]
      /\ \A x \in Loops : \A i \in DOMAIN Todos[x] : Todos[x][i].conn # c
  BY DEF Life, Built
<1>2. fd[c] \in Fds
  BY <1>1, ReactorAssumption DEF Life, Placed, TypeOK
<1>3. \A x \in Loops : \A i \in DOMAIN Todos'[x] : Todos'[x][i].conn = c =>
         x = event_loop_[c] /\ i = Len(Todos[x]) + 1 /\ Todos'[x][i] = f
  BY <1>1, PostSlots
<1>4. Mapped(c)'
  BY <1>2 DEF Mapped
<1>5. Placed(c)'
  BY <1>1, <1>2, <1>3, ReactorAssumption, ServerAssumption DEF Placed, Is
<1>6. Built(c)'
  BY DEF Built
<1>7. Entered(c)'
  <2>1. \A x \in Loops : \A i \in DOMAIN Todos'[x] : Is(Todos'[x][i], "handleConnection", c) =>
          x = event_loop_[c] /\ i = Len(Todos[event_loop_[c]]) + 1
    BY <1>3 DEF Is
  <2>2. \A x \in Loops : \A i \in DOMAIN Todos'[x] : Todos'[x][i].conn = c =>
          x = event_loop_[c] /\ i = Len(Todos[event_loop_[c]]) + 1
    BY <1>3
  <2> QED
    BY <1>1, <1>4, <2>1, <2>2 DEF Entered
<1>8. Closed(c)'
  BY <1>3 DEF Closed, Closes, Is
<1>9. Kept(c)'
  BY <1>4 DEF Kept
<1> QED
  BY <1>5, <1>6, <1>7, <1>8, <1>9 DEF Life

(* handleConnectionClose: it leaves the map, and closeConnection follows.   *)
LEMMA EraseLife ==
    ASSUME NEW c \in Conns, NEW l \in Loops, NEW f, Moving({l}, event_loop_[c], f),
           Is(f, "closeConnection", c),
           1 \in DOMAIN Todos[l], Is(Todos[l][1], "handleConnectionClose", c),
           TypeOK, TypeOK', Life(c),
           event_loop_'[c] = event_loop_[c], fd'[c] = fd[c],
           ievents_'[c] = ievents_[c], disconnected_'[c] <=> disconnected_[c],
           \A x \in Loops : c \in handler_map_'[x] <=> c \in handler_map_[x],
           \A g \in Fds : connections_'[g] # c,
           c \in Building' <=> c \in Building
    PROVE  Life(c)'
<1>1. /\ Registered(c) /\ ievents_[c] = {} /\ disconnected_[c]
      /\ \A x \in Loops : \A i \in DOMAIN Todos[x] : Closes(Todos[x][i], c) => x = l /\ i = 1
  BY DEF Life, Closed, Closes, Is
<1>2. \A x \in Loops : \A i \in DOMAIN Todos[x] : ~Is(Todos[x][i], "handleConnection", c)
  BY <1>1 DEF Life, Entered, Registered
<1>3. c \notin Building
  BY <1>1 DEF Life, Built, Registered
<1>4. \A x \in Loops : \A i \in DOMAIN Todos'[x] :
        \/ x = event_loop_[c] /\ i + Shift(x, {l}) = Len(Todos[x]) + 1 /\ Todos'[x][i] = f
        \/ /\ i + Shift(x, {l}) \in DOMAIN Todos[x] /\ Todos'[x][i] = Todos[x][i + Shift(x, {l})]
           /\ ~Closes(Todos'[x][i], c)
  <2> SUFFICES ASSUME NEW x \in Loops, NEW i \in DOMAIN Todos'[x]
               PROVE  \/ x = event_loop_[c] /\ i + Shift(x, {l}) = Len(Todos[x]) + 1 /\ Todos'[x][i] = f
                      \/ /\ i + Shift(x, {l}) \in DOMAIN Todos[x] /\ Todos'[x][i] = Todos[x][i + Shift(x, {l})]
                         /\ ~Closes(Todos'[x][i], c)
    OBVIOUS
  <2>1. \/ /\ i + Shift(x, {l}) \in DOMAIN Todos[x]
           /\ Todos'[x][i] = Todos[x][i + Shift(x, {l})]
           /\ ~(x = l /\ i + Shift(x, {l}) = 1)
        \/ x = event_loop_[c] /\ i + Shift(x, {l}) = Len(Todos[x]) + 1 /\ Todos'[x][i] = f
    BY RanSlots
  <2> QED
    BY <1>1, <2>1
<1>5. Registered(c)' /\ ~Mapped(c)'
  BY <1>1 DEF Registered, Mapped
<1>6. Placed(c)'
  BY <1>1, <1>4, ReactorAssumption DEF Life, Placed, Is
<1>7. Built(c)'
  BY <1>3 DEF Built
<1>8. Entered(c)'
  <2>1. \A x \in Loops : \A i \in DOMAIN Todos'[x] : ~Is(Todos'[x][i], "handleConnection", c)
    BY <1>2, <1>4 DEF Is
  <2> QED
    BY <2>1 DEF Entered
<1>9. Closed(c)'
  <2>1. \A x \in Loops : \A i \in DOMAIN Todos'[x] : Closes(Todos'[x][i], c) =>
          /\ i \in Nat /\ Shift(x, {l}) \in {0, 1} /\ Len(Todos[x]) \in Nat
          /\ x = event_loop_[c] /\ i + Shift(x, {l}) = Len(Todos[x]) + 1
          /\ Todos'[x][i].op = "closeConnection"
    BY <1>4, RanSlots DEF Is
  <2> QED
    BY <1>1, <1>5, <2>1 DEF Closed
<1>10. Kept(c)'
  <2>1. event_loop_[c] \in Loops
    BY <1>1 DEF Registered
  <2> QED
    BY <1>1, <1>5, <2>1, Slots DEF Kept
<1> QED
  BY <1>6, <1>7, <1>8, <1>9, <1>10 DEF Life

(* closeConnection: the handler leaves the poller.                          *)
LEMMA RemoveLife ==
    ASSUME NEW c \in Conns, NEW l \in Loops, NEW f, Moving({l}, None, f),
           1 \in DOMAIN Todos[l], Is(Todos[l][1], "closeConnection", c),
           TypeOK, TypeOK', Life(c),
           event_loop_'[c] = event_loop_[c], fd'[c] = fd[c],
           ievents_'[c] = ievents_[c], disconnected_'[c] <=> disconnected_[c],
           \A x \in Loops : c \notin handler_map_'[x],
           \A g \in Fds : connections_'[g] = c <=> connections_[g] = c,
           c \in Building' <=> c \in Building
    PROVE  Life(c)'
<1>1. /\ Registered(c) /\ ievents_[c] = {} /\ disconnected_[c]
      /\ \A x \in Loops : \A i \in DOMAIN Todos[x] : Closes(Todos[x][i], c) => x = l /\ i = 1
  BY DEF Life, Closed, Closes, Is
<1>2. \A x \in Loops : \A i \in DOMAIN Todos[x] : ~Is(Todos[x][i], "handleConnection", c)
  BY <1>1 DEF Life, Entered, Registered
<1>3. c \notin Building
  BY <1>1 DEF Life, Built, Registered
<1>4. \A x \in Loops : \A i \in DOMAIN Todos'[x] :
           /\ i + Shift(x, {l}) \in DOMAIN Todos[x] /\ Todos'[x][i] = Todos[x][i + Shift(x, {l})]
           /\ ~Closes(Todos'[x][i], c)
  BY <1>1, RanSlots, ReactorAssumption
<1>5. Placed(c)'
  BY <1>4 DEF Life, Placed
<1>6. Built(c)'
  BY <1>3 DEF Built
<1>7. Entered(c)'
  <2>1. \A x \in Loops : \A i \in DOMAIN Todos'[x] : ~Is(Todos'[x][i], "handleConnection", c)
    BY <1>2, <1>4 DEF Is
  <2> QED
    BY <2>1 DEF Entered
<1>8. Closed(c)'
  BY <1>4 DEF Closed
<1>9. Kept(c)'
  BY <1>1 DEF Kept, Registered
<1> QED
  BY <1>5, <1>6, <1>7, <1>8, <1>9 DEF Life

------------------------------------------------------------------------------
(* The threads and the backlog                                              *)

(* Where the thread of a loop is says what it holds.                        *)
ThreadInv ==
    \A l \in Loops :
      /\ at[l] \notin {"run", "dec", "pop"} => batch[l] = <<>>
      /\ at[l] = "dec" => Head(batch[l]).op = "closeConnection"
      /\ ess[l] \subseteq handler_map_[l] \cup {Listener}
      /\ at[l] \in {"wait", "run", "dec", "pop"} => ess[l] = {}
      /\ at[l] = "write" => cur[l] \in handler_map_[l]
      /\ at[l] = "inc" => l = Base /\ cur[l] \in Conns
      /\ at[l] \notin {"write", "inc"} => cur[l] = None

(* A client waits in the backlog once, and has no connection yet.           *)
BacklogInv ==
    /\ \A i \in DOMAIN backlog :
         peer[backlog[i]] # "none" /\ event_loop_[backlog[i]] = None
    /\ \A i, j \in DOMAIN backlog : backlog[i] = backlog[j] => i = j
    /\ \A c \in Conns : peer[c] = "none" => event_loop_[c] = None

(* Every connection is in order.                                            *)
LifeInv == \A c \in Conns : Life(c)

(* The head of a sequence stays the head when another follows it.           *)
LEMMA ConcatHead ==
    ASSUME NEW S, NEW a \in Seq(S), NEW b \in Seq(S), a # <<>>
    PROVE  1 \in DOMAIN (a \o b) /\ (a \o b)[1] = Head(a)
<1>1. Len(a) \in Nat \ {0} /\ Len(b) \in Nat
  OBVIOUS
<1>2. 1 \in 1..(Len(a) + Len(b)) /\ 1 <= Len(a)
  BY <1>1
<1> QED
  BY <1>1, <1>2

(* The functor a loop runs is the first of those it has to run.             *)
LEMMA HeadTodo ==
    ASSUME TypeOK, BatchInv, NEW l \in Loops, at[l] \in {"run", "dec"}, batch[l] # <<>>
    PROVE  1 \in DOMAIN Todos[l] /\ Todos[l][1] = Head(batch[l])
<1>1. batch[l] \in Seq(Functors) /\ pending[l] \in Seq(Functors)
  BY DEF TypeOK, ReactorTypeOK
<1>2. Todos[l] = batch[l] \o pending[l]
  BY DEF Todos, Todo
<1>3. 1 \in DOMAIN (batch[l] \o pending[l]) /\ (batch[l] \o pending[l])[1] = Head(batch[l])
  <2>1. Len(batch[l]) \in Nat \ {0} /\ Len(pending[l]) \in Nat /\ Head(batch[l]) = batch[l][1]
    BY <1>1
  <2>2. DOMAIN (batch[l] \o pending[l]) = 1..(Len(batch[l]) + Len(pending[l]))
    BY <1>1
  <2> QED
    BY <1>1, <2>1, <2>2, ConcatHead
<1> QED
  BY <1>2, <1>3

(* Every step keeps threads consistent with what they hold.                 *)
LEMMA ThreadStep ==
    ASSUME TypeOK, TypeOK', BatchInv, ThreadInv, LifeInv, [Next]_vars
    PROVE  ThreadInv'
<1> USE DEF ThreadInv, TypeOK, ReactorTypeOK
<1>1. ASSUME NEW l \in Loops, ReactorStep(l) PROVE ThreadInv'
  <2>1. CASE Wait(l, Polled, ListenerReady(l))
    BY <2>1 DEF Wait, ListenerReady
  <2>2. CASE PopAll(l)
    BY <2>2 DEF PopAll
  <2>3. CASE PopFunctor(l)
    BY <2>3 DEF PopFunctor
  <2>4. CASE EndRun(l)
    BY <2>4 DEF EndRun
  <2> QED
    BY <1>1, <2>1, <2>2, <2>3, <2>4 DEF ReactorStep
<1>2. ASSUME NEW l \in Loops, NEW c \in Conns, TcpStep(l, c) PROVE ThreadInv'
  <2>1. CASE TakeHandler(l, c)
    BY <2>1, ReactorAssumption DEF TakeHandler
  <2>2. CASE LeaveHandler(l, c)
    BY <2>2 DEF LeaveHandler
  <2>3. CASE HandleConnection(l, c)
    BY <2>3 DEF HandleConnection, Runs, Returns
  <2>4. CASE at[l] = "run" /\ Returns(l) /\ UNCHANGED <<cur, ess, batch, handler_map_>>
    BY <2>4 DEF Returns
  <2> QED
    BY <1>2, <2>1, <2>2, <2>3, <2>4
       DEF TcpStep, HandleReadMessage, HandleReadClose, SkipRead, HandleWriteSome,
           HandleWriteFails, HandleWriteDies, SkipWrite, WriteDropped, WriteNow,
           WriteDies, WriteComplete, Runs
<1>3. ASSUME NEW l \in Loops, NEW c \in Conns, CloseStep(l, c) PROVE ThreadInv'
  <2>1. CASE HandleConnectionClose(l, c)
    BY <2>1 DEF HandleConnectionClose, Runs, Returns
  <2>2. CASE CloseConnectionLoad(l, c)
    BY <2>2 DEF CloseConnectionLoad, Runs, Functor
  <2>3. CASE CloseConnection(l, c)
    <3>1. batch[l] # <<>> /\ Head(batch[l]).op = "closeConnection" /\ Head(batch[l]).conn = c
      BY <2>3 DEF CloseConnection, BatchInv
    <3>2. 1 \in DOMAIN Todos[l] /\ Todos[l][1] = Head(batch[l])
      BY <2>3, <3>1, HeadTodo DEF CloseConnection
    <3>3. event_loop_[c] = l
      BY <3>1, <3>2 DEF LifeInv, Life, Placed
    <3> QED
      BY <2>3, <3>3 DEF CloseConnection, Returns
  <2> QED
    BY <1>3, <2>1, <2>2, <2>3 DEF CloseStep
<1>4. CASE AcceptStep
  <2>0. Base \in Loops
    BY DEF Loops
  <2>1. CASE StartAccept
    BY <2>0, <2>1 DEF StartAccept
  <2>2. ASSUME NEW c \in Conns, AcceptDeny(c) PROVE ThreadInv'
    BY <2>0, <2>2 DEF AcceptDeny, Accepts
  <2>3. ASSUME NEW c \in Conns, AcceptConn(c) PROVE ThreadInv'
    BY <2>0, <2>3 DEF AcceptConn, Accepts
  <2>4. ASSUME NEW c \in Conns, HandleNewCon(c) PROVE ThreadInv'
    BY <2>0, <2>4 DEF HandleNewCon
  <2>5. CASE EndAccept
    BY <2>0, <2>5 DEF EndAccept
  <2> QED
    BY <1>4, <2>1, <2>2, <2>3, <2>4, <2>5 DEF AcceptStep
<1>5. CASE UNCHANGED reactorVars
  BY <1>5 DEF reactorVars
<1> QED
  BY <1>1, <1>2, <1>3, <1>4, <1>5 DEF Next, LoopStep, Client, ClientConnect, vars

(* Every step keeps the backlog in order.                                   *)
LEMMA BacklogStep ==
    ASSUME TypeOK, TypeOK', BacklogInv, [Next]_vars
    PROVE  BacklogInv'
<1> USE DEF BacklogInv
<1>0. /\ backlog \in Seq(Conns) /\ peer \in [Conns -> PeerStates]
      /\ event_loop_ \in [Conns -> Loops \cup {None}]
  BY DEF TypeOK, TcpTypeOK
<1>1. CASE UNCHANGED <<backlog, event_loop_, peer>>
  BY <1>1
<1>2. ASSUME NEW c \in Conns, ClientConnect(c) PROVE BacklogInv'
  <2>1. /\ peer' = [peer EXCEPT ![c] = "open"] /\ backlog' = Append(backlog, c)
        /\ event_loop_' = event_loop_ /\ peer[c] = "none"
    BY <1>2 DEF ClientConnect, tcpVars
  <2>2. /\ DOMAIN backlog' = 1..(Len(backlog) + 1)
        /\ DOMAIN backlog = 1..Len(backlog) /\ Len(backlog) \in Nat
        /\ \A i \in DOMAIN backlog : backlog'[i] = backlog[i] /\ backlog[i] # c
        /\ backlog'[Len(backlog) + 1] = c
    BY <1>0, <2>1
  <2> QED
    BY <1>0, <2>1, <2>2
<1>3. ASSUME NEW c \in Conns, Accepts(c),
             \A d \in Conns \ {c} : event_loop_'[d] = event_loop_[d] /\ peer'[d] = peer[d],
             peer'[c] # "none"
      PROVE  BacklogInv'
  <2>1. /\ DOMAIN backlog = 1..Len(backlog) /\ Len(backlog) \in Nat \ {0} /\ c = backlog[1]
        /\ DOMAIN backlog' = 1..(Len(backlog) - 1)
        /\ \A i \in DOMAIN backlog' : backlog'[i] = backlog[i + 1]
    BY <1>0, <1>3 DEF Accepts
  <2>2. \A i \in DOMAIN backlog' : i + 1 \in DOMAIN backlog /\ i + 1 # 1 /\ i \in Nat
    BY <2>1
  <2>3. \A i \in DOMAIN backlog' : backlog'[i] # c /\ backlog'[i] \in Conns
    BY <1>0, <2>1, <2>2
  <2>4. \A i, j \in DOMAIN backlog' : backlog'[i] = backlog'[j] => i = j
    BY <2>1, <2>2
  <2>5. \A i \in DOMAIN backlog' : peer'[backlog'[i]] # "none" /\ event_loop_'[backlog'[i]] = None
    BY <1>3, <2>1, <2>2, <2>3
  <2> QED
    BY <1>3, <2>4, <2>5
<1>4. ASSUME NEW c \in Conns, AcceptDeny(c) PROVE BacklogInv'
  BY <1>0, <1>3, <1>4 DEF AcceptDeny, tcpVars
<1>5. ASSUME NEW c \in Conns, AcceptConn(c) PROVE BacklogInv'
  <2>1. Accepts(c) /\ c = backlog[1] /\ 1 \in DOMAIN backlog
    BY <1>0, <1>5 DEF AcceptConn, Accepts
  <2> QED
    BY <1>0, <1>3, <1>5, <2>1 DEF AcceptConn, kernelVars
<1>6. ASSUME NEW c \in Conns, ClientStep(c), UNCHANGED <<tcpVars, serverVars>> PROVE BacklogInv'
  BY <1>0, <1>6 DEF ClientStep, ClientSend, ClientFin, ClientReset, ClientRead, tcpVars,
     serverVars
<1>7. ASSUME NEW l \in Loops, NEW c \in Conns, TcpStep(l, c), UNCHANGED serverVars
      PROVE UNCHANGED <<backlog, event_loop_, peer>>
  BY <1>7 DEF TcpStep, HandleReadMessage, HandleReadClose, SkipRead, HandleWriteSome,
           HandleWriteFails, HandleWriteDies, SkipWrite, WriteDropped, WriteNow, HandleConnection,
           WriteDies, WriteComplete, tcpVars, kernelVars, serverVars
<1>8. ASSUME NEW l \in Loops, NEW c \in Conns, CloseStep(l, c)
      PROVE UNCHANGED <<backlog, event_loop_, peer>>
  BY <1>8 DEF CloseStep, HandleConnectionClose, CloseConnectionLoad, CloseConnection, tcpVars,
     kernelVars
<1>9. ASSUME AcceptStep
      PROVE UNCHANGED <<backlog, event_loop_, peer>> \/ \E c \in Conns : AcceptDeny(c) \/ AcceptConn(c)
  BY <1>9 DEF AcceptStep, StartAccept, HandleNewCon, EndAccept, tcpVars, kernelVars, serverVars
<1>10. CASE UNCHANGED <<kernelVars, tcpVars, serverVars>>
  BY <1>1, <1>10 DEF kernelVars, tcpVars, serverVars
<1> QED
  BY <1>1, <1>2, <1>4, <1>5, <1>6, <1>7, <1>8, <1>9, <1>10 DEF Next, LoopStep, ReactorStep,
     Client, vars

------------------------------------------------------------------------------
(* From an action to the life it changes                                    *)

(* The step posts f to m, or nothing if m is None.                          *)
Posts(m, f) ==
    \/ m = None /\ pending' = pending
    \/ m \in Loops /\ pending' = AddFunctor(m, f)

(* A step moves the queues by what it posts and by what has run.            *)
LEMMA MovingStep ==
    ASSUME TypeOK, TypeOK', BatchInv, BatchInv', NEW ran, NEW m, NEW f \in Functors,
           batch' = batch,
           \A x \in Loops : x \notin ran => (at'[x] = "pop" <=> at[x] = "pop"),
           \A x \in Loops : x \in ran => at[x] # "pop" /\ at'[x] = "pop" /\ batch[x] # <<>>,
           Posts(m, f)
    PROVE  Moving(ran, m, f)
<1>1. Moves(ran, m, f)
  BY MovesStep DEF Posts
<1>2. Todos \in [Loops -> Seq(Functors)]
  BY TodosType
<1>3. (Todos \in [Loops -> Seq(Functors)])'
  BY TodosType, PTL
<1> QED
  BY <1>1, <1>2, <1>3, MoveFacts DEF Moving

(* A step outside the functors takes none from the queues.                  *)
LEMMA HandlerMoves ==
    ASSUME TypeOK, TypeOK', BatchInv, BatchInv', NEW l \in Loops, NEW p, NEW m,
           NEW f \in Functors, batch' = batch, at[l] # "pop", p # "pop",
           at' = [at EXCEPT ![l] = p], Posts(m, f)
    PROVE  Moving({}, m, f)
<1>1. \A x \in Loops : at'[x] = "pop" <=> at[x] = "pop"
  BY DEF TypeOK, ReactorTypeOK
<1> QED
  BY <1>1, MovingStep

(* A functor that returns leaves its queue.                                 *)
LEMMA FunctorMoves ==
    ASSUME TypeOK, TypeOK', BatchInv, BatchInv', NEW l \in Loops, NEW m,
           NEW f \in Functors, batch' = batch, at[l] \in {"run", "dec"}, batch[l] # <<>>,
           Returns(l), Posts(m, f)
    PROVE  /\ Moving({l}, m, f)
           /\ 1 \in DOMAIN Todos[l]
           /\ Todos[l][1] = Head(batch[l])
<1>1. \A x \in Loops : x # l => (at'[x] = "pop" <=> at[x] = "pop")
  BY DEF TypeOK, ReactorTypeOK, Returns
<1>2. at[l] # "pop" /\ at'[l] = "pop"
  BY DEF TypeOK, ReactorTypeOK, Returns
<1>3. Moving({l}, m, f)
  BY <1>1, <1>2, MovingStep
<1> QED
  BY <1>3, HeadTodo

(* A step that neither enters nor leaves the constructor.                   *)
LEMMA SameBuilding ==
    ASSUME TypeOK, NEW l \in Loops, NEW p, at[l] # "inc", p # "inc",
           at' = [at EXCEPT ![l] = p], \A x \in Loops \ {l} : cur'[x] = cur[x]
    PROVE  Building' = Building
<1>1. Base \in Loops
  BY DEF Loops
<1> QED
  BY <1>1 DEF Building, TypeOK, ReactorTypeOK

(* A step about connection c keeps every life if it keeps that of c.        *)
LEMMA WholeLife ==
    ASSUME TypeOK, TypeOK', LifeInv, NEW c \in Conns, NEW ran, NEW m, NEW f, Moving(ran, m, f),
           \A x \in Loops : x \in ran => Todos[x][1].conn = c,
           m \in Loops => f.conn = c,
           \A d \in Conns \ {c} : SameConn(d),
           Life(c)'
    PROVE  LifeInv'
<1>1. ASSUME NEW d \in Conns \ {c} PROVE Life(d)'
  BY OtherLife DEF LifeInv
<1> QED
  BY <1>1 DEF LifeInv

(* The state that a life is about, besides the queues.                      *)
lifeVars == <<handler_map_, ievents_, disconnected_, event_loop_, fd, connections_>>

(* A step that touches none of it keeps every life.                         *)
LEMMA IdleLife ==
    ASSUME LifeInv, Todos' = Todos, Building' = Building, UNCHANGED lifeVars
    PROVE  LifeInv'
<1> SUFFICES ASSUME NEW c \in Conns PROVE Life(c)'
  BY DEF LifeInv
<1> USE DEF lifeVars
<1>1. Life(c)
  BY DEF LifeInv
<1>2. Placed(c)' /\ Built(c)'
  BY <1>1 DEF Life, Placed, Built
<1>3. Entered(c)' /\ Closed(c)'
  BY <1>1 DEF Life, Entered, Closed, Mapped, Registered
<1>4. Kept(c)'
  BY <1>1 DEF Life, Kept, Mapped, Registered
<1> QED
  BY <1>2, <1>3, <1>4 DEF Life

(* pop_all and pop move functors, and take none of those still to run.      *)
LEMMA ReactorTodos ==
    ASSUME TypeOK, BatchInv, ThreadInv, NEW l \in Loops, ReactorStep(l)
    PROVE  Todos' = Todos
<1>0. /\ batch \in [Loops -> Seq(Functors)] /\ pending \in [Loops -> Seq(Functors)]
      /\ at \in [Loops -> Places]
  BY DEF TypeOK, ReactorTypeOK
<1>1. \A x \in Loops : Todo(x)' = Todo(x)
  <2>1. CASE Wait(l, Polled, ListenerReady(l))
    BY <1>0, <2>1 DEF Wait, Todo
  <2>2. CASE PopAll(l)
    <3>1. batch[l] = <<>> /\ at[l] # "pop"
      BY <2>2 DEF PopAll, ThreadInv
    <3>2. Todo(l)' = pending[l] \o <<>> /\ Todo(l) = <<>> \o pending[l]
      BY <1>0, <2>2, <3>1 DEF PopAll, Todo
    <3>3. Todo(l)' = Todo(l)
      BY <1>0, <3>2, ConcatEmptySeq
    <3> QED
      BY <1>0, <2>2, <3>3 DEF PopAll, Todo
  <2>3. CASE PopFunctor(l)
    BY <1>0, <2>3 DEF PopFunctor, Todo
  <2>4. CASE EndRun(l)
    BY <1>0, <2>4 DEF EndRun, Todo
  <2> QED
    BY <2>1, <2>2, <2>3, <2>4 DEF ReactorStep
<1> QED
  BY <1>1 DEF Todos

(* The steps of the loop itself keep every life.                            *)
LEMMA ReactorLife ==
    ASSUME TypeOK, TypeOK', BatchInv, BatchInv', ThreadInv, LifeInv,
           NEW l \in Loops, ReactorStep(l)
    PROVE  LifeInv'
<1>1. Todos' = Todos
  BY ReactorTodos
<1>2. Building' = Building
  BY DEF ReactorStep, Wait, PopAll, PopFunctor, EndRun, Building, Loops, TypeOK, ReactorTypeOK
<1>3. UNCHANGED lifeVars
  BY DEF ReactorStep, Wait, PopAll, PopFunctor, EndRun, lifeVars, tcpVars, serverVars
<1> QED
  BY <1>1, <1>2, <1>3, IdleLife

(* A connection whose handler asks for events is open.                      *)
LEMMA ActiveFacts ==
    ASSUME NEW c \in Conns, Life(c), Registered(c), ievents_[c] # {}
    PROVE  /\ c \notin Building
           /\ Mapped(c)
           /\ \A x \in Loops : \A i \in DOMAIN Todos[x] :
                ~Is(Todos[x][i], "handleConnection", c) /\ ~Closes(Todos[x][i], c)
<1>1. \A x \in Loops : \A i \in DOMAIN Todos[x] :
         ~Is(Todos[x][i], "handleConnection", c) /\ ~Closes(Todos[x][i], c)
  BY DEF Life, Entered, Closed
<1>2. c \notin Building
  BY DEF Life, Built
<1>3. Mapped(c)
  BY <1>1 DEF Life, Kept, Registered, Is, Closes
<1> QED
  BY <1>1, <1>2, <1>3

(* A connection with a write functor at the head of its loop is open or     *)
(* closing.                                                                 *)
LEMMA WriterFacts ==
    ASSUME NEW c \in Conns, Life(c), NEW l \in Loops, 1 \in DOMAIN Todos[l],
           Todos[l][1].conn = c, Todos[l][1].op \in {"writeInLoop", "writeComplete"}
    PROVE  /\ c \notin Building
           /\ event_loop_[c] = l
           /\ \A x \in Loops : \A i \in DOMAIN Todos[x] : ~Is(Todos[x][i], "handleConnection", c)
           /\ ~disconnected_[c] =>
                /\ Mapped(c)
                /\ \A x \in Loops : \A i \in DOMAIN Todos[x] : ~Closes(Todos[x][i], c)
<1>1. event_loop_[c] = l
  BY DEF Life, Placed
<1>2. c \notin Building
  BY DEF Life, Built
<1>3. ASSUME NEW x \in Loops, NEW i \in DOMAIN Todos[x], Is(Todos[x][i], "handleConnection", c)
      PROVE FALSE
  <2>1. x = l /\ i = 1
    BY <1>3 DEF Life, Entered
  <2> QED
    BY <1>3, <2>1 DEF Is
<1>4. ASSUME ~disconnected_[c]
      PROVE  Mapped(c) /\ \A x \in Loops : \A i \in DOMAIN Todos[x] : ~Closes(Todos[x][i], c)
  BY <1>1, <1>2, <1>4, ReactorAssumption DEF Life, Kept, Closed
<1> QED
  BY <1>1, <1>2, <1>3, <1>4

(* A callback posts a writeInLoop to the loop of its connection, or         *)
(* nothing.                                                                 *)
LEMMA CallBackPosts ==
    ASSUME NEW c \in Conns, NEW R, CallBack(c, R), event_loop_[c] \in Loops
    PROVE  \E m : (m \in Loops => m = event_loop_[c]) /\ Posts(m, Functor("writeInLoop", c))
<1>1. CASE pending' = pending
  <2>1. Posts(None, Functor("writeInLoop", c)) /\ None \notin Loops
    BY <1>1, ReactorAssumption DEF Posts
  <2> QED
    BY <2>1
<1>2. CASE pending' = AddFunctor(event_loop_[c], Functor("writeInLoop", c))
  BY <1>2 DEF Posts
<1> QED
  BY <1>1, <1>2 DEF CallBack

(* The step leaves the events and the flag of the other connections alone.  *)
OthersPoll(c) ==
    \A d \in Conns \ {c} :
      ievents_'[d] = ievents_[d] /\ (disconnected_'[d] <=> disconnected_[d])

(* The other connections, when a step of c changes only what is c's own.    *)
LEMMA OthersSame ==
    ASSUME TypeOK, TypeOK', NEW c \in Conns,
           event_loop_' = event_loop_, fd' = fd, connections_' = connections_, Building' = Building,
           OthersPoll(c),
           \A x \in Loops : \A d \in Conns \ {c} : d \in handler_map_'[x] <=> d \in handler_map_[x]
    PROVE  \A d \in Conns \ {c} : SameConn(d)
  BY DEF SameConn, SamePlace, OthersPoll

(* A handler's step, and a functor's, with what they leave alone.           *)
HandlerStep(l, c) ==
    /\ TakeHandler(l, c) \/ LeaveHandler(l, c)
    /\ UNCHANGED <<event_loop_, fd, connections_>>

(* A step of a handler happens on the loop its connection is registered     *)
(* with.                                                                    *)
LEMMA HandlerFacts ==
    ASSUME TypeOK, TypeOK', BatchInv, BatchInv', ThreadInv, LifeInv,
           NEW l \in Loops, NEW c \in Conns, HandlerStep(l, c)
    PROVE  /\ Registered(c) /\ event_loop_[c] = l
           /\ Building' = Building
           /\ SamePlace(c)
           /\ \A m : \A f \in Functors : Posts(m, f) => Moving({}, m, f)
           /\ batch' = batch /\ handler_map_' = handler_map_
<1>1. c \in handler_map_[l]
  BY ReactorAssumption DEF HandlerStep, TakeHandler, LeaveHandler, ThreadInv
<1>2. Registered(c) /\ event_loop_[c] = l
  BY <1>1 DEF LifeInv, Life, Placed, Registered
<1>3. PICK p \in {"write", "dispatch"} : at' = [at EXCEPT ![l] = p]
  BY DEF HandlerStep, TakeHandler, LeaveHandler
<1>4. at[l] \in {"write", "dispatch"} /\ batch' = batch /\ handler_map_' = handler_map_
  BY DEF HandlerStep, TakeHandler, LeaveHandler
<1>5. \A x \in Loops \ {l} : cur'[x] = cur[x]
  BY DEF HandlerStep, TakeHandler, LeaveHandler, TypeOK, ReactorTypeOK
<1>6. Building' = Building
  BY <1>3, <1>4, <1>5, SameBuilding
<1>7. SamePlace(c)
  BY <1>4, <1>6 DEF SamePlace, HandlerStep
<1>8. ASSUME NEW m, NEW f \in Functors, Posts(m, f) PROVE Moving({}, m, f)
  BY <1>3, <1>4, <1>8, HandlerMoves
<1> QED
  BY <1>2, <1>4, <1>6, <1>7, <1>8

(* A functor that writes for c, or reports that all is written.             *)
Writing(f, c) == f \in Functors /\ f.conn = c /\ f.op \in {"writeInLoop", "writeComplete"}

(* A handler's step that posts nothing or a write functor, and may drop     *)
(* events or mark the connection disconnected.                              *)
LEMMA HandlerWork ==
    ASSUME TypeOK, TypeOK', BatchInv, BatchInv', ThreadInv, LifeInv,
           NEW l \in Loops, NEW c \in Conns, HandlerStep(l, c),
           NEW m, NEW f, Writing(f, c), Posts(m, f),
           m \in Loops => m = event_loop_[c],
           OthersPoll(c), disconnected_[c] => disconnected_'[c],
           \/ ievents_[c] # {}
           \/ m \notin Loops /\ ievents_'[c] = {} /\ (disconnected_'[c] <=> disconnected_[c])
    PROVE  LifeInv'
<1>0. f \in Functors /\ f.conn = c /\ f.op \in {"writeInLoop", "writeComplete"}
  BY DEF Writing
<1>1. /\ Registered(c) /\ event_loop_[c] = l
      /\ Building' = Building /\ SamePlace(c)
      /\ Moving({}, m, f)
      /\ handler_map_' = handler_map_
  BY <1>0, HandlerFacts
<1>2. CASE ievents_[c] = {}
  <2>1. m \notin Loops
    BY <1>2
  <2>2. ASSUME NEW d \in Conns PROVE SameConn(d)
    BY <1>1, <1>2 DEF HandlerStep, SameConn, SamePlace, OthersPoll
  <2>3. ASSUME NEW d \in Conns PROVE Life(d)'
    BY <1>1, <2>1, <2>2, OtherLife DEF LifeInv
  <2> QED
    BY <2>3 DEF LifeInv
<1>3. CASE ievents_[c] # {}
  <2>1. /\ c \notin Building
        /\ \A x \in Loops : \A i \in DOMAIN Todos[x] :
             ~Is(Todos[x][i], "handleConnection", c) /\ ~Closes(Todos[x][i], c)
    BY <1>1, <1>3, ActiveFacts DEF LifeInv
  <2>2. Life(c)'
    BY <1>0, <1>1, <2>1, WorkLife DEF LifeInv
  <2>3. \A d \in Conns \ {c} : SameConn(d)
    BY <1>1, OthersSame DEF HandlerStep
  <2> QED
    BY <1>0, <1>1, <2>2, <2>3, WholeLife
<1> QED
  BY <1>2, <1>3

(* handleClose by a handler.                                                *)
LEMMA HandlerClose ==
    ASSUME TypeOK, TypeOK', BatchInv, BatchInv', ThreadInv, LifeInv,
           NEW l \in Loops, NEW c \in Conns, HandlerStep(l, c), ievents_[c] # {},
           HandleClose(c), disconnected_' = [disconnected_ EXCEPT ![c] = TRUE]
    PROVE  LifeInv'
<1> DEFINE f == Functor("handleConnectionClose", c)
<1>0. f \in Functors /\ Is(f, "handleConnectionClose", c) /\ f.conn = c
  BY DEF Functor, Functors, Ops, Is
<1>1. Posts(Base, f)
  BY DEF Posts, HandleClose, Loops
<1>2. /\ Registered(c) /\ event_loop_[c] = l
      /\ Building' = Building /\ SamePlace(c)
      /\ Moving({}, Base, f)
      /\ handler_map_' = handler_map_
  BY <1>0, <1>1, HandlerFacts
<1> HIDE DEF f
<1>3. ievents_'[c] = {} /\ disconnected_'[c]
  BY DEF HandleClose, TypeOK, ReactorTypeOK, TcpTypeOK
<1>4. Life(c)'
  BY <1>0, <1>2, <1>3, BeginCloseLife DEF LifeInv
<1>5. OthersPoll(c)
  BY DEF OthersPoll, HandleClose, TypeOK, ReactorTypeOK, TcpTypeOK
<1>6. \A d \in Conns \ {c} : SameConn(d)
  BY <1>2, <1>5, OthersSame DEF HandlerStep
<1> QED
  BY <1>0, <1>2, <1>4, <1>6, WholeLife

(* The step of a functor for c at the head of the batch of l.               *)
LEMMA FunctorFacts ==
    ASSUME TypeOK, TypeOK', BatchInv, BatchInv', NEW l \in Loops, NEW c \in Conns,
           NEW op \in Ops, Runs(l, op, c), Returns(l), UNCHANGED <<cur, batch>>
    PROVE  /\ Building' = Building
           /\ 1 \in DOMAIN Todos[l] /\ Is(Todos[l][1], op, c)
           /\ \A m : \A f \in Functors : Posts(m, f) => Moving({l}, m, f)
<1>1. Building' = Building
  BY SameBuilding DEF Runs, Returns
<1>2. 1 \in DOMAIN Todos[l] /\ Todos[l][1] = Functor(op, c)
  BY HeadTodo DEF Runs
<1>3. ASSUME NEW m, NEW f \in Functors, Posts(m, f) PROVE Moving({l}, m, f)
  BY <1>3, FunctorMoves DEF Runs
<1> QED
  BY <1>1, <1>2, <1>3 DEF Is, Functor

(* writeInLoop and writeComplete.                                           *)
LEMMA FunctorWork ==
    ASSUME TypeOK, TypeOK', BatchInv, BatchInv', LifeInv, NEW l \in Loops, NEW c \in Conns,
           Runs(l, "writeInLoop", c) \/ Runs(l, "writeComplete", c), Returns(l),
           UNCHANGED <<cur, batch, handler_map_, event_loop_, fd, connections_, disconnected_>>,
           NEW m, NEW f, Writing(f, c), Posts(m, f),
           m \in Loops => m = event_loop_[c],
           OthersPoll(c), ievents_'[c] = ievents_[c] \/ ~disconnected_[c]
    PROVE  LifeInv'
<1>0. f \in Functors /\ f.conn = c /\ f.op \in {"writeInLoop", "writeComplete"}
  BY DEF Writing
<1>1. /\ Building' = Building
      /\ 1 \in DOMAIN Todos[l] /\ Todos[l][1].conn = c
      /\ Todos[l][1].op \in {"writeInLoop", "writeComplete"}
      /\ Moving({l}, m, f)
  <2>1. CASE Runs(l, "writeInLoop", c)
    BY <1>0, <2>1, FunctorFacts DEF Ops, Is
  <2>2. CASE Runs(l, "writeComplete", c)
    BY <1>0, <2>2, FunctorFacts DEF Ops, Is
  <2> QED
    BY <2>1, <2>2
<1>2. SamePlace(c)
  BY <1>1 DEF SamePlace
<1>3. /\ c \notin Building
      /\ event_loop_[c] = l
      /\ \A x \in Loops : \A i \in DOMAIN Todos[x] : ~Is(Todos[x][i], "handleConnection", c)
      /\ ~disconnected_[c] => \A x \in Loops : \A i \in DOMAIN Todos[x] : ~Closes(Todos[x][i], c)
  BY <1>1, WriterFacts DEF LifeInv, Is
<1>4. Life(c)'
  BY <1>0, <1>1, <1>2, <1>3, WorkLife DEF LifeInv, Is
<1>5. \A d \in Conns \ {c} : SameConn(d)
  BY <1>1, OthersSame
<1> QED
  BY <1>0, <1>1, <1>4, <1>5, WholeLife

(* Connections that are alive have descriptors of their own.                *)
FdInv ==
    \A c, d \in Conns : Alive(c) /\ Alive(d) /\ fd[c] = fd[d] => c = d

(* The steps of a connection keep every life,                               *)
LEMMA TcpLife ==
    ASSUME TypeOK, TypeOK', BatchInv, BatchInv', ThreadInv, LifeInv,
           NEW l \in Loops, NEW c \in Conns, TcpStep(l, c), UNCHANGED serverVars
    PROVE  LifeInv'
<1>0. /\ pending' = pending => Posts(None, Functor("writeInLoop", c))
      /\ None \notin Loops
      /\ Reads(c) \/ Writes(c) => ievents_[c] # {}
      /\ UNCHANGED <<fd, connections_>>
      /\ Writing(Functor("writeInLoop", c), c) /\ Writing(Functor("writeComplete", c), c)
  BY ReactorAssumption DEF Posts, Reads, Writes, serverVars, Writing, Functor, Functors, Ops
<1>1. CASE HandleReadMessage(l, c)
  <2>1. /\ HandlerStep(l, c) /\ ievents_[c] # {} /\ OthersPoll(c)
        /\ (disconnected_[c] => disconnected_'[c])
    BY <1>0, <1>1 DEF HandleReadMessage, HandlerStep, OthersPoll, tcpVars
  <2>2. event_loop_[c] \in Loops
    BY <2>1, HandlerFacts
  <2>3. PICK m : (m \in Loops => m = event_loop_[c]) /\ Posts(m, Functor("writeInLoop", c))
    BY <1>1, <2>2, CallBackPosts DEF HandleReadMessage
  <2> QED
    BY <1>0, <2>1, <2>3, HandlerWork
<1>2. CASE HandleReadClose(l, c)
  <2>1. HandlerStep(l, c) /\ ievents_[c] # {} /\ disconnected_' = [disconnected_ EXCEPT ![c] = TRUE]
    BY <1>0, <1>2 DEF HandleReadClose, HandlerStep
  <2>2. CASE UNCHANGED <<ievents_, pending>>
    <3>1. OthersPoll(c) /\ disconnected_'[c]
      BY <2>1, <2>2 DEF OthersPoll, TypeOK, TcpTypeOK
    <3> QED
      BY <1>0, <2>1, <2>2, <3>1, HandlerWork
  <2>3. CASE HandleClose(c)
    BY <2>1, <2>3, HandlerClose
  <2> QED
    BY <1>2, <2>2, <2>3 DEF HandleReadClose
<1>3. CASE SkipRead(l, c) \/ SkipWrite(l, c) \/ HandleWriteDies(l, c)
  <2>1. /\ HandlerStep(l, c) /\ pending' = pending /\ ievents_' = ievents_
        /\ disconnected_' = disconnected_
    BY <1>0, <1>3 DEF SkipRead, SkipWrite, HandleWriteDies, HandlerStep, tcpVars
  <2>2. OthersPoll(c) /\ ievents_'[c] = ievents_[c] /\ (disconnected_'[c] <=> disconnected_[c])
    BY <2>1 DEF OthersPoll
  <2> QED
    BY <1>0, <2>1, <2>2, HandlerWork
<1>4. CASE HandleWriteSome(l, c)
  <2>1. /\ HandlerStep(l, c) /\ ievents_[c] # {} /\ OthersPoll(c)
        /\ (disconnected_[c] => disconnected_'[c])
    BY <1>0, <1>4 DEF HandleWriteSome, HandlerStep, OthersPoll, DisableWrite, TypeOK,
       ReactorTypeOK
  <2>2. CASE UNCHANGED <<ievents_, pending>>
    BY <1>0, <2>1, <2>2, HandlerWork
  <2>3. CASE /\ ievents_' = DisableWrite(c)
             /\ pending' = AddFunctor(event_loop_[c], Functor("writeComplete", c))
    <3>1. event_loop_[c] \in Loops
      BY <2>1, HandlerFacts
    <3>2. Posts(event_loop_[c], Functor("writeComplete", c))
      BY <2>3, <3>1 DEF Posts
    <3> QED
      BY <1>0, <2>1, <3>2, HandlerWork
  <2> QED
    BY <1>4, <2>2, <2>3 DEF HandleWriteSome
<1>5. CASE HandleWriteFails(l, c)
  BY <1>0, <1>5, HandlerClose DEF HandleWriteFails, HandlerStep
<1>6. CASE HandleConnection(l, c)
  <2>1. /\ Runs(l, "handleConnection", c) /\ Returns(l)
        /\ UNCHANGED <<cur, batch, event_loop_, disconnected_>>
        /\ handler_map_' = [handler_map_ EXCEPT ![event_loop_[c]] = @ \cup {c}]
        /\ ievents_' = [ievents_ EXCEPT ![c] = @ \cup {"read"}]
    BY <1>6 DEF HandleConnection, tcpVars
  <2>2. /\ Functor("writeInLoop", c) \in Functors
        /\ Is(Functor("writeInLoop", c), "writeInLoop", c)
        /\ "handleConnection" \in Ops
    BY DEF Functor, Functors, Ops, Is
  <2>3. /\ Building' = Building
        /\ 1 \in DOMAIN Todos[l] /\ Is(Todos[l][1], "handleConnection", c)
        /\ \A m : \A f \in Functors : Posts(m, f) => Moving({l}, m, f)
    BY <2>1, <2>2, FunctorFacts
  <2>4. /\ event_loop_[c] = l
        /\ \A x \in Loops : c \notin handler_map_[x]
    BY <2>3 DEF LifeInv, Life, Placed, Entered, Is
  <2>5. PICK m : (m \in Loops => m = event_loop_[c]) /\ Posts(m, Functor("writeInLoop", c))
    BY <1>6, <2>4, CallBackPosts DEF HandleConnection
  <2>6. \A x \in Loops : c \in handler_map_'[x] <=> x = event_loop_[c]
    BY <2>1, <2>4 DEF TypeOK, ReactorTypeOK
  <2>7. Life(c)'
    BY <1>0, <2>1, <2>2, <2>3, <2>5, <2>6, ConnectLife DEF LifeInv
  <2>8. /\ OthersPoll(c)
        /\ \A x \in Loops : \A d \in Conns \ {c} : d \in handler_map_'[x] <=> d \in handler_map_[x]
    BY <2>1, <2>4 DEF OthersPoll, TypeOK, ReactorTypeOK
  <2>9. \A d \in Conns \ {c} : SameConn(d)
    BY <1>0, <2>1, <2>3, <2>8, OthersSame
  <2> QED
    BY <2>2, <2>3, <2>5, <2>7, <2>9, WholeLife DEF Is
<1>7. CASE WriteDropped(l, c) \/ WriteDies(l, c)
  <2>1. /\ Runs(l, "writeInLoop", c) /\ Returns(l)
        /\ UNCHANGED <<cur, batch, handler_map_, event_loop_, fd, connections_, disconnected_>>
        /\ pending' = pending /\ ievents_' = ievents_ /\ disconnected_' = disconnected_
    BY <1>0, <1>7 DEF WriteDropped, WriteDies, tcpVars
  <2>2. OthersPoll(c) /\ ievents_'[c] = ievents_[c]
    BY <2>1 DEF OthersPoll
  <2> QED
    BY <1>0, <2>1, <2>2, FunctorWork
<1>8. CASE WriteNow(l, c)
  <2>1. /\ Runs(l, "writeInLoop", c) /\ Returns(l) /\ ~disconnected_[c]
        /\ UNCHANGED <<cur, batch, handler_map_, event_loop_, fd, connections_, disconnected_>>
        /\ OthersPoll(c)
    BY <1>0, <1>8 DEF WriteNow, OthersPoll, TypeOK, ReactorTypeOK
  <2>2. event_loop_[c] \in Loops
    BY <2>1, HeadTodo DEF Runs, Functor, LifeInv, Life, Placed
  <2>3. CASE pending' = pending
    BY <1>0, <2>1, <2>3, FunctorWork
  <2>4. CASE pending' = AddFunctor(event_loop_[c], Functor("writeComplete", c))
    <3>1. Posts(event_loop_[c], Functor("writeComplete", c))
      BY <2>2, <2>4 DEF Posts
    <3> QED
      BY <1>0, <2>1, <3>1, FunctorWork
  <2> QED
    BY <1>8, <2>3, <2>4 DEF WriteNow
<1>9. CASE WriteComplete(l, c)
  <2>1. /\ Runs(l, "writeComplete", c) /\ Returns(l)
        /\ UNCHANGED <<cur, batch, handler_map_, event_loop_, fd, connections_, disconnected_>>
        /\ OthersPoll(c) /\ ievents_'[c] = ievents_[c]
    BY <1>0, <1>9 DEF WriteComplete, OthersPoll, tcpVars
  <2>2. event_loop_[c] \in Loops
    BY <2>1, HeadTodo DEF Runs, Functor, LifeInv, Life, Placed
  <2>3. PICK m : (m \in Loops => m = event_loop_[c]) /\ Posts(m, Functor("writeInLoop", c))
    BY <1>9, <2>2, CallBackPosts DEF WriteComplete
  <2> QED
    BY <1>0, <2>1, <2>3, FunctorWork
<1> QED
  BY <1>1, <1>2, <1>3, <1>4, <1>5, <1>6, <1>7, <1>8, <1>9 DEF TcpStep

(* and so do the steps that take one down.                                  *)
LEMMA CloseLife ==
    ASSUME TypeOK, TypeOK', BatchInv, BatchInv', ThreadInv, LifeInv,
           NEW l \in Loops, NEW c \in Conns, CloseStep(l, c)
    PROVE  LifeInv'
<1>1. CASE HandleConnectionClose(l, c)
  <2> DEFINE f == Functor("closeConnection", c)
  <2>1. /\ Runs(l, "handleConnectionClose", c) /\ Returns(l)
        /\ UNCHANGED <<cur, batch, handler_map_, ievents_, event_loop_, disconnected_, fd>>
        /\ connections_' = [connections_ EXCEPT ![fd[c]] = None]
        /\ pending' = AddFunctor(event_loop_[c], f)
    BY <1>1 DEF HandleConnectionClose, tcpVars
  <2>2. f \in Functors /\ Is(f, "closeConnection", c) /\ "handleConnectionClose" \in Ops
    BY DEF Functor, Functors, Ops, Is
  <2>3. /\ Building' = Building
        /\ 1 \in DOMAIN Todos[l] /\ Is(Todos[l][1], "handleConnectionClose", c)
        /\ \A m : \A g \in Functors : Posts(m, g) => Moving({l}, m, g)
    BY <2>1, <2>2, FunctorFacts
  <2>4. Registered(c) /\ Mapped(c) /\ event_loop_[c] \in Loops
    BY <2>3 DEF LifeInv, Life, Closed, Closes, Is, Registered
  <2>5. Moving({l}, event_loop_[c], f)
    <3>1. Posts(event_loop_[c], f)
      BY <2>1, <2>4 DEF Posts
    <3> QED
      BY <2>2, <2>3, <3>1
  <2> HIDE DEF f
  <2>6. /\ \A g \in Fds : connections_'[g] # c
        /\ \A d \in Conns \ {c} : \A g \in Fds : connections_'[g] = d <=> connections_[g] = d
    BY <2>1, <2>4, ReactorAssumption DEF Mapped, LifeInv, Life, Placed, TypeOK
  <2>7. Life(c)'
    BY <2>1, <2>2, <2>3, <2>5, <2>6, EraseLife DEF LifeInv
  <2>8. \A d \in Conns \ {c} : SameConn(d)
    BY <2>1, <2>3, <2>6 DEF SameConn, SamePlace
  <2> QED
    BY <2>2, <2>3, <2>5, <2>7, <2>8, WholeLife DEF Is
<1>2. CASE CloseConnectionLoad(l, c)
  <2>1. /\ Runs(l, "closeConnection", c) /\ at' = [at EXCEPT ![l] = "dec"]
        /\ disconnected_' = [disconnected_ EXCEPT ![c] = TRUE]
        /\ UNCHANGED <<cur, batch, pending, handler_map_, ievents_, event_loop_, fd, connections_>>
    BY <1>2 DEF CloseConnectionLoad
  <2>2. 1 \in DOMAIN Todos[l] /\ Todos[l][1] = Functor("closeConnection", c)
    BY <2>1, HeadTodo DEF Runs
  <2>3. disconnected_[c]
    BY <2>2 DEF LifeInv, Life, Closed, Closes, Functor
  <2>4. disconnected_' = disconnected_
    BY <2>1, <2>3 DEF TypeOK, TcpTypeOK
  <2>5. Building' = Building
    BY <2>1, SameBuilding DEF Runs
  <2>6. \A x \in Loops : Todo(x)' = Todo(x)
    BY <2>1 DEF Runs, Todo, TypeOK, ReactorTypeOK
  <2>7. Todos' = Todos
    BY <2>6 DEF Todos
  <2> QED
    BY <2>1, <2>4, <2>5, <2>7, IdleLife DEF lifeVars
<1>3. CASE CloseConnection(l, c)
  <2> DEFINE f == Functor("closeConnection", c)
  <2>1. /\ at[l] = "dec" /\ batch[l] # <<>> /\ Head(batch[l]).op = "closeConnection"
        /\ Head(batch[l]).conn = c
        /\ Returns(l)
        /\ UNCHANGED <<cur, batch, pending, ievents_, event_loop_, disconnected_, fd, connections_>>
        /\ handler_map_' = [handler_map_ EXCEPT ![event_loop_[c]] = @ \ {c}]
    BY <1>3 DEF CloseConnection, tcpVars, BatchInv, ThreadInv
  <2>2. f \in Functors
    BY DEF Functor, Functors, Ops
  <2>3. Posts(None, f) /\ None \notin Loops
    BY <2>1, ReactorAssumption DEF Posts
  <2>4. Moving({l}, None, f) /\ 1 \in DOMAIN Todos[l] /\ Is(Todos[l][1], "closeConnection", c)
    BY <2>1, <2>2, <2>3, FunctorMoves DEF Is
  <2>5. Building' = Building
    BY <2>1, SameBuilding DEF Returns
  <2> HIDE DEF f
  <2>6. Placed(c)
    BY DEF LifeInv, Life
  <2>7. \A x \in Loops : c \notin handler_map_'[x]
    BY <2>1, <2>6 DEF Placed, TypeOK, ReactorTypeOK
  <2>8. \A d \in Conns \ {c} : \A x \in Loops : d \in handler_map_'[x] <=> d \in handler_map_[x]
    BY <2>1 DEF TypeOK, ReactorTypeOK
  <2>9. Life(c)'
    BY <2>1, <2>4, <2>5, <2>7, RemoveLife DEF LifeInv
  <2>10. \A d \in Conns \ {c} : SameConn(d)
    BY <2>1, <2>5, <2>8 DEF SameConn, SamePlace
  <2> QED
    BY <2>3, <2>4, <2>9, <2>10, WholeLife DEF Is
<1> QED
  BY <1>1, <1>2, <1>3 DEF CloseStep

------------------------------------------------------------------------------
(* Queued functors and the connections they keep alive                      *)

(* The elements of a sequence.                                              *)
Entries(s) == {s[i] : i \in DOMAIN s}

(* The entries of a concatenation are those of both parts,                  *)
LEMMA ConcatEntries ==
    ASSUME NEW S, NEW a \in Seq(S), NEW b \in Seq(S)
    PROVE  Entries(a \o b) = Entries(a) \cup Entries(b)
<1>1. /\ Len(a) \in Nat /\ Len(b) \in Nat
      /\ DOMAIN a = 1..Len(a) /\ DOMAIN b = 1..Len(b)
      /\ DOMAIN (a \o b) = 1..(Len(a) + Len(b))
  OBVIOUS
<1>2. ASSUME NEW i \in DOMAIN (a \o b) PROVE (a \o b)[i] \in Entries(a) \cup Entries(b)
  <2>1. CASE i <= Len(a)
    <3>1. i \in DOMAIN a /\ (a \o b)[i] = a[i]
      BY <1>1, <2>1
    <3> QED
      BY <3>1 DEF Entries
  <2>2. CASE i > Len(a)
    <3>1. i - Len(a) \in DOMAIN b /\ (a \o b)[i] = b[i - Len(a)]
      BY <1>1, <2>2
    <3> QED
      BY <3>1 DEF Entries
  <2> QED
    BY <1>1, <2>1, <2>2
<1>3. ASSUME NEW j \in DOMAIN a PROVE a[j] \in Entries(a \o b)
  <2>1. j \in DOMAIN (a \o b) /\ (a \o b)[j] = a[j]
    BY <1>1
  <2> QED
    BY <2>1 DEF Entries
<1>4. ASSUME NEW j \in DOMAIN b PROVE b[j] \in Entries(a \o b)
  <2>1. j + Len(a) \in DOMAIN (a \o b) /\ (a \o b)[j + Len(a)] = b[j]
    BY <1>1
  <2> QED
    BY <2>1 DEF Entries
<1>5. Entries(a \o b) \subseteq Entries(a) \cup Entries(b)
  BY <1>2 DEF Entries
<1>6. Entries(a) \subseteq Entries(a \o b) /\ Entries(b) \subseteq Entries(a \o b)
  <2>1. \A x \in Entries(a) : \E j \in DOMAIN a : x = a[j]
    BY DEF Entries
  <2>2. \A x \in Entries(b) : \E j \in DOMAIN b : x = b[j]
    BY DEF Entries
  <2> QED
    BY <1>3, <1>4, <2>1, <2>2
<1> QED
  BY <1>5, <1>6

(* those of a tail are among those of the whole,                            *)
LEMMA TailEntries ==
    ASSUME NEW S, NEW a \in Seq(S), a # <<>>
    PROVE  Tail(a) \in Seq(S) /\ Entries(Tail(a)) \subseteq Entries(a)
<1>1. /\ Len(a) \in Nat \ {0} /\ DOMAIN a = 1..Len(a) /\ Tail(a) \in Seq(S)
      /\ DOMAIN Tail(a) = 1..(Len(a) - 1)
  OBVIOUS
<1>2. ASSUME NEW i \in DOMAIN Tail(a) PROVE i + 1 \in DOMAIN a /\ a[i + 1] = Tail(a)[i]
  BY <1>1
<1> QED
  BY <1>1, <1>2 DEF Entries

(* which adds the head to them,                                             *)
LEMMA HeadEntries ==
    ASSUME NEW S, NEW a \in Seq(S), a # <<>>
    PROVE  Entries(a) = {Head(a)} \cup Entries(Tail(a))
<1>1. /\ Len(a) \in Nat \ {0} /\ DOMAIN a = 1..Len(a) /\ DOMAIN Tail(a) = 1..(Len(a) - 1)
      /\ Head(a) = a[1] /\ 1 \in DOMAIN a
  OBVIOUS
<1>2. \A i \in DOMAIN Tail(a) : i + 1 \in DOMAIN a /\ Tail(a)[i] = a[i + 1]
  BY <1>1
<1>3. ASSUME NEW j \in DOMAIN a, j # 1 PROVE j - 1 \in DOMAIN Tail(a) /\ a[j] = Tail(a)[j - 1]
  <2>1. j - 1 \in DOMAIN Tail(a) /\ (j - 1) + 1 = j
    BY <1>1, <1>3
  <2> QED
    BY <1>2, <2>1
<1>4. Entries(a) \subseteq {Head(a)} \cup Entries(Tail(a))
  <2>1. ASSUME NEW j \in DOMAIN a PROVE a[j] \in {Head(a)} \cup Entries(Tail(a))
    BY <1>1, <1>3 DEF Entries
  <2> QED
    BY <2>1 DEF Entries
<1>5. Entries(Tail(a)) \subseteq Entries(a) /\ Head(a) \in Entries(a)
  BY <1>1, <1>2 DEF Entries
<1> QED
  BY <1>4, <1>5

(* and Append adds what is appended.                                        *)
LEMMA AppendEntries ==
    ASSUME NEW S, NEW a \in Seq(S), NEW e \in S
    PROVE  Entries(Append(a, e)) = Entries(a) \cup {e}
<1>1. /\ Len(a) \in Nat /\ DOMAIN a = 1..Len(a) /\ DOMAIN Append(a, e) = 1..(Len(a) + 1)
      /\ \A i \in 1..Len(a) : Append(a, e)[i] = a[i]
      /\ Append(a, e)[Len(a) + 1] = e
  OBVIOUS
<1>2. \A i \in 1..(Len(a) + 1) : i \in 1..Len(a) \/ i = Len(a) + 1
  BY <1>1
<1>3. 1..Len(a) \subseteq 1..(Len(a) + 1) /\ Len(a) + 1 \in 1..(Len(a) + 1)
  BY <1>1
<1> QED
  BY <1>1, <1>2, <1>3 DEF Entries

(* The queued functors are the entries of the two queues.                   *)
LEMMA QueuedEntries == \A l : Queued(l) = Entries(pending[l]) \cup Entries(batch[l])
  BY DEF Queued, Entries

(* What is to run is queued; what is queued is to run, save a functor that  *)
(* has returned and is not popped.                                          *)
LEMMA TodoQueued ==
    ASSUME TypeOK, BatchInv, NEW l \in Loops
    PROVE  /\ Entries(Todos[l]) \subseteq Queued(l)
           /\ at[l] # "pop" => Entries(Todos[l]) = Queued(l)
<1>1. /\ batch[l] \in Seq(Functors) /\ pending[l] \in Seq(Functors)
      /\ (at[l] = "pop" => batch[l] # <<>>)
  BY DEF TypeOK, ReactorTypeOK, BatchInv
<1>2. Todos[l] = (IF at[l] = "pop" THEN Tail(batch[l]) ELSE batch[l]) \o pending[l]
  BY DEF Todos, Todo
<1>3. CASE at[l] = "pop"
  <2>1. Tail(batch[l]) \in Seq(Functors) /\ Entries(Tail(batch[l])) \subseteq Entries(batch[l])
    BY <1>1, <1>3, TailEntries
  <2>2. Entries(Tail(batch[l]) \o pending[l]) = Entries(Tail(batch[l])) \cup Entries(pending[l])
    BY <1>1, <2>1, ConcatEntries
  <2> QED
    BY <1>2, <1>3, <2>1, <2>2, QueuedEntries
<1>4. CASE at[l] # "pop"
  <2>1. Entries(batch[l] \o pending[l]) = Entries(batch[l]) \cup Entries(pending[l])
    BY <1>1, ConcatEntries
  <2> QED
    BY <1>2, <1>4, <2>1, QueuedEntries
<1> QED
  BY <1>3, <1>4

(* Posting adds what is posted.                                             *)
LEMMA PostsQueued ==
    ASSUME TypeOK, NEW m, NEW f \in Functors, batch' = batch, Posts(m, f)
    PROVE  \A l \in Loops : Queued(l)' \subseteq Queued(l) \cup (IF l = m THEN {f} ELSE {})
<1>0. ASSUME NEW l \in Loops PROVE Queued(l)' \subseteq Queued(l) \cup (IF l = m THEN {f} ELSE {})
  <2>1. Queued(l)' = Entries(pending'[l]) \cup Entries(batch[l])
    BY DEF Queued, Entries
  <2>2. pending[l] \in Seq(Functors)
    BY DEF TypeOK, ReactorTypeOK
  <2>3. CASE l = m /\ pending' = AddFunctor(m, f)
    <3>1. pending'[l] = Append(pending[l], f)
      BY <2>3 DEF TypeOK, ReactorTypeOK, AddFunctor
    <3>2. Entries(pending'[l]) = Entries(pending[l]) \cup {f}
      BY <2>2, <3>1, AppendEntries
    <3> QED
      BY <2>1, <2>3, <3>2, QueuedEntries
  <2>4. CASE pending'[l] = pending[l]
    BY <2>1, <2>4, QueuedEntries
  <2> QED
    BY <2>3, <2>4 DEF Posts, AddFunctor, TypeOK, ReactorTypeOK
<1> QED
  BY <1>0

(* The loop's own steps add nothing.                                        *)
LEMMA ReactorQueued ==
    ASSUME TypeOK, BatchInv, NEW l \in Loops, ReactorStep(l)
    PROVE  \A x \in Loops : Queued(x)' \subseteq Queued(x)
<1>0. batch \in [Loops -> Seq(Functors)] /\ pending \in [Loops -> Seq(Functors)]
  BY DEF TypeOK, ReactorTypeOK
<1>1. CASE UNCHANGED <<pending, batch>>
  BY <1>1 DEF Queued
<1>2. CASE PopAll(l)
  <2>1. \A x \in Loops : x # l => pending'[x] = pending[x] /\ batch'[x] = batch[x]
    BY <1>0, <1>2 DEF PopAll
  <2>2. pending'[l] = <<>> /\ batch'[l] = pending[l]
    BY <1>0, <1>2 DEF PopAll
  <2> QED
    BY <2>1, <2>2 DEF Queued
<1>3. CASE PopFunctor(l)
  <2>1. \A x \in Loops : pending'[x] = pending[x] /\ (x # l => batch'[x] = batch[x])
    BY <1>0, <1>3 DEF PopFunctor
  <2>2. batch'[l] = Tail(batch[l]) /\ batch[l] \in Seq(Functors) /\ batch[l] # <<>>
    BY <1>0, <1>3 DEF PopFunctor, BatchInv
  <2>3. Entries(batch'[l]) \subseteq Entries(batch[l])
    BY <2>2, TailEntries
  <2>4. \A x \in Loops : Queued(x)' = Entries(pending'[x]) \cup Entries(batch'[x])
    BY DEF Queued, Entries
  <2> QED
    BY <2>1, <2>3, <2>4, QueuedEntries
<1> QED
  BY <1>1, <1>2, <1>3 DEF ReactorStep, Wait, EndRun

------------------------------------------------------------------------------
(* Who is alive                                                             *)

(* A functor to run that shares a connection keeps it alive.                *)
LEMMA TodoAlive ==
    ASSUME TypeOK, BatchInv, NEW c \in Conns, NEW l \in Loops, NEW i \in DOMAIN Todos[l],
           Shares(Todos[l][i], c)
    PROVE  Alive(c)
<1>1. Todos[l][i] \in Queued(l)
  BY TodoQueued DEF Entries
<1> QED
  BY <1>1 DEF Alive

(* A registered connection is alive.                                        *)
LEMMA RegisteredAlive ==
    ASSUME TypeOK, BatchInv, NEW c \in Conns, Life(c), Registered(c)
    PROVE  Alive(c)
<1>1. CASE Mapped(c)
  BY <1>1 DEF Mapped, Alive
<1>2. CASE \E i \in DOMAIN Todos[event_loop_[c]] : Is(Todos[event_loop_[c]][i], "closeConnection", c)
  BY <1>2, TodoAlive DEF Is, Shares, Registered
<1> QED
  BY <1>1, <1>2 DEF Life, Kept

(* A step that posts f makes nothing alive that was not.                    *)
LEMMA AliveBack ==
    ASSUME TypeOK, NEW d \in Conns, NEW m, NEW f \in Functors, batch' = batch, Posts(m, f),
           m \in Loops /\ Shares(f, d) => Alive(d),
           \A g \in Fds : connections_'[g] = d => Alive(d),
           d \in Building' => Alive(d),
           Alive(d)'
    PROVE  Alive(d)
<1>1. CASE \E g \in Fds : connections_'[g] = d
  BY <1>1
<1>2. ASSUME NEW l \in Loops, NEW h, h \in Queued(l)', Shares(h, d) PROVE Alive(d)
  <2>0. Queued(l)' \subseteq Queued(l) \cup (IF l = m THEN {f} ELSE {})
    BY PostsQueued
  <2>1. h \in Queued(l) \/ (l = m /\ h = f)
    BY <1>2, <2>0
  <2> QED
    BY <1>2, <2>1 DEF Alive
<1>3. CASE at'[Base] = "inc" /\ cur'[Base] = d
  BY <1>3 DEF Building
<1>4. \/ \E g \in Fds : connections_'[g] = d
      \/ \E l \in Loops : \E h \in Queued(l)' : Shares(h, d)
      \/ at'[Base] = "inc" /\ cur'[Base] = d
  BY DEF Alive, Shares
<1> QED
  BY <1>1, <1>2, <1>3, <1>4

(* What the steps of a connection post: a write, or for a connection in the *)
(* map, anything but handleConnection and closeConnection.                  *)
TcpPost(m, f, c) ==
    /\ Posts(m, f) /\ f.conn = c
    /\ m \in Loops =>
         /\ f.op \in {"writeInLoop", "writeComplete", "handleConnectionClose"}
         /\ f.op = "writeInLoop" => m = event_loop_[c]
         /\ Mapped(c) \/ (f.op = "writeInLoop" /\ "write" \in OnComplete)

(* Every step of a connection posts such a functor or none.                 *)
LEMMA TcpPosts ==
    ASSUME TypeOK, TypeOK', BatchInv, BatchInv', ThreadInv, LifeInv,
           NEW l \in Loops, NEW c \in Conns, TcpStep(l, c), UNCHANGED serverVars
    PROVE  /\ batch' = batch /\ Building' = Building
           /\ \E m : \E f \in Functors : TcpPost(m, f, c)
<1> DEFINE W == Functor("writeInLoop", c)
           D == Functor("writeComplete", c)
           H == Functor("handleConnectionClose", c)
<1>0. /\ W \in Functors /\ W.conn = c /\ W.op = "writeInLoop"
      /\ D \in Functors /\ D.conn = c /\ D.op = "writeComplete"
      /\ H \in Functors /\ H.conn = c /\ H.op = "handleConnectionClose"
      /\ None \notin Loops /\ Base \in Loops
  BY ReactorAssumption DEF Functor, Functors, Ops, Loops
<1>1. batch' = batch
  BY DEF TcpStep, HandleReadMessage, HandleReadClose, SkipRead, HandleWriteSome, HandleWriteFails,
         HandleWriteDies, SkipWrite, HandleConnection, WriteDropped, WriteNow, WriteDies,
         WriteComplete,
         TakeHandler, LeaveHandler
<1>2. Building' = Building
  <2>1. at[l] # "inc" /\ \A x \in Loops \ {l} : cur'[x] = cur[x]
    BY DEF TcpStep, HandleReadMessage, HandleReadClose, SkipRead, HandleWriteSome,
       HandleWriteFails,
         HandleWriteDies, SkipWrite, HandleConnection, WriteDropped, WriteNow, WriteDies,
         WriteComplete,
         TakeHandler, LeaveHandler, Runs, TypeOK, ReactorTypeOK
  <2>2. \E p : p # "inc" /\ at' = [at EXCEPT ![l] = p]
    BY DEF TcpStep, HandleReadMessage, HandleReadClose, SkipRead, HandleWriteSome,
       HandleWriteFails,
         HandleWriteDies, SkipWrite, HandleConnection, WriteDropped, WriteNow, WriteDies,
         WriteComplete,
         TakeHandler, LeaveHandler, Returns
  <2> QED
    BY <2>1, <2>2, SameBuilding
<1> HIDE DEF W, D, H
<1>3. CASE pending' = pending
  <2>1. TcpPost(None, W, c)
    BY <1>0, <1>3 DEF TcpPost, Posts
  <2> QED
    BY <1>0, <1>1, <1>2, <2>1
<1>4. CASE /\ pending' = AddFunctor(event_loop_[c], W) /\ event_loop_[c] \in Loops
           /\ (Mapped(c) \/ "write" \in OnComplete)
  <2>0. Posts(event_loop_[c], W)
    BY <1>0, <1>4 DEF Posts
  <2>1. TcpPost(event_loop_[c], W, c)
    BY <1>0, <1>4, <2>0 DEF TcpPost
  <2> QED
    BY <1>0, <1>1, <1>2, <2>1
<1>5. CASE pending' = AddFunctor(event_loop_[c], D) /\ event_loop_[c] \in Loops /\ Mapped(c)
  <2>0. Posts(event_loop_[c], D)
    BY <1>0, <1>5 DEF Posts
  <2>1. TcpPost(event_loop_[c], D, c)
    BY <1>0, <1>5, <2>0 DEF TcpPost
  <2> QED
    BY <1>0, <1>1, <1>2, <2>1
<1>6. CASE pending' = AddFunctor(Base, H) /\ Mapped(c)
  <2>0. Posts(Base, H)
    BY <1>0, <1>6 DEF Posts
  <2>1. TcpPost(Base, H, c)
    BY <1>0, <1>6, <2>0 DEF TcpPost
  <2> QED
    BY <1>0, <1>1, <1>2, <2>1
<1>7. ASSUME TakeHandler(l, c) \/ LeaveHandler(l, c), Reads(c) \/ Writes(c)
      PROVE  Mapped(c) /\ event_loop_[c] \in Loops
  <2>1. c \in handler_map_[l]
    BY <1>7, ReactorAssumption DEF TakeHandler, LeaveHandler, ThreadInv
  <2>2. Registered(c) /\ ievents_[c] # {}
    BY <1>7, <2>1 DEF LifeInv, Life, Placed, Registered, Reads, Writes
  <2> QED
    BY <2>2, ActiveFacts DEF LifeInv, Registered
<1>8. ASSUME NEW op \in Ops, Runs(l, op, c)
      PROVE  1 \in DOMAIN Todos[l] /\ Todos[l][1].conn = c /\ Todos[l][1].op = op
  BY <1>8, HeadTodo DEF Runs, Functor
<1>9. CASE HandleReadMessage(l, c)
  BY <1>3, <1>4, <1>7, <1>9 DEF HandleReadMessage, CallBack, W
<1>10. CASE HandleReadClose(l, c)
  BY <1>3, <1>6, <1>7, <1>10 DEF HandleReadClose, HandleClose, H
<1>11. CASE SkipRead(l, c) \/ SkipWrite(l, c) \/ HandleWriteDies(l, c) \/ WriteDropped(l, c) \/ WriteDies(l, c)
  BY <1>3, <1>11 DEF SkipRead, SkipWrite, HandleWriteDies, WriteDropped, WriteDies
<1>12. CASE HandleWriteSome(l, c)
  BY <1>3, <1>5, <1>7, <1>12 DEF HandleWriteSome, D
<1>13. CASE HandleWriteFails(l, c)
  BY <1>6, <1>7, <1>13 DEF HandleWriteFails, HandleClose, H
<1>14. CASE HandleConnection(l, c)
  <2>1. Mapped(c) /\ event_loop_[c] = l
    BY <1>8, <1>14 DEF HandleConnection, Ops, LifeInv, Life, Entered, Placed, Is
  <2> QED
    BY <1>3, <1>4, <1>14, <2>1 DEF HandleConnection, CallBack, W
<1>15. CASE WriteNow(l, c)
  <2>1. Mapped(c) /\ event_loop_[c] = l
    BY <1>8, <1>15, WriterFacts DEF WriteNow, Ops, LifeInv
  <2> QED
    BY <1>3, <1>5, <1>15, <2>1 DEF WriteNow, D
<1>16. CASE WriteComplete(l, c)
  <2>1. event_loop_[c] = l
    BY <1>8, <1>16, WriterFacts DEF WriteComplete, Ops, LifeInv
  <2> QED
    BY <1>3, <1>4, <1>16, <2>1 DEF WriteComplete, CallBack, W
<1> QED
  BY <1>9, <1>10, <1>11, <1>12, <1>13, <1>14, <1>15, <1>16 DEF TcpStep

------------------------------------------------------------------------------
(* Accepting                                                                *)

(* handleNewCon never takes the place of another connection in the map.     *)
LEMMA FreeEntry ==
    ASSUME TypeOK, LifeInv, FdInv, NEW c \in Conns, HandleNewCon(c)
    PROVE  /\ c \in Building /\ event_loop_[c] \in Loops /\ fd[c] \in Fds
           /\ connections_[fd[c]] = None
<1>1. c \in Building
  BY DEF HandleNewCon, Building
<1>2. event_loop_[c] \in Loops /\ \A g \in Fds : connections_[g] # c
  BY <1>1 DEF LifeInv, Life, Built
<1>3. fd[c] \in Fds
  BY <1>2, ReactorAssumption DEF LifeInv, Life, Placed, TypeOK
<1>4. ASSUME connections_[fd[c]] # None PROVE FALSE
  <2>1. PICK d \in Conns : connections_[fd[c]] = d
    BY <1>3, <1>4 DEF TypeOK
  <2>2. Alive(d) /\ Alive(c)
    BY <1>3, <2>1 DEF Alive, HandleNewCon
  <2>3. fd[d] = fd[c]
    BY <1>3, <2>1 DEF LifeInv, Life, Placed
  <2> QED
    BY <1>2, <1>3, <2>1, <2>2, <2>3 DEF FdInv
<1> QED
  BY <1>1, <1>2, <1>3, <1>4

(* The Accepter and handleNewCon keep every life.                           *)
LEMMA AcceptLife ==
    ASSUME TypeOK, TypeOK', BatchInv, BatchInv', ThreadInv, BacklogInv, LifeInv, FdInv, AcceptStep
    PROVE  LifeInv'
<1>0. Base \in Loops /\ None \notin Loops /\ None \notin Conns
  BY ReactorAssumption DEF Loops
<1>1. ASSUME UNCHANGED <<cur, pending, batch, lifeVars>>, at[Base] \notin {"inc", "pop"},
             NEW p, p \notin {"inc", "pop"}, at' = [at EXCEPT ![Base] = p]
      PROVE  LifeInv'
  <2>1. Building' = Building
    BY <1>0, <1>1, SameBuilding
  <2>2. \A x \in Loops : Todo(x)' = Todo(x)
    BY <1>1 DEF Todo, TypeOK, ReactorTypeOK
  <2>3. Todos' = Todos
    BY <2>2 DEF Todos
  <2> QED
    BY <1>1, <2>1, <2>3, IdleLife
<1>2. CASE StartAccept
  BY <1>1, <1>2 DEF StartAccept, lifeVars, tcpVars, serverVars
<1>3. CASE EndAccept
  BY <1>1, <1>3 DEF EndAccept, lifeVars, tcpVars, serverVars
<1>4. ASSUME NEW c \in Conns, AcceptDeny(c) PROVE LifeInv'
  BY <1>1, <1>4 DEF AcceptDeny, Accepts, lifeVars, tcpVars, serverVars
<1>5. ASSUME NEW c \in Conns, AcceptConn(c) PROVE LifeInv'
  <2> DEFINE f == Functor("writeInLoop", c)
  <2>1. /\ at[Base] = "accept" /\ at' = [at EXCEPT ![Base] = "inc"]
        /\ cur' = [cur EXCEPT ![Base] = c]
        /\ event_loop_' = [event_loop_ EXCEPT ![c] = NextLoop]
        /\ UNCHANGED <<pending, batch, handler_map_, ievents_, disconnected_, connections_>>
    BY <1>5 DEF AcceptConn, Accepts
  <2>2. event_loop_[c] = None
    <3>1. 1 \in DOMAIN backlog /\ backlog[1] = c
      BY <1>5 DEF AcceptConn, Accepts, TypeOK
    <3> QED
      BY <3>1 DEF BacklogInv
  <2>3. event_loop_'[c] \in Loops /\ \A d \in Conns \ {c} : event_loop_'[d] = event_loop_[d]
    BY <2>1, NextLoopType DEF TypeOK, TcpTypeOK
  <2>4. fd'[c] \in Fds /\ \A d \in Conns \ {c} : fd'[d] = fd[d]
    <3>1. FreeFds # {} /\ fd' = [fd EXCEPT ![c] = CHOOSE h \in FreeFds : \A g \in FreeFds : h <= g]
      BY <1>5 DEF AcceptConn, Accepts
    <3>2. (CHOOSE h \in FreeFds : \A g \in FreeFds : h <= g) \in FreeFds
      BY <3>1, LowestFd
    <3>3. fd'[c] \in FreeFds
      BY <3>1, <3>2 DEF TypeOK
    <3> QED
      BY <3>1, <3>3 DEF FreeFds, TypeOK
  <2>5. \A d \in Conns : (d \in Building' <=> d = c) /\ d \notin Building
    BY <1>0, <2>1 DEF Building, TypeOK, ReactorTypeOK
  <2>6. \A x \in Loops : Todo(x)' = Todo(x)
    BY <1>0, <2>1 DEF Todo, TypeOK, ReactorTypeOK
  <2>7. Todos' = Todos
    BY <2>6 DEF Todos
  <2>8. f \in Functors /\ f.conn = c
    BY DEF Functor, Functors, Ops
  <2>9. Moving({}, None, f)
    <3>1. Posts(None, f)
      BY <2>1 DEF Posts
    <3> QED
      BY <1>0, <2>1, <2>8, <3>1, HandlerMoves
  <2> HIDE DEF f
  <2>10. Life(c)'
    BY <2>1, <2>2, <2>3, <2>4, <2>5, <2>7, ConstructLife DEF LifeInv
  <2>11. \A d \in Conns \ {c} : SameConn(d)
    BY <2>1, <2>3, <2>4, <2>5 DEF SameConn, SamePlace
  <2> QED
    BY <2>8, <2>9, <2>10, <2>11, WholeLife
<1>6. ASSUME NEW c \in Conns, HandleNewCon(c) PROVE LifeInv'
  <2> DEFINE f == Functor("handleConnection", c)
  <2>1. /\ at[Base] = "inc" /\ cur[Base] = c /\ at' = [at EXCEPT ![Base] = "accept"]
        /\ connections_' = [connections_ EXCEPT ![fd[c]] = c]
        /\ pending' = AddFunctor(event_loop_[c], f)
        /\ UNCHANGED <<batch, handler_map_, ievents_, disconnected_, event_loop_, fd>>
    BY <1>6 DEF HandleNewCon, tcpVars
  <2>2. /\ c \in Building /\ event_loop_[c] \in Loops /\ fd[c] \in Fds
        /\ connections_[fd[c]] = None
    BY <1>6, FreeEntry
  <2>3. f \in Functors /\ f.conn = c /\ Is(f, "handleConnection", c)
    BY DEF Functor, Functors, Ops, Is
  <2>4. Moving({}, event_loop_[c], f)
    <3>1. Posts(event_loop_[c], f)
      BY <2>1, <2>2 DEF Posts
    <3> QED
      BY <1>0, <2>1, <2>3, <3>1, HandlerMoves
  <2>5. Building' = {} /\ Building = {c}
    BY <1>0, <2>1 DEF Building, TypeOK, ReactorTypeOK
  <2> HIDE DEF f
  <2>6. \A g \in Fds : connections_'[g] = c <=> g = fd[c]
    BY <2>1, <2>2 DEF TypeOK, LifeInv, Life, Built
  <2>7. \A d \in Conns \ {c} : \A g \in Fds : connections_'[g] = d <=> connections_[g] = d
    BY <1>0, <2>1, <2>2 DEF TypeOK
  <2>8. Life(c)'
    BY <2>1, <2>2, <2>3, <2>4, <2>5, <2>6, EnterLife DEF LifeInv
  <2>9. \A d \in Conns \ {c} : SameConn(d)
    BY <2>1, <2>5, <2>7 DEF SameConn, SamePlace
  <2> QED
    BY <2>3, <2>4, <2>8, <2>9, WholeLife
<1> QED
  BY <1>2, <1>3, <1>4, <1>5, <1>6 DEF AcceptStep

(* Every step keeps every life.                                             *)
LEMMA LifeStep ==
    ASSUME TypeOK, TypeOK', BatchInv, BatchInv', ThreadInv, BacklogInv, LifeInv, FdInv, [Next]_vars
    PROVE  LifeInv'
<1>1. ASSUME UNCHANGED <<reactorVars, tcpVars, fd, connections_>> PROVE LifeInv'
  <2>1. \A x \in Loops : Todo(x)' = Todo(x)
    BY <1>1 DEF Todo, reactorVars
  <2>2. Todos' = Todos /\ Building' = Building
    BY <1>1, <2>1 DEF Todos, Building, reactorVars
  <2> QED
    BY <1>1, <2>2, IdleLife DEF lifeVars, reactorVars, tcpVars
<1>2. ASSUME NEW c \in Conns, Client(c) PROVE LifeInv'
  BY <1>1, <1>2 DEF Client, ClientConnect, serverVars
<1> QED
  BY <1>1, <1>2, ReactorLife, TcpLife, CloseLife, AcceptLife DEF Next, LoopStep, vars, serverVars

------------------------------------------------------------------------------
(* Descriptors                                                              *)

(* A step that posts nothing.                                               *)
LEMMA SilentAlive ==
    ASSUME TypeOK, NEW d \in Conns, UNCHANGED <<batch, pending>>,
           \A g \in Fds : connections_'[g] = d => connections_[g] = d,
           d \in Building' => d \in Building, Alive(d)'
    PROVE  Alive(d)
<1>1. \A l \in Loops : Queued(l)' = Queued(l)
  BY DEF Queued
<1>2. \/ \E g \in Fds : connections_'[g] = d
      \/ \E l \in Loops : \E h \in Queued(l)' : Shares(h, d)
      \/ d \in Building'
  BY DEF Alive, Shares, Building
<1> QED
  BY <1>1, <1>2 DEF Alive, Building

(* Every step but the one that constructs it finds a live connection alive. *)
LEMMA StillAlive ==
    ASSUME TypeOK, TypeOK', BatchInv, BatchInv', ThreadInv, LifeInv, FdInv, [Next]_vars,
           NEW d \in Conns, Alive(d)', ~AcceptConn(d)
    PROVE  Alive(d) /\ fd'[d] = fd[d]
<1>0. Base \in Loops /\ None \notin Loops /\ None \notin Conns
  BY ReactorAssumption DEF Loops
<1>1. fd'[d] = fd[d]
  BY DEF Next, LoopStep, ReactorStep, AcceptStep, StartAccept, AcceptDeny, AcceptConn,
     HandleNewCon,
         EndAccept, CloseStep, HandleConnectionClose, CloseConnectionLoad, CloseConnection, Client,
         ClientConnect, serverVars, vars, TypeOK
<1>2. ASSUME NEW l \in Loops, ReactorStep(l) PROVE Alive(d)
  <2>1. \A x \in Loops : Queued(x)' \subseteq Queued(x)
    BY <1>2, ReactorQueued
  <2>2. Building' = Building /\ connections_' = connections_
    BY <1>2 DEF ReactorStep, Wait, PopAll, PopFunctor, EndRun, Building, Loops, serverVars,
                TypeOK, ReactorTypeOK
  <2>3. \/ \E g \in Fds : connections_'[g] = d
        \/ \E x \in Loops : \E h \in Queued(x)' : Shares(h, d)
        \/ d \in Building'
    BY DEF Alive, Shares, Building
  <2> QED
    BY <2>1, <2>2, <2>3 DEF Alive, Building
<1>3. ASSUME NEW l \in Loops, NEW c \in Conns, TcpStep(l, c), UNCHANGED serverVars PROVE Alive(d)
  <2>0. PICK m : \E f \in Functors : TcpPost(m, f, c)
    BY <1>3, TcpPosts
  <2>1. PICK f \in Functors : TcpPost(m, f, c)
    BY <2>0
  <2>2. batch' = batch /\ Building' = Building /\ connections_' = connections_
    BY <1>3, TcpPosts DEF serverVars
  <2>3. Posts(m, f) /\ (m \in Loops /\ Shares(f, d) => Alive(d))
    BY <2>1 DEF TcpPost, Shares, Mapped, Alive
  <2>4. (\A g \in Fds : connections_'[g] = d => Alive(d)) /\ (d \in Building' => Alive(d))
    BY <2>2 DEF Alive, Building
  <2> QED
    BY <2>1, <2>2, <2>3, <2>4, AliveBack
<1>4. ASSUME NEW l \in Loops, NEW c \in Conns, HandleConnectionClose(l, c) PROVE Alive(d)
  <2> DEFINE f == Functor("closeConnection", c)
  <2>1. f \in Functors /\ f.conn = c /\ "handleConnectionClose" \in Ops
    BY DEF Functor, Functors, Ops
  <2>2. /\ Building' = Building
        /\ 1 \in DOMAIN Todos[l] /\ Is(Todos[l][1], "handleConnectionClose", c)
    BY <1>4, <2>1, FunctorFacts DEF HandleConnectionClose
  <2>3. Alive(c) /\ event_loop_[c] \in Loops
    BY <2>2, TodoAlive DEF Is, Shares, LifeInv, Life, Closed, Closes, Registered
  <2>4. batch' = batch /\ Posts(event_loop_[c], f)
    BY <1>4, <2>3 DEF HandleConnectionClose, Posts
  <2>5. (\A g \in Fds : connections_'[g] = d => Alive(d)) /\ (d \in Building' => Alive(d))
    BY <1>0, <1>4, <2>2 DEF HandleConnectionClose, Alive, Building, TypeOK
  <2>6. event_loop_[c] \in Loops /\ Shares(f, d) => Alive(d)
    BY <2>1, <2>3 DEF Shares
  <2> HIDE DEF f
  <2> QED
    BY <2>1, <2>4, <2>5, <2>6, AliveBack
<1>5. ASSUME NEW l \in Loops, NEW c \in Conns, CloseConnectionLoad(l, c) \/ CloseConnection(l, c)
      PROVE Alive(d)
  <2>1. /\ UNCHANGED <<batch, pending, cur, connections_>> /\ at[l] # "inc"
        /\ \E p : p # "inc" /\ at' = [at EXCEPT ![l] = p]
    BY <1>5 DEF CloseConnectionLoad, CloseConnection, Runs, Returns
  <2>2. Building' = Building
    BY <2>1, SameBuilding
  <2> QED
    BY <2>1, <2>2, SilentAlive
<1>6. CASE StartAccept \/ EndAccept \/ \E c \in Conns : AcceptDeny(c)
  <2>1. /\ UNCHANGED <<batch, pending, cur, connections_>> /\ at[Base] # "inc"
        /\ \E p : p # "inc" /\ at' = [at EXCEPT ![Base] = p]
    BY <1>6 DEF StartAccept, EndAccept, AcceptDeny, Accepts, serverVars
  <2>2. Building' = Building
    BY <1>0, <2>1, SameBuilding
  <2> QED
    BY <1>1, <2>1, <2>2, SilentAlive
<1>7. ASSUME NEW c \in Conns, AcceptConn(c) PROVE Alive(d)
  <2>1. c # d /\ UNCHANGED <<batch, pending, connections_>> /\ cur'[Base] = c
    BY <1>0, <1>7 DEF AcceptConn, TypeOK, ReactorTypeOK
  <2>2. d \notin Building'
    BY <2>1 DEF Building
  <2> QED
    BY <2>1, <2>2, SilentAlive
<1>8. ASSUME NEW c \in Conns, HandleNewCon(c) PROVE Alive(d)
  <2> DEFINE f == Functor("handleConnection", c)
  <2>1. f \in Functors /\ f.conn = c
    BY DEF Functor, Functors, Ops
  <2>2. Alive(c) /\ event_loop_[c] \in Loops
    BY <1>8, FreeEntry DEF HandleNewCon, Alive
  <2>3. batch' = batch /\ Posts(event_loop_[c], f)
    BY <1>8, <2>2 DEF HandleNewCon, Posts
  <2>4. \A g \in Fds : connections_'[g] = d => Alive(d)
    BY <1>8, <2>2 DEF HandleNewCon, Alive, TypeOK
  <2>5. d \notin Building'
    BY <1>0, <1>8 DEF HandleNewCon, Building, TypeOK, ReactorTypeOK
  <2>6. event_loop_[c] \in Loops /\ Shares(f, d) => Alive(d)
    BY <2>1, <2>2 DEF Shares
  <2> HIDE DEF f
  <2> QED
    BY <2>1, <2>3, <2>4, <2>5, <2>6, AliveBack
<1>9. ASSUME UNCHANGED <<reactorVars, connections_>> PROVE Alive(d)
  <2>1. Building' = Building
    BY <1>9 DEF Building, reactorVars
  <2> QED
    BY <1>9, <2>1, SilentAlive DEF reactorVars
<1>10. ASSUME NEW c \in Conns, Client(c) PROVE Alive(d)
  BY <1>9, <1>10 DEF Client, ClientConnect, serverVars
<1> QED
  BY <1>1, <1>2, <1>3, <1>4, <1>5, <1>6, <1>7, <1>8, <1>9, <1>10
     DEF Next, LoopStep, AcceptStep, CloseStep, vars, serverVars

(* Every step keeps the descriptors of live connections distinct: accept    *)
(* returns one that is free.                                                *)
LEMMA FdStep ==
    ASSUME TypeOK, TypeOK', BatchInv, BatchInv', ThreadInv, LifeInv, FdInv, [Next]_vars
    PROVE  FdInv'
<1> SUFFICES ASSUME NEW c \in Conns, NEW d \in Conns, Alive(c)', Alive(d)', fd'[c] = fd'[d], c # d
             PROVE  FALSE
  BY DEF FdInv
<1>1. ASSUME NEW a \in Conns, NEW b \in Conns, a # b, AcceptConn(a), Alive(b)', fd'[a] = fd'[b]
      PROVE FALSE
  <2>1. ~AcceptConn(b)
    BY <1>1 DEF AcceptConn, Accepts
  <2>2. Alive(b) /\ fd'[b] = fd[b]
    BY <1>1, <2>1, StillAlive
  <2>3. fd[b] \in OpenFds
    BY <2>2 DEF OpenFds
  <2>4. FreeFds # {} /\ fd' = [fd EXCEPT ![a] = CHOOSE f \in FreeFds : \A g \in FreeFds : f <= g]
    BY <1>1 DEF AcceptConn, Accepts
  <2>5. (CHOOSE f \in FreeFds : \A g \in FreeFds : f <= g) \in FreeFds
    BY <2>4, LowestFd
  <2>6. fd'[a] \in FreeFds
    BY <2>4, <2>5 DEF TypeOK
  <2> QED
    BY <1>1, <2>2, <2>3, <2>6 DEF FreeFds
<1>2. CASE AcceptConn(c)
  BY <1>1, <1>2
<1>3. CASE AcceptConn(d)
  BY <1>1, <1>3
<1>4. CASE ~AcceptConn(c) /\ ~AcceptConn(d)
  BY <1>4, StillAlive DEF FdInv
<1> QED
  BY <1>2, <1>3, <1>4

------------------------------------------------------------------------------
(* The invariant and its consequences                                       *)

(* The inductive invariant.                                                 *)
Inv == TypeOK /\ BatchInv /\ ThreadInv /\ BacklogInv /\ LifeInv /\ FdInv

(* It holds initially,                                                      *)
LEMMA InitInv == Init => Inv
<1> SUFFICES ASSUME Init PROVE Inv
  OBVIOUS
<1> USE DEF Init, ReactorInit, TcpInit
<1>1. TypeOK
  BY TypeInit
<1>2. BatchInv /\ BacklogInv
  BY DEF BatchInv, BacklogInv
<1>3. ThreadInv
  BY DEF ThreadInv
<1>4. \A l \in Loops : Todos[l] = <<>> /\ DOMAIN Todos[l] = {}
  BY DEF Todos, Todo
<1>5. Building = {} /\ \A c \in Conns : event_loop_[c] = None /\ fd[c] = None
  BY DEF Building, Loops
<1>6. ASSUME NEW c \in Conns PROVE Life(c)
  <2>1. Placed(c)
    BY <1>4, ReactorAssumption DEF Placed
  <2>2. Built(c) /\ Entered(c) /\ Closed(c)
    BY <1>4, <1>5 DEF Built, Entered, Closed
  <2>3. Kept(c)
    BY <1>5, ReactorAssumption DEF Kept, Registered
  <2> QED
    BY <2>1, <2>2, <2>3 DEF Life
<1>7. FdInv
  <2>1. \A l \in Loops : Queued(l) = {}
    BY DEF Queued
  <2>2. \A c \in Conns : ~Alive(c)
    BY <2>1, ReactorAssumption DEF Alive, Loops
  <2> QED
    BY <2>2 DEF FdInv
<1> QED
  BY <1>1, <1>2, <1>3, <1>6, <1>7 DEF Inv, LifeInv

(* every step keeps it,                                                     *)
LEMMA InvStep == Inv /\ [Next]_vars => Inv'
<1> SUFFICES ASSUME Inv, [Next]_vars PROVE Inv'
  OBVIOUS
<1>1. TypeOK' /\ BatchInv'
  BY TypeStep, BatchStep DEF Inv
<1> QED
  BY <1>1, ThreadStep, BacklogStep, LifeStep, FdStep DEF Inv

(* The life of every connection is in order in every reachable state: where *)
(* its handler, its entry in the map and its functors are, for any number   *)
(* of clients, loops and descriptors.                                       *)
THEOREM InvHolds == Safety => []Inv
  BY InitInv, InvStep, PTL DEF Safety

(* A connection is taken down once: of handleConnectionClose and            *)
(* closeConnection one functor at most is left to run, and its handler is   *)
(* still registered, so that the assertions of removeHandler                *)
(* (event_loop.cpp:73) hold.                                                *)
THEOREM TakenDownOnce == Safety => []ClosesOnce
<1>1. Inv => ClosesOnce
  <2> SUFFICES ASSUME Inv, NEW c \in Conns, NEW l \in Loops, NEW i \in DOMAIN Todo(l), Closes(Todo(l)[i], c)
               PROVE  /\ \A m \in Loops : \A j \in DOMAIN Todo(m) :
                            Closes(Todo(m)[j], c) => m = l /\ j = i
                      /\ c \in handler_map_[event_loop_[c]]
                      /\ ievents_[c] = {}
    BY DEF ClosesOnce
  <2>1. \A m \in Loops : Todos[m] = Todo(m)
    BY DEF Todos
  <2>2. Closed(c)
    BY DEF Inv, LifeInv, Life
  <2> QED
    BY <2>1, <2>2 DEF Closed, Registered
<1> QED
  BY <1>1, InvHolds, PTL

(* Two handlers registered with a loop never share a descriptor, although   *)
(* descriptors are reused as soon as a connection is destroyed              *)
(* (Pollpoller.cpp:29).                                                     *)
THEOREM OwnDescriptors == Safety => []FdsDistinct
<1>1. Inv => FdsDistinct
  <2> SUFFICES ASSUME Inv, NEW l \in Loops, NEW c \in handler_map_[l], NEW d \in handler_map_[l], fd[c] = fd[d]
               PROVE  c = d
    BY DEF FdsDistinct
  <2>1. c \in Conns /\ d \in Conns
    BY DEF Inv, TypeOK, ReactorTypeOK
  <2>2. Registered(c) /\ Registered(d)
    BY <2>1 DEF Inv, LifeInv, Life, Placed, Registered
  <2>3. Alive(c) /\ Alive(d)
    BY <2>1, <2>2, RegisteredAlive DEF Inv, LifeInv
  <2> QED
    BY <2>1, <2>3 DEF Inv, FdInv
<1> QED
  BY <1>1, InvHolds, PTL

(* handleNewCon never overwrites the entry of another connection in         *)
(* connections_ (server.cpp:60).                                            *)
THEOREM MapKept == Safety => NeverDisplaced
<1>1. Inv /\ [Next]_vars => [\A f \in Fds : connections_[f] # None =>
                               connections_'[f] \in {connections_[f], None}]_vars
  <2> SUFFICES ASSUME Inv, Next, NEW f \in Fds, connections_[f] # None
               PROVE  connections_'[f] \in {connections_[f], None}
    OBVIOUS
  <2>0. TypeOK /\ LifeInv /\ FdInv
    BY DEF Inv
  <2>1. CASE connections_' = connections_
    BY <2>1
  <2>2. ASSUME NEW c \in Conns, HandleNewCon(c) PROVE connections_'[f] = connections_[f]
    <3>1. connections_[fd[c]] = None
      BY <2>0, <2>2, FreeEntry
    <3> QED
      BY <2>0, <2>2, <3>1 DEF HandleNewCon, TypeOK
  <2>3. ASSUME NEW l \in Loops, NEW c \in Conns, HandleConnectionClose(l, c)
        PROVE connections_'[f] \in {connections_[f], None}
    BY <2>0, <2>3 DEF HandleConnectionClose, TypeOK
  <2>4. \/ connections_' = connections_
        \/ \E c \in Conns : HandleNewCon(c)
        \/ \E l \in Loops : \E c \in Conns : HandleConnectionClose(l, c)
    BY DEF Next, LoopStep, ReactorStep, AcceptStep, StartAccept, AcceptDeny, AcceptConn,
         EndAccept, CloseStep, CloseConnectionLoad, CloseConnection, Client,
         ClientConnect, serverVars
  <2> QED
    BY <2>1, <2>2, <2>3, <2>4
<1> QED
  BY <1>1, InvHolds, PTL DEF Safety, NeverDisplaced

------------------------------------------------------------------------------
(* Plain pointers                                                           *)

(* Nothing of a connection is to run behind its closeConnection.            *)
ClosesLast(c) ==
    \A l \in Loops : \A i, j \in DOMAIN Todos[l] :
      Is(Todos[l][i], "closeConnection", c) /\ i < j => Todos[l][j].conn # c

(* closeConnection is to run for c on loop l.                               *)
Closing(l, c) == \E i \in DOMAIN Todos[l] : Is(Todos[l][i], "closeConnection", c)

(* A queued writeInLoop is on its connection's loop, and the map or a       *)
(* closeConnection keeps the connection alive.                              *)
WriteHeld(c) ==
    \A l \in Loops : \A f \in Queued(l) :
      Is(f, "writeInLoop", c) => l = event_loop_[c] /\ (Mapped(c) \/ Closing(l, c))

(* Both, for every connection.                                              *)
WriteInv == \A c \in Conns : ClosesLast(c) /\ WriteHeld(c)

(* A step that leaves connection c in the map or out of it.                 *)
LEMMA WriteKept ==
    ASSUME TypeOK, TypeOK', NEW c \in Conns, NEW ran, NEW m, NEW f \in Functors,
           Moving(ran, m, f), batch' = batch, Posts(m, f),
           Closed(c), ClosesLast(c), WriteHeld(c),
           Mapped(c)' <=> Mapped(c), event_loop_'[c] = event_loop_[c],
           \A x \in Loops : x \in ran => ~Is(Todos[x][1], "closeConnection", c),
           m \in Loops /\ f.conn = c =>
             /\ Mapped(c) /\ f.op # "closeConnection"
             /\ f.op = "writeInLoop" => m = event_loop_[c]
    PROVE  ClosesLast(c)' /\ WriteHeld(c)'
<1>1. ClosesLast(c)'
  <2> SUFFICES ASSUME NEW l \in Loops, NEW i \in DOMAIN Todos'[l], NEW j \in DOMAIN Todos'[l],
                      Is(Todos'[l][i], "closeConnection", c), i < j, Todos'[l][j].conn = c
               PROVE  FALSE
    BY DEF ClosesLast
  <2>1. /\ i \in Nat /\ j \in Nat /\ Shift(l, ran) \in {0, 1}
        /\ i + Shift(l, ran) \in DOMAIN Todos[l] /\ Todos'[l][i] = Todos[l][i + Shift(l, ran)]
    BY Slots DEF Is
  <2>2. ~Mapped(c)
    BY <2>1 DEF Closed, Closes, Is
  <2>3. j + Shift(l, ran) \in DOMAIN Todos[l] /\ Todos'[l][j] = Todos[l][j + Shift(l, ran)]
    BY <2>2, Slots
  <2>4. i + Shift(l, ran) < j + Shift(l, ran)
    BY <2>1
  <2> QED
    BY <2>1, <2>3, <2>4 DEF ClosesLast
<1>2. ASSUME NEW l \in Loops, Closing(l, c) PROVE Closing(l, c)'
  <2>1. PICK i \in DOMAIN Todos[l] : Is(Todos[l][i], "closeConnection", c)
    BY <1>2 DEF Closing
  <2>2. i - Shift(l, ran) \in DOMAIN Todos'[l] /\ Todos'[l][i - Shift(l, ran)] = Todos[l][i]
    BY <2>1, Slots
  <2> QED
    BY <2>1, <2>2 DEF Closing
<1>3. WriteHeld(c)'
  <2> SUFFICES ASSUME NEW l \in Loops, NEW h \in Queued(l)', Is(h, "writeInLoop", c)
               PROVE  l = event_loop_'[c] /\ (Mapped(c)' \/ Closing(l, c)')
    BY DEF WriteHeld
  <2>0. Queued(l)' \subseteq Queued(l) \cup (IF l = m THEN {f} ELSE {})
    BY PostsQueued
  <2>1. CASE h \in Queued(l)
    BY <1>2, <2>1 DEF WriteHeld
  <2>2. CASE l = m /\ h = f
    BY <2>2 DEF Is
  <2> QED
    BY <2>0, <2>1, <2>2
<1> QED
  BY <1>1, <1>3

(* A step that leaves the queues of functors to run alone.                  *)
LEMMA WriteIdle ==
    ASSUME WriteInv, Todos' = Todos, \A l \in Loops : Queued(l)' \subseteq Queued(l),
           UNCHANGED <<event_loop_, fd, connections_>>
    PROVE  WriteInv'
<1>1. \A c \in Conns : Mapped(c)' <=> Mapped(c)
  BY DEF Mapped
<1>2. \A c \in Conns, l \in Loops : Closing(l, c)' <=> Closing(l, c)
  BY DEF Closing
<1>3. \A c \in Conns : ClosesLast(c)'
  BY DEF WriteInv, ClosesLast
<1>4. \A c \in Conns : WriteHeld(c)'
  BY <1>1, <1>2 DEF WriteInv, WriteHeld
<1> QED
  BY <1>3, <1>4 DEF WriteInv

(* The functors a step of a connection runs are not closeConnection.        *)
LEMMA TcpMoves ==
    ASSUME TypeOK, TypeOK', BatchInv, BatchInv', ThreadInv, LifeInv,
           NEW l \in Loops, NEW c \in Conns, TcpStep(l, c), UNCHANGED serverVars
    PROVE  \E ran :
             /\ \A m : \A f \in Functors : Posts(m, f) => Moving(ran, m, f)
             /\ \A x \in Loops : x \in ran => Todos[x][1].op # "closeConnection"
<1>1. CASE TakeHandler(l, c) \/ LeaveHandler(l, c)
  <2>1. HandlerStep(l, c)
    BY <1>1 DEF HandlerStep, serverVars, tcpVars, TcpStep, HandleReadMessage, HandleReadClose,
       SkipRead,
                HandleWriteSome, HandleWriteFails, HandleWriteDies, SkipWrite, HandleConnection,
                WriteDropped, WriteNow, WriteDies, WriteComplete
  <2>2. \A m : \A f \in Functors : Posts(m, f) => Moving({}, m, f)
    BY <2>1, HandlerFacts
  <2> QED
    BY <2>2
<1>2. ASSUME NEW op \in Ops, op # "closeConnection", Runs(l, op, c), Returns(l), UNCHANGED <<cur, batch>>
      PROVE  \E ran :
               /\ \A m : \A f \in Functors : Posts(m, f) => Moving(ran, m, f)
               /\ \A x \in Loops : x \in ran => Todos[x][1].op # "closeConnection"
  <2>1. /\ \A m : \A f \in Functors : Posts(m, f) => Moving({l}, m, f)
        /\ Is(Todos[l][1], op, c)
    BY <1>2, FunctorFacts
  <2> QED
    BY <1>2, <2>1 DEF Is
<1>3. /\ "handleConnection" \in Ops /\ "writeInLoop" \in Ops /\ "writeComplete" \in Ops
      /\ "handleConnection" # "closeConnection" /\ "writeInLoop" # "closeConnection"
      /\ "writeComplete" # "closeConnection"
  BY DEF Ops
<1>4. CASE HandleConnection(l, c)
  BY <1>2, <1>3, <1>4 DEF HandleConnection
<1>5. CASE WriteDropped(l, c) \/ WriteNow(l, c) \/ WriteDies(l, c)
  BY <1>2, <1>3, <1>5 DEF WriteDropped, WriteNow, WriteDies
<1>6. CASE WriteComplete(l, c)
  BY <1>2, <1>3, <1>6 DEF WriteComplete
<1> QED
  BY <1>1, <1>4, <1>5, <1>6 DEF TcpStep, HandleReadMessage, HandleReadClose, SkipRead,
         HandleWriteSome, HandleWriteFails, HandleWriteDies, SkipWrite

(* The steps of a connection keep it: a connection that has left the map is *)
(* not written to any more,                                                 *)
LEMMA TcpWrites ==
    ASSUME "write" \notin OnComplete, TypeOK, TypeOK', BatchInv, BatchInv', ThreadInv, LifeInv,
           WriteInv, NEW l \in Loops, NEW c \in Conns, TcpStep(l, c), UNCHANGED serverVars
    PROVE  WriteInv'
<1>1. PICK m : \E f \in Functors : TcpPost(m, f, c)
  BY TcpPosts
<1>2. PICK f \in Functors : TcpPost(m, f, c)
  BY <1>1
<1>3. PICK ran :
        /\ \A n : \A g \in Functors : Posts(n, g) => Moving(ran, n, g)
        /\ \A x \in Loops : x \in ran => Todos[x][1].op # "closeConnection"
  BY TcpMoves
<1>4. batch' = batch
  BY TcpPosts
<1>5. Posts(m, f) /\ Moving(ran, m, f)
  BY <1>2, <1>3 DEF TcpPost
<1>6. UNCHANGED <<event_loop_, fd, connections_>>
  BY DEF serverVars, tcpVars, TcpStep, HandleReadMessage, HandleReadClose, SkipRead,
         HandleWriteSome, HandleWriteFails, HandleWriteDies, SkipWrite, HandleConnection,
         WriteDropped, WriteNow, WriteDies, WriteComplete
<1>7. ASSUME NEW d \in Conns PROVE ClosesLast(d)' /\ WriteHeld(d)'
  <2>1. Closed(d) /\ ClosesLast(d) /\ WriteHeld(d)
    BY DEF LifeInv, Life, WriteInv
  <2>2. (Mapped(d)' <=> Mapped(d)) /\ event_loop_'[d] = event_loop_[d]
    BY <1>6 DEF Mapped
  <2>3. \A x \in Loops : x \in ran => ~Is(Todos[x][1], "closeConnection", d)
    BY <1>3 DEF Is
  <2>4. m \in Loops /\ f.conn = d =>
             /\ Mapped(d) /\ f.op # "closeConnection"
             /\ f.op = "writeInLoop" => m = event_loop_[d]
    BY <1>2 DEF TcpPost
  <2> QED
    BY <1>4, <1>5, <2>1, <2>2, <2>3, <2>4, WriteKept
<1> QED
  BY <1>7 DEF WriteInv

(* closing keeps it: closeConnection comes behind the writes,               *)
LEMMA CloseWrites ==
    ASSUME TypeOK, TypeOK', BatchInv, BatchInv', ThreadInv, LifeInv,
           WriteInv, NEW l \in Loops, NEW c \in Conns, CloseStep(l, c)
    PROVE  WriteInv'
<1>1. CASE HandleConnectionClose(l, c)
  <2> DEFINE f == Functor("closeConnection", c)
  <2>1. /\ Runs(l, "handleConnectionClose", c) /\ Returns(l)
        /\ UNCHANGED <<cur, batch, event_loop_, fd>>
        /\ connections_' = [connections_ EXCEPT ![fd[c]] = None]
        /\ pending' = AddFunctor(event_loop_[c], f)
    BY <1>1 DEF HandleConnectionClose, tcpVars
  <2>2. f \in Functors /\ Is(f, "closeConnection", c) /\ "handleConnectionClose" \in Ops
    BY DEF Functor, Functors, Ops, Is
  <2>3. /\ 1 \in DOMAIN Todos[l] /\ Is(Todos[l][1], "handleConnectionClose", c)
        /\ \A m : \A g \in Functors : Posts(m, g) => Moving({l}, m, g)
    BY <2>1, <2>2, FunctorFacts
  <2>4. Mapped(c) /\ event_loop_[c] \in Loops
    BY <2>3 DEF LifeInv, Life, Closed, Closes, Is, Registered
  <2>5. Posts(event_loop_[c], f)
    BY <2>1, <2>4 DEF Posts
  <2>6. Moving({l}, event_loop_[c], f)
    BY <2>2, <2>3, <2>5
  <2> HIDE DEF f
  <2>7. \A d \in Conns \ {c} : Mapped(d)' <=> Mapped(d)
    BY <2>1, <2>4, ReactorAssumption DEF Mapped, TypeOK
  <2>8. ASSUME NEW d \in Conns \ {c} PROVE ClosesLast(d)' /\ WriteHeld(d)'
    <3>1. Closed(d) /\ ClosesLast(d) /\ WriteHeld(d)
      BY DEF LifeInv, Life, WriteInv
    <3>2. \A x \in Loops : x \in {l} => ~Is(Todos[x][1], "closeConnection", d)
      BY <2>3 DEF Is
    <3> QED
      BY <2>1, <2>2, <2>5, <2>6, <2>7, <2>8, <3>1, <3>2, WriteKept DEF Is
  <2>9. ClosesLast(c)'
    <3> SUFFICES ASSUME NEW x \in Loops, NEW i \in DOMAIN Todos'[x], NEW j \in DOMAIN Todos'[x],
                        Is(Todos'[x][i], "closeConnection", c), i < j
                 PROVE  FALSE
      BY DEF ClosesLast
    <3>1. \A y \in Loops : \A k \in DOMAIN Todos[y] : Closes(Todos[y][k], c) => y = l /\ k = 1
      BY <2>3 DEF LifeInv, Life, Closed, Closes, Is
    <3>2. /\ i \in Nat \ {0} /\ Shift(x, {l}) \in {0, 1} /\ Len(Todos[x]) \in Nat
          /\ i + Shift(x, {l}) = Len(Todos[x]) + 1
      <4>1. /\ i \in Nat \ {0} /\ Shift(x, {l}) \in {0, 1} /\ Len(Todos[x]) \in Nat
            /\ \/ /\ i + Shift(x, {l}) \in DOMAIN Todos[x]
                  /\ Todos'[x][i] = Todos[x][i + Shift(x, {l})]
                  /\ ~(x = l /\ i + Shift(x, {l}) = 1)
               \/ i + Shift(x, {l}) = Len(Todos[x]) + 1
        BY <2>6, RanSlots
      <4>2. Closes(Todos'[x][i], c)
        BY DEF Closes, Is
      <4> QED
        BY <3>1, <4>1, <4>2
    <3>3. /\ j \in Nat \ {0}
          /\ j + Shift(x, {l}) \in DOMAIN Todos[x] \/ j + Shift(x, {l}) = Len(Todos[x]) + 1
      BY <2>6, RanSlots
    <3>4. DOMAIN Todos[x] = 1..Len(Todos[x])
      BY TodosType
    <3> QED
      BY <3>2, <3>3, <3>4
  <2>10. WriteHeld(c)'
    <3> SUFFICES ASSUME NEW x \in Loops, NEW h \in Queued(x)', Is(h, "writeInLoop", c)
                 PROVE  x = event_loop_'[c] /\ Closing(x, c)'
      BY DEF WriteHeld
    <3>1. Queued(x)' \subseteq Queued(x) \cup (IF x = event_loop_[c] THEN {f} ELSE {})
      BY <2>1, <2>2, <2>5, PostsQueued
    <3>2. h \in Queued(x)
      BY <2>2, <3>1 DEF Is
    <3>3. x = event_loop_[c]
      BY <3>2 DEF WriteInv, WriteHeld
    <3>4. Closing(x, c)'
      BY <2>2, <2>4, <2>6, <3>3, Slots DEF Closing
    <3> QED
      BY <2>1, <3>3, <3>4
  <2> QED
    BY <2>8, <2>9, <2>10 DEF WriteInv
<1>2. CASE CloseConnectionLoad(l, c)
  <2>1. /\ at[l] = "run" /\ at' = [at EXCEPT ![l] = "dec"]
        /\ UNCHANGED <<batch, pending, event_loop_, fd, connections_>>
    BY <1>2 DEF CloseConnectionLoad, Runs
  <2>2. \A x \in Loops : Todo(x)' = Todo(x)
    BY <2>1 DEF Todo, TypeOK, ReactorTypeOK
  <2>3. Todos' = Todos /\ \A x \in Loops : Queued(x)' = Queued(x)
    BY <2>1, <2>2 DEF Todos, Queued
  <2> QED
    BY <2>1, <2>3, WriteIdle
<1>3. CASE CloseConnection(l, c)
  <2> DEFINE f == Functor("closeConnection", c)
  <2>1. /\ at[l] = "dec" /\ batch[l] # <<>> /\ Head(batch[l]).op = "closeConnection"
        /\ Head(batch[l]).conn = c
        /\ Returns(l)
        /\ UNCHANGED <<cur, batch, pending, event_loop_, fd, connections_>>
    BY <1>3 DEF CloseConnection, tcpVars, BatchInv, ThreadInv
  <2>2. f \in Functors
    BY DEF Functor, Functors, Ops
  <2>3. Posts(None, f) /\ None \notin Loops
    BY <2>1, ReactorAssumption DEF Posts
  <2>4. Moving({l}, None, f) /\ 1 \in DOMAIN Todos[l] /\ Is(Todos[l][1], "closeConnection", c)
    BY <2>1, <2>2, <2>3, FunctorMoves DEF Is
  <2> HIDE DEF f
  <2>5. \A d \in Conns : Mapped(d)' <=> Mapped(d)
    BY <2>1 DEF Mapped
  <2>6. ASSUME NEW d \in Conns \ {c} PROVE ClosesLast(d)' /\ WriteHeld(d)'
    <3>1. Closed(d) /\ ClosesLast(d) /\ WriteHeld(d)
      BY DEF LifeInv, Life, WriteInv
    <3>2. \A x \in Loops : x \in {l} => ~Is(Todos[x][1], "closeConnection", d)
      BY <2>4 DEF Is
    <3> QED
      BY <2>1, <2>2, <2>3, <2>4, <2>5, <3>1, <3>2, WriteKept
  <2>7. ClosesLast(c)'
    <3>1. \A y \in Loops : \A k \in DOMAIN Todos[y] : Closes(Todos[y][k], c) => y = l /\ k = 1
      BY <2>4 DEF LifeInv, Life, Closed, Closes, Is
    <3>2. ASSUME NEW x \in Loops, NEW i \in DOMAIN Todos'[x], Is(Todos'[x][i], "closeConnection", c)
          PROVE  FALSE
      <4>1. /\ i + Shift(x, {l}) \in DOMAIN Todos[x]
            /\ Todos'[x][i] = Todos[x][i + Shift(x, {l})]
            /\ ~(x = l /\ i + Shift(x, {l}) = 1)
        BY <2>3, <2>4, RanSlots
      <4>2. Closes(Todos[x][i + Shift(x, {l})], c)
        BY <3>2, <4>1 DEF Closes, Is
      <4> QED
        BY <3>1, <4>1, <4>2
    <3> QED
      BY <3>2 DEF ClosesLast
  <2>8. WriteHeld(c)'
    <3> SUFFICES ASSUME NEW x \in Loops, NEW h \in Queued(x)', Is(h, "writeInLoop", c)
                 PROVE  FALSE
      BY DEF WriteHeld
    <3>1. Queued(x)' = Queued(x)
      BY <2>1 DEF Queued
    <3>2. x = event_loop_[c] /\ l = event_loop_[c]
      BY <2>4, <3>1 DEF WriteInv, WriteHeld, LifeInv, Life, Placed, Is
    <3>3. Entries(Todos[l]) = Queued(l)
      BY <2>1, TodoQueued
    <3>4. PICK j \in DOMAIN Todos[l] : Todos[l][j] = h
      BY <3>1, <3>2, <3>3 DEF Entries
    <3>5. j = 1 \/ 1 < j
      <4>1. DOMAIN Todos[l] = 1..Len(Todos[l]) /\ Len(Todos[l]) \in Nat
        BY TodosType
      <4> QED
        BY <4>1
    <3> QED
      BY <2>4, <3>4, <3>5 DEF Is, WriteInv, ClosesLast
  <2> QED
    BY <2>6, <2>7, <2>8 DEF WriteInv
<1> QED
  BY <1>1, <1>2, <1>3 DEF CloseStep

(* and accepting does.                                                      *)
LEMMA AcceptWrites ==
    ASSUME TypeOK, TypeOK', BatchInv, BatchInv', ThreadInv, BacklogInv, LifeInv, FdInv,
           WriteInv, AcceptStep
    PROVE  WriteInv'
<1>0. Base \in Loops /\ None \notin Loops /\ None \notin Conns
  BY ReactorAssumption DEF Loops
<1>1. CASE StartAccept \/ EndAccept \/ \E c \in Conns : AcceptDeny(c)
  <2>1. /\ UNCHANGED <<pending, batch, event_loop_, fd, connections_>>
        /\ at[Base] # "pop" /\ \E p : p # "pop" /\ at' = [at EXCEPT ![Base] = p]
    BY <1>1 DEF StartAccept, EndAccept, AcceptDeny, Accepts, tcpVars, serverVars
  <2>2. \A x \in Loops : Todo(x)' = Todo(x)
    BY <2>1 DEF Todo, TypeOK, ReactorTypeOK
  <2>3. Todos' = Todos /\ \A x \in Loops : Queued(x)' = Queued(x)
    BY <2>1, <2>2 DEF Todos, Queued
  <2> QED
    BY <2>1, <2>3, WriteIdle
<1>2. ASSUME NEW c \in Conns, AcceptConn(c) PROVE WriteInv'
  <2>1. /\ UNCHANGED <<pending, batch, connections_>>
        /\ \A d \in Conns \ {c} : event_loop_'[d] = event_loop_[d] /\ fd'[d] = fd[d]
        /\ at[Base] # "pop" /\ at' = [at EXCEPT ![Base] = "inc"]
    BY <1>2 DEF AcceptConn, Accepts, TypeOK, TcpTypeOK
  <2>2. \A x \in Loops : Todo(x)' = Todo(x)
    BY <2>1 DEF Todo, TypeOK, ReactorTypeOK
  <2>3. Todos' = Todos /\ \A x \in Loops : Queued(x)' = Queued(x)
    BY <2>1, <2>2 DEF Todos, Queued
  <2>4. event_loop_[c] = None
    <3>1. 1 \in DOMAIN backlog /\ backlog[1] = c
      BY <1>2 DEF AcceptConn, Accepts, TypeOK
    <3> QED
      BY <3>1 DEF BacklogInv
  <2>5. \A d \in Conns : ClosesLast(d)'
    BY <2>3 DEF WriteInv, ClosesLast
  <2>6. WriteHeld(c)'
    BY <1>0, <2>3, <2>4 DEF WriteInv, WriteHeld
  <2>7. ASSUME NEW d \in Conns \ {c} PROVE WriteHeld(d)'
    <3>1. Mapped(d)' <=> Mapped(d)
      BY <2>1 DEF Mapped
    <3>2. \A l \in Loops : Closing(l, d)' <=> Closing(l, d)
      BY <2>3 DEF Closing
    <3> QED
      BY <2>1, <2>3, <3>1, <3>2 DEF WriteInv, WriteHeld
  <2> QED
    BY <2>5, <2>6, <2>7 DEF WriteInv
<1>3. ASSUME NEW c \in Conns, HandleNewCon(c) PROVE WriteInv'
  <2> DEFINE f == Functor("handleConnection", c)
  <2>1. /\ at[Base] = "inc" /\ at' = [at EXCEPT ![Base] = "accept"]
        /\ connections_' = [connections_ EXCEPT ![fd[c]] = c]
        /\ pending' = AddFunctor(event_loop_[c], f)
        /\ UNCHANGED <<batch, event_loop_, fd>>
    BY <1>3 DEF HandleNewCon, tcpVars
  <2>2. /\ c \in Building /\ event_loop_[c] \in Loops /\ fd[c] \in Fds
        /\ connections_[fd[c]] = None
    BY <1>3, FreeEntry
  <2>3. f \in Functors /\ f.conn = c /\ f.op = "handleConnection"
    BY DEF Functor, Functors, Ops
  <2>4. Posts(event_loop_[c], f)
    BY <2>1, <2>2 DEF Posts
  <2>5. Moving({}, event_loop_[c], f)
    BY <1>0, <2>1, <2>3, <2>4, HandlerMoves
  <2> HIDE DEF f
  <2>6. Mapped(c)' /\ \A d \in Conns \ {c} : Mapped(d)' <=> Mapped(d)
    BY <1>0, <2>1, <2>2 DEF Mapped, TypeOK
  <2>7. ASSUME NEW d \in Conns \ {c} PROVE ClosesLast(d)' /\ WriteHeld(d)'
    <3>1. Closed(d) /\ ClosesLast(d) /\ WriteHeld(d)
      BY DEF LifeInv, Life, WriteInv
    <3> QED
      BY <2>1, <2>3, <2>4, <2>5, <2>6, <3>1, WriteKept
  <2>8. ClosesLast(c)'
    <3>1. \A x \in Loops : \A i \in DOMAIN Todos[x] : Todos[x][i].conn # c
      BY <2>2 DEF LifeInv, Life, Built
    <3>2. \A x \in Loops : \A i \in DOMAIN Todos'[x] : ~Is(Todos'[x][i], "closeConnection", c)
      BY <2>3, <2>5, <3>1, PostSlots DEF Is
    <3> QED
      BY <3>2 DEF ClosesLast
  <2>9. WriteHeld(c)'
    <3> SUFFICES ASSUME NEW x \in Loops, NEW h \in Queued(x)', Is(h, "writeInLoop", c)
                 PROVE  x = event_loop_'[c]
      BY <2>6 DEF WriteHeld
    <3>1. Queued(x)' \subseteq Queued(x) \cup (IF x = event_loop_[c] THEN {f} ELSE {})
      BY <2>1, <2>3, <2>4, PostsQueued
    <3>2. h \in Queued(x)
      BY <2>3, <3>1 DEF Is
    <3> QED
      BY <2>1, <3>2 DEF WriteInv, WriteHeld
  <2> QED
    BY <2>7, <2>8, <2>9 DEF WriteInv
<1> QED
  BY <1>1, <1>2, <1>3 DEF AcceptStep

(* Every step keeps it.                                                     *)
LEMMA WriteStep ==
    ASSUME "write" \notin OnComplete, Inv, Inv', WriteInv, [Next]_vars
    PROVE  WriteInv'
<1> USE DEF Inv
<1>1. ASSUME UNCHANGED <<reactorVars, tcpVars, fd, connections_>> PROVE WriteInv'
  <2>1. \A x \in Loops : Todo(x)' = Todo(x) /\ Queued(x)' = Queued(x)
    BY <1>1 DEF Todo, Queued, reactorVars
  <2>2. Todos' = Todos
    BY <2>1 DEF Todos
  <2> QED
    BY <1>1, <2>1, <2>2, WriteIdle DEF tcpVars
<1>2. ASSUME NEW c \in Conns, Client(c) PROVE WriteInv'
  BY <1>1, <1>2 DEF Client, ClientConnect, serverVars
<1>3. ASSUME NEW l \in Loops, ReactorStep(l) PROVE WriteInv'
  <2>1. Todos' = Todos
    BY <1>3, ReactorTodos
  <2>2. \A x \in Loops : Queued(x)' \subseteq Queued(x)
    BY <1>3, ReactorQueued
  <2> QED
    BY <1>3, <2>1, <2>2, WriteIdle DEF ReactorStep, tcpVars, serverVars
<1> QED
  BY <1>1, <1>2, <1>3, TcpWrites, CloseWrites, AcceptWrites
     DEF Next, LoopStep, vars, serverVars

(* What is held that way is alive when it is used.                          *)
LEMMA HeldAlive ==
    ASSUME Inv, WriteInv
    PROVE  NoDangling
<1> USE DEF Inv
<1>1. ASSUME NEW c \in Conns, NEW l \in Loops, c \in handler_map_[l] PROVE Alive(c)
  BY <1>1, RegisteredAlive DEF LifeInv, Life, Placed, Registered
<1>2. ASSUME NEW c \in Conns, NEW l \in Loops, c \in ess[l] PROVE Alive(c)
  BY <1>1, <1>2, ReactorAssumption DEF ThreadInv
<1>3. ASSUME NEW c \in Conns, NEW l \in Loops, c = cur[l] PROVE Alive(c)
  <2>1. CASE at[l] = "write"
    BY <1>1, <1>3, <2>1 DEF ThreadInv
  <2>2. CASE at[l] = "inc"
    BY <1>3, <2>2 DEF ThreadInv, Alive
  <2> QED
    BY <1>3, <2>1, <2>2, ReactorAssumption DEF ThreadInv
<1>4. ASSUME NEW c \in Conns, NEW l \in Loops, Functor("writeInLoop", c) \in Queued(l)
      PROVE Alive(c)
  <2>1. Is(Functor("writeInLoop", c), "writeInLoop", c)
    BY DEF Is, Functor
  <2>2. CASE Mapped(c)
    BY <2>2 DEF Mapped, Alive
  <2>3. CASE Closing(l, c)
    BY <2>3, TodoAlive DEF Closing, Is, Shares
  <2> QED
    BY <1>4, <2>1, <2>2, <2>3 DEF WriteInv, WriteHeld
<1> QED
  BY <1>1, <1>2, <1>3, <1>4 DEF NoDangling

(* No handler in a poller, no handler to dispatch and no writeInLoop, which *)
(* holds a plain this, is left for a TcpConnection that is gone             *)
(* (tcp_connection.cpp:28-31, 132-134), as long as the write-complete       *)
(* callback does not write.                                                 *)
THEOREM NoneDangles ==
    ASSUME "write" \notin OnComplete
    PROVE  Safety => []NoDangling
<1>1. Init => WriteInv
  <2> SUFFICES ASSUME Init PROVE WriteInv
    OBVIOUS
  <2>1. \A l \in Loops : DOMAIN Todos[l] = {} /\ Queued(l) = {}
    BY DEF Init, ReactorInit, Todos, Todo, Queued
  <2> QED
    BY <2>1 DEF WriteInv, ClosesLast, WriteHeld
<1>2. Inv /\ Inv' /\ WriteInv /\ [Next]_vars => WriteInv'
  BY WriteStep
<1>3. Inv /\ WriteInv => NoDangling
  BY HeldAlive
<1> QED
  BY <1>1, <1>2, <1>3, InvHolds, PTL DEF Safety

------------------------------------------------------------------------------
(* The counter                                                              *)

(* What the counter means when there is one thread.                         *)
CountInv ==
    /\ IsFiniteSet(Unclosed)
    /\ connection_number_ = Cardinality(Unclosed)
    /\ connection_number_ <= connection_high_water_ + 1
    /\ at[Base] \in {"inc", "dec"} => reg[Base] = connection_number_
    /\ at[Base] = "inc" => reg[Base] <= connection_high_water_
    /\ at[Base] = "pop" /\ Head(batch[Base]).op = "handleConnection" =>
         Head(batch[Base]).conn \in handler_map_[Base]

(* Posting takes nothing away.                                              *)
LEMMA PostsKeep ==
    ASSUME TypeOK, NEW m, NEW f \in Functors, batch' = batch, Posts(m, f)
    PROVE  \A l \in Loops : Queued(l) \subseteq Queued(l)'
<1>0. ASSUME NEW l \in Loops PROVE Queued(l) \subseteq Queued(l)'
  <2>1. Queued(l)' = Entries(pending'[l]) \cup Entries(batch[l])
    BY DEF Queued, Entries
  <2>2. pending[l] \in Seq(Functors)
    BY DEF TypeOK, ReactorTypeOK
  <2>3. CASE l = m /\ pending' = AddFunctor(m, f)
    <3>1. pending'[l] = Append(pending[l], f)
      BY <2>3 DEF TypeOK, ReactorTypeOK, AddFunctor
    <3>2. Entries(pending'[l]) = Entries(pending[l]) \cup {f}
      BY <2>2, <3>1, AppendEntries
    <3> QED
      BY <2>1, <3>2, QueuedEntries
  <2>4. CASE pending'[l] = pending[l]
    BY <2>1, <2>4, QueuedEntries
  <2> QED
    BY <2>3, <2>4 DEF Posts, AddFunctor, TypeOK, ReactorTypeOK
<1> QED
  BY <1>0

(* Only handleConnection and the poller say whether a connection counts.    *)
LEMMA SameUnclosed ==
    ASSUME TypeOK, NEW m, NEW f \in Functors, batch' = batch, Posts(m, f),
           m \in Loops => f.op # "handleConnection",
           handler_map_' = handler_map_
    PROVE  Unclosed' = Unclosed
<1>1. \A l \in Loops : /\ Queued(l) \subseteq Queued(l)'
                       /\ Queued(l)' \subseteq Queued(l) \cup (IF l = m THEN {f} ELSE {})
  BY PostsKeep, PostsQueued
<1>2. \A c : Functor("handleConnection", c).op = "handleConnection"
  BY DEF Functor
<1>3. \A l \in Loops, c \in Conns :
         Functor("handleConnection", c) \in Queued(l)' <=> Functor("handleConnection", c) \in Queued(l)
  BY <1>1, <1>2
<1> QED
  BY <1>3 DEF Unclosed

(* A step that leaves the counter and what it counts alone.                 *)
LEMMA CountKept ==
    ASSUME CountInv, TypeOK', Unclosed' = Unclosed, connection_number_' = connection_number_,
           at'[Base] \notin {"inc", "dec"},
           at'[Base] = "pop" /\ Head(batch'[Base]).op = "handleConnection" =>
             Head(batch'[Base]).conn \in handler_map_'[Base]
    PROVE  CountInv'
  BY DEF CountInv, connection_high_water_

(* The high water is a natural number.                                      *)
LEMMA HighWaterType == connection_high_water_ \in Nat
  BY ServerAssumption DEF connection_high_water_

(* The loop's own steps keep the count,                                     *)
LEMMA ReactorCount ==
    ASSUME Loops = {Base}, TypeOK, TypeOK', BatchInv, ThreadInv, CountInv, ReactorStep(Base)
    PROVE  CountInv'
<1>0. /\ batch \in [Loops -> Seq(Functors)] /\ pending \in [Loops -> Seq(Functors)]
      /\ at \in [Loops -> Places] /\ Base \in Loops
  BY DEF TypeOK, ReactorTypeOK
<1>1. /\ connection_number_' = connection_number_ /\ handler_map_' = handler_map_
      /\ at'[Base] \notin {"inc", "dec", "pop"}
  BY <1>0 DEF ReactorStep, Wait, PopAll, PopFunctor, EndRun, serverVars
<1>2. Unclosed' = Unclosed
  <2>1. CASE UNCHANGED <<pending, batch>>
    BY <1>1, <2>1 DEF Unclosed, Queued
  <2>2. CASE PopAll(Base)
    <3>1. batch[Base] = <<>> /\ batch'[Base] = pending[Base] /\ pending'[Base] = <<>>
      BY <1>0, <2>2 DEF PopAll, ThreadInv
    <3>2. Queued(Base)' = Queued(Base)
      BY <3>1 DEF Queued
    <3> QED
      BY <1>1, <3>2 DEF Unclosed
  <2>3. CASE PopFunctor(Base)
    <3>1. /\ batch[Base] \in Seq(Functors) /\ batch[Base] # <<>>
          /\ batch'[Base] = Tail(batch[Base]) /\ pending'[Base] = pending[Base]
      BY <1>0, <2>3 DEF PopFunctor, BatchInv
    <3>2. Entries(batch[Base]) = {Head(batch[Base])} \cup Entries(Tail(batch[Base]))
      BY <3>1, HeadEntries
    <3>3. Queued(Base)' = Entries(pending[Base]) \cup Entries(Tail(batch[Base]))
      BY <3>1 DEF Queued, Entries
    <3>4. Queued(Base) = Queued(Base)' \cup {Head(batch[Base])}
      BY <3>2, <3>3, QueuedEntries
    <3>5. ASSUME NEW c \in Conns, Head(batch[Base]) = Functor("handleConnection", c)
          PROVE  c \in handler_map_[Base]
      BY <2>3, <3>5 DEF PopFunctor, CountInv, Functor
    <3> QED
      BY <1>1, <3>4, <3>5 DEF Unclosed
  <2> QED
    BY <2>1, <2>2, <2>3 DEF ReactorStep, Wait, EndRun
<1> QED
  BY <1>1, <1>2, CountKept

(* the steps of a connection keep it: handleConnection registers what it    *)
(* counted before,                                                          *)
LEMMA TcpCount ==
    ASSUME Loops = {Base}, TypeOK, TypeOK', BatchInv, BatchInv', ThreadInv, LifeInv, CountInv,
           NEW c \in Conns, TcpStep(Base, c), UNCHANGED serverVars
    PROVE  CountInv'
<1>0. Base \in Loops /\ connection_number_' = connection_number_ /\ batch' = batch
  BY TcpPosts DEF serverVars
<1>1. PICK m : \E f \in Functors : TcpPost(m, f, c)
  BY <1>0, TcpPosts
<1>2. PICK f \in Functors : TcpPost(m, f, c)
  BY <1>1
<1>3. Posts(m, f) /\ (m \in Loops => f.op # "handleConnection")
  BY <1>2 DEF TcpPost
<1>4. at'[Base] \notin {"inc", "dec"}
  BY <1>0 DEF TcpStep, HandleReadMessage, HandleReadClose, SkipRead, HandleWriteSome,
     HandleWriteFails,
         HandleWriteDies, SkipWrite, HandleConnection, WriteDropped, WriteNow, WriteDies,
         WriteComplete,
         TakeHandler, LeaveHandler, Returns, TypeOK, ReactorTypeOK
<1>5. CASE HandleConnection(Base, c)
  <2>1. Functor("handleConnection", c) \in Queued(Base) /\ event_loop_[c] = Base
    <3>1. /\ at[Base] = "run" /\ batch[Base] # <<>>
          /\ Head(batch[Base]) = Functor("handleConnection", c)
      BY <1>5 DEF HandleConnection, Runs
    <3>2. 1 \in DOMAIN Todos[Base] /\ Todos[Base][1] = Functor("handleConnection", c)
      BY <1>0, <3>1, HeadTodo
    <3> QED
      BY <1>0, <3>2, TodoQueued DEF Entries, LifeInv, Life, Placed, Functor
  <2>2. handler_map_'[Base] = handler_map_[Base] \cup {c}
    BY <1>0, <1>5, <2>1 DEF HandleConnection, TypeOK, ReactorTypeOK
  <2>3. /\ Queued(Base) \subseteq Queued(Base)'
        /\ Queued(Base)' \subseteq Queued(Base) \cup (IF Base = m THEN {f} ELSE {})
    BY <1>0, <1>3, PostsKeep, PostsQueued
  <2>4. \A d : Functor("handleConnection", d).op = "handleConnection"
    BY DEF Functor
  <2>5. \A d \in Conns :
         Functor("handleConnection", d) \in Queued(Base)' <=> Functor("handleConnection", d) \in Queued(Base)
    BY <1>0, <1>3, <2>3, <2>4
  <2>6. Unclosed' = Unclosed
    BY <2>1, <2>2, <2>5 DEF Unclosed
  <2>7. Head(batch'[Base]).conn \in handler_map_'[Base]
    BY <1>0, <1>5, <2>2 DEF HandleConnection, Runs, Functor
  <2> QED
    BY <1>0, <1>4, <2>6, <2>7, CountKept
<1>6. CASE ~HandleConnection(Base, c)
  <2>1. handler_map_' = handler_map_
    BY <1>6 DEF TcpStep, HandleReadMessage, HandleReadClose, SkipRead, HandleWriteSome,
       HandleWriteFails,
         HandleWriteDies, SkipWrite, WriteDropped, WriteNow, WriteDies, WriteComplete,
         TakeHandler, LeaveHandler
  <2>2. Unclosed' = Unclosed
    BY <1>0, <1>3, <2>1, SameUnclosed
  <2>3. at'[Base] = "pop" => Head(batch[Base]).op # "handleConnection"
    BY <1>0, <1>6 DEF TcpStep, HandleReadMessage, HandleReadClose, SkipRead, HandleWriteSome,
       HandleWriteFails,
         HandleWriteDies, SkipWrite, WriteDropped, WriteNow, WriteDies, WriteComplete,
         TakeHandler, LeaveHandler, TypeOK, ReactorTypeOK, Runs, Functor
  <2> QED
    BY <1>0, <1>4, <2>2, <2>3, CountKept
<1> QED
  BY <1>5, <1>6

(* closeConnection takes one connection and one off the counter,            *)
LEMMA CloseCount ==
    ASSUME Loops = {Base}, TypeOK, TypeOK', BatchInv, BatchInv', ThreadInv, LifeInv, CountInv,
           NEW c \in Conns, CloseStep(Base, c)
    PROVE  CountInv'
<1>0. Base \in Loops /\ None \notin Loops
  BY ReactorAssumption
<1>a. /\ Functor("closeConnection", c) \in Functors
      /\ Functor("closeConnection", c).op # "handleConnection"
  BY DEF Functor, Functors, Ops
<1>1. CASE HandleConnectionClose(Base, c)
  <2>1. /\ at'[Base] = "pop" /\ batch' = batch /\ handler_map_' = handler_map_
        /\ connection_number_' = connection_number_
        /\ Head(batch[Base]).op # "handleConnection"
    BY <1>0, <1>1 DEF HandleConnectionClose, Returns, Runs, Functor, TypeOK, ReactorTypeOK
  <2>2. event_loop_[c] \in Loops
    <3>1. 1 \in DOMAIN Todos[Base] /\ Closes(Todos[Base][1], c)
      BY <1>0, <1>1, HeadTodo DEF HandleConnectionClose, Runs, Closes, Functor
    <3> QED
      BY <1>0, <3>1 DEF LifeInv, Life, Closed, Registered
  <2>3. Posts(event_loop_[c], Functor("closeConnection", c))
    BY <1>1, <2>2 DEF HandleConnectionClose, Posts
  <2>4. Unclosed' = Unclosed
    BY <1>a, <2>1, <2>3, SameUnclosed
  <2> QED
    BY <2>1, <2>4, CountKept
<1>2. CASE CloseConnectionLoad(Base, c)
  <2>1. /\ at'[Base] = "dec" /\ UNCHANGED <<batch, pending, handler_map_, connection_number_>>
        /\ reg'[Base] = connection_number_
    BY <1>0, <1>2 DEF CloseConnectionLoad, TypeOK, ReactorTypeOK
  <2>2. Unclosed' = Unclosed
    BY <2>1 DEF Unclosed, Queued
  <2> QED
    BY <2>1, <2>2 DEF CountInv, connection_high_water_
<1>3. CASE CloseConnection(Base, c)
  <2>1. /\ at[Base] = "dec" /\ batch[Base] # <<>> /\ Head(batch[Base]).op = "closeConnection"
        /\ Head(batch[Base]).conn = c
        /\ at'[Base] = "pop" /\ UNCHANGED <<batch, pending>>
        /\ connection_number_' = reg[Base] - 1
        /\ handler_map_' = [handler_map_ EXCEPT ![event_loop_[c]] = @ \ {c}]
    BY <1>0, <1>3 DEF CloseConnection, BatchInv, ThreadInv, Returns, TypeOK, ReactorTypeOK
  <2>2. 1 \in DOMAIN Todos[Base] /\ Is(Todos[Base][1], "closeConnection", c)
    BY <1>0, <2>1, HeadTodo DEF Is
  <2>3. Registered(c) /\ event_loop_[c] = Base
    BY <1>0, <2>2 DEF LifeInv, Life, Closed, Placed, Closes, Is
  <2>4. Functor("handleConnection", c) \notin Queued(Base)
    <3>1. Queued(Base) = Entries(Todos[Base])
      BY <1>0, <2>1, TodoQueued
    <3>2. \A i \in DOMAIN Todos[Base] : ~Is(Todos[Base][i], "handleConnection", c)
      BY <1>0, <2>3 DEF LifeInv, Life, Entered, Registered
    <3> QED
      BY <3>1, <3>2 DEF Entries, Is, Functor
  <2>5. c \in Unclosed /\ Unclosed' = Unclosed \ {c}
    <3>1. handler_map_'[Base] = handler_map_[Base] \ {c} /\ Queued(Base)' = Queued(Base)
      BY <1>0, <2>1, <2>3 DEF TypeOK, ReactorTypeOK, Queued
    <3> QED
      BY <2>3, <2>4, <3>1 DEF Unclosed, Registered
  <2>6. IsFiniteSet(Unclosed \ {c}) /\ Cardinality(Unclosed \ {c}) = Cardinality(Unclosed) - 1
    BY <2>5, FS_RemoveElement DEF CountInv
  <2>7. connection_number_ \in Int /\ connection_high_water_ \in Nat
    BY HighWaterType DEF TypeOK
  <2>8. connection_high_water_' = connection_high_water_
    BY DEF connection_high_water_
  <2>9. connection_number_' = connection_number_ - 1
    BY <2>1 DEF CountInv
  <2> HIDE DEF connection_high_water_
  <2>10. connection_number_' = Cardinality(Unclosed)' /\ IsFiniteSet(Unclosed)'
    BY <2>5, <2>6, <2>9 DEF CountInv
  <2>11. connection_number_' <= connection_high_water_' + 1
    BY <2>7, <2>8, <2>9 DEF CountInv
  <2> QED
    BY <2>1, <2>10, <2>11 DEF CountInv
<1> QED
  BY <1>1, <1>2, <1>3 DEF CloseStep

(* and handleNewCon adds one, if the counter was not above the high water.  *)
LEMMA AcceptCount ==
    ASSUME Loops = {Base}, TypeOK, TypeOK', BatchInv, BatchInv', ThreadInv, LifeInv, FdInv, CountInv,
           AcceptStep
    PROVE  CountInv'
<1>0. Base \in Loops /\ connection_high_water_ \in Nat /\ connection_number_ \in Int
      /\ connection_high_water_' = connection_high_water_
  BY HighWaterType DEF TypeOK, connection_high_water_
<1>1. CASE StartAccept \/ EndAccept \/ \E c \in Conns : AcceptDeny(c)
  <2>1. /\ UNCHANGED <<pending, batch, handler_map_, connection_number_>>
        /\ at'[Base] \in {"accept", "dispatch"}
    BY <1>0, <1>1 DEF StartAccept, EndAccept, AcceptDeny, Accepts, serverVars, TypeOK,
       ReactorTypeOK
  <2>2. Unclosed' = Unclosed
    BY <2>1 DEF Unclosed, Queued
  <2> QED
    BY <2>1, <2>2, CountKept
<1>2. ASSUME NEW c \in Conns, AcceptConn(c) PROVE CountInv'
  <2>1. /\ at'[Base] = "inc" /\ UNCHANGED <<batch, pending, handler_map_, connection_number_>>
        /\ reg'[Base] = connection_number_ /\ ~(connection_number_ > connection_high_water_)
    BY <1>0, <1>2 DEF AcceptConn, AboveHighWater, TypeOK, ReactorTypeOK
  <2>2. Unclosed' = Unclosed
    BY <2>1 DEF Unclosed, Queued
  <2>3. connection_number_ <= connection_high_water_
    BY <1>0, <2>1
  <2> QED
    BY <1>0, <2>1, <2>2, <2>3 DEF CountInv
<1>3. ASSUME NEW c \in Conns, HandleNewCon(c) PROVE CountInv'
  <2> DEFINE f == Functor("handleConnection", c)
  <2>1. /\ at[Base] = "inc" /\ at'[Base] = "accept"
        /\ connection_number_' = reg[Base] + 1
        /\ pending' = AddFunctor(event_loop_[c], f)
        /\ UNCHANGED <<batch, handler_map_>>
    BY <1>0, <1>3 DEF HandleNewCon, TypeOK, ReactorTypeOK
  <2>2. c \in Building /\ event_loop_[c] = Base
    BY <1>3, FreeEntry
  <2>3. f \in Functors
    BY DEF Functor, Functors, Ops
  <2>4. Queued(Base)' = Queued(Base) \cup {f}
    <3>1. pending'[Base] = Append(pending[Base], f) /\ pending[Base] \in Seq(Functors)
      BY <1>0, <2>1, <2>2 DEF AddFunctor, TypeOK, ReactorTypeOK
    <3>2. Entries(pending'[Base]) = Entries(pending[Base]) \cup {f}
      BY <2>3, <3>1, AppendEntries
    <3>3. Queued(Base)' = Entries(pending'[Base]) \cup Entries(batch[Base])
      BY <2>1 DEF Queued, Entries
    <3> QED
      BY <3>2, <3>3, QueuedEntries
  <2>5. c \notin Unclosed
    <3>1. Queued(Base) = Entries(Todos[Base])
      BY <1>0, <2>1, TodoQueued
    <3>2. /\ \A i \in DOMAIN Todos[Base] : Todos[Base][i].conn # c
          /\ c \notin handler_map_[Base]
      BY <1>0, <2>2 DEF LifeInv, Life, Built
    <3> QED
      BY <3>1, <3>2 DEF Entries, Functor, Unclosed
  <2>6. Unclosed' = Unclosed \cup {c}
    <3>1. \A d \in Conns : Functor("handleConnection", d) = f <=> d = c
      BY DEF Functor
    <3> QED
      BY <2>1, <2>4, <3>1 DEF Unclosed
  <2>7. IsFiniteSet(Unclosed \cup {c}) /\ Cardinality(Unclosed \cup {c}) = Cardinality(Unclosed) + 1
    BY <2>5, FS_AddElement DEF CountInv
  <2>8. connection_number_' = connection_number_ + 1 /\ connection_number_ <= connection_high_water_
    BY <2>1 DEF CountInv
  <2>9. connection_number_' = Cardinality(Unclosed)' /\ IsFiniteSet(Unclosed)'
    BY <2>6, <2>7, <2>8 DEF CountInv
  <2>10. connection_number_' <= connection_high_water_' + 1
    BY <1>0, <2>8
  <2> QED
    BY <2>1, <2>9, <2>10 DEF CountInv
<1> QED
  BY <1>1, <1>2, <1>3 DEF AcceptStep

(* Every step keeps the count.                                              *)
LEMMA CountStep ==
    ASSUME Loops = {Base}, Inv, Inv', CountInv, [Next]_vars
    PROVE  CountInv'
<1> USE DEF Inv
<1>1. ASSUME UNCHANGED <<reactorVars, connection_number_, reg>> PROVE CountInv'
  <2>1. Unclosed' = Unclosed
    BY <1>1 DEF Unclosed, Queued, reactorVars
  <2> QED
    BY <1>1, <2>1 DEF CountInv, reactorVars, connection_high_water_
<1>2. ASSUME NEW c \in Conns, Client(c) PROVE CountInv'
  BY <1>1, <1>2 DEF Client, ClientConnect, serverVars
<1> QED
  BY <1>1, <1>2, ReactorCount, TcpCount, CloseCount, AcceptCount
     DEF Next, LoopStep, vars, serverVars

(* Without io threads the Accepter lets in at most one connection more than *)
(* the high water (accepter.cpp:57). With io threads the counter loses      *)
(* updates and the bound fails.                                             *)
THEOREM AdmissionBounded ==
    ASSUME IoLoops = <<>>
    PROVE  Safety => []AdmissionBound
<1>0. Loops = {Base}
  BY DEF Loops
<1>1. Init => CountInv
  <2> SUFFICES ASSUME Init PROVE CountInv
    OBVIOUS
  <2>1. Unclosed = {}
    BY DEF Init, ReactorInit, Unclosed, Queued
  <2>2. IsFiniteSet({}) /\ Cardinality({}) = 0
    BY FS_EmptySet
  <2> QED
    BY <1>0, <2>1, <2>2, HighWaterType DEF Init, ReactorInit, CountInv
<1>2. Inv /\ Inv' /\ CountInv /\ [Next]_vars => CountInv'
  BY <1>0, CountStep
<1>3. CountInv => AdmissionBound
  BY DEF CountInv, AdmissionBound
<1> QED
  BY <1>1, <1>2, <1>3, InvHolds, PTL DEF Safety
==============================================================================
