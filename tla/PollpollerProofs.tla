-------------------------- MODULE PollpollerProofs ---------------------------
(***************************************************************************)
(* Proofs about Pollpoller, for any handlers, descriptors and events: the   *)
(* vector, the map and the indexes agree, whatever the order in which       *)
(* handlers come, change and go, and Pollpoller implements Poller.          *)
(***************************************************************************)
EXTENDS Pollpoller, SequenceTheorems, TLAPS

(* The types and the agreement hold only together: what Wait collects is a  *)
(* set of handlers because every pollfd has its handler in the map.         *)
PollInv == TypeOK /\ Consistent /\ DisabledIsQuiet

(* A pollfd has a descriptor, and the three places agree on its handler.    *)
LEMMA Element ==
    ASSUME PollInv, NEW i \in 1..Len(fds)
    PROVE  /\ fds[i] \in PollFds
           /\ fds[i].fd \in Fds
           /\ event_handler_map_[fds[i].fd] \in Handlers
           /\ handle[event_handler_map_[fds[i].fd]] = fds[i].fd
           /\ index_[event_handler_map_[fds[i].fd]] = i - 1
           /\ fds[i].events = ievents_[event_handler_map_[fds[i].fd]]
           /\ fds[i].revents \subseteq fds[i].events
<1>1. fds \in Seq(PollFds) /\ DOMAIN fds = 1..Len(fds)
  BY DEF PollInv, TypeOK
<1>2. fds[i] \in PollFds
  BY <1>1
<1>3. fds[i].fd \in Fds
  BY <1>2 DEF PollFds
<1> QED
  BY <1>1, <1>2, <1>3 DEF PollInv, Consistent, DisabledIsQuiet

(* A registered handler is found at the index it keeps.                     *)
LEMMA AtIndex ==
    ASSUME PollInv, NEW h \in Handlers, Registered(h)
    PROVE  /\ index_[h] + 1 \in 1..Len(fds)
           /\ fds[index_[h] + 1].fd = handle[h]
           /\ fds[index_[h] + 1].events = ievents_[h]
<1> USE PollAssumption DEF PollInv, TypeOK
<1>1. handle[h] \in Fds /\ event_handler_map_[handle[h]] # None
  BY DEF Registered
<1>2. PICK i \in DOMAIN fds : fds[i].fd = handle[h]
  BY <1>1 DEF Consistent
<1>3. i \in 1..Len(fds) /\ event_handler_map_[fds[i].fd] = h
  BY <1>2 DEF Registered
<1>4. index_[h] = i - 1 /\ fds[i].events = ievents_[h]
  BY <1>2, <1>3 DEF Consistent
<1> QED
  BY <1>2, <1>3, <1>4

(* Two pollfds are never of the same descriptor.                            *)
LEMMA FdUnique ==
    ASSUME PollInv, NEW i \in 1..Len(fds), NEW j \in 1..Len(fds),
           fds[i].fd = fds[j].fd
    PROVE  i = j
<1>1. DOMAIN fds = 1..Len(fds)
  BY DEF PollInv, TypeOK
<1>2. index_[event_handler_map_[fds[i].fd]] = i - 1
      /\ index_[event_handler_map_[fds[j].fd]] = j - 1
  BY <1>1 DEF PollInv, Consistent
<1> QED
  BY <1>2

(* What Wait collects are handlers.                                         *)
LEMMA CollectedTyped ==
    ASSUME PollInv, NEW s, DOMAIN s = DOMAIN fds,
           \A i \in DOMAIN fds : s[i].fd = fds[i].fd
    PROVE  Collected(s) \subseteq Handlers
  BY DEF PollInv, Consistent, Collected

(* registerHandler keeps the agreement.                                     *)
LEMMA RegisterStep ==
    ASSUME PollInv, NEW h \in Handlers, RegisterHandler(h)
    PROVE  PollInv'
<1> USE PollAssumption
<1> DEFINE p == [fd |-> handle[h], events |-> ievents_[h], revents |-> {}]
<1>0. /\ fds \in Seq(PollFds) /\ Len(fds) \in Nat
      /\ index_ \in [Handlers -> Nat \cup {-1}]
      /\ event_handler_map_ \in [Fds -> Handlers \cup {None}]
      /\ ievents_ \in [Handlers -> SUBSET Events]
      /\ handle[h] \in Fds
  BY DEF PollInv, TypeOK
<1>1. p \in PollFds
  BY <1>0 DEF PollFds
<1>2. /\ fds' = Append(fds, p)
      /\ fds' \in Seq(PollFds)
      /\ Len(fds') = Len(fds) + 1
      /\ \A i \in 1..Len(fds) : fds'[i] = fds[i]
      /\ fds'[Len(fds) + 1] = p
      /\ DOMAIN fds' = 1..(Len(fds) + 1)
      /\ DOMAIN fds = 1..Len(fds)
  BY <1>0, <1>1 DEF RegisterHandler
<1>3. TypeOK'
  BY <1>0, <1>2 DEF RegisterHandler, PollInv, TypeOK
<1>4. ASSUME NEW i \in 1..Len(fds)
      PROVE  /\ fds[i].fd # handle[h]
             /\ event_handler_map_'[fds[i].fd] = event_handler_map_[fds[i].fd]
             /\ event_handler_map_[fds[i].fd] \in Handlers
             /\ event_handler_map_[fds[i].fd] # h
  <2>1. fds[i].fd # handle[h]
    BY <1>0, Element DEF RegisterHandler
  <2> QED
    BY <1>0, <2>1, Element DEF RegisterHandler
<1>5. Consistent'
  <2>1. ASSUME NEW i \in 1..Len(fds)
        PROVE  LET g == event_handler_map_'[fds'[i].fd] IN
               /\ g \in Handlers /\ handle[g] = fds'[i].fd
               /\ index_'[g] = i - 1 /\ fds'[i].events = ievents_'[g]
    <3> DEFINE g == event_handler_map_[fds[i].fd]
    <3>1. event_handler_map_'[fds'[i].fd] = g /\ fds'[i] = fds[i]
      BY <1>2, <1>4
    <3>2. index_'[g] = index_[g] /\ ievents_'[g] = ievents_[g]
      BY <1>0, <1>4 DEF RegisterHandler
    <3> QED
      BY <3>1, <3>2, Element
  <2>2. LET i == Len(fds) + 1
            g == event_handler_map_'[fds'[i].fd] IN
        /\ g \in Handlers /\ handle[g] = fds'[i].fd
        /\ index_'[g] = i - 1 /\ fds'[i].events = ievents_'[g]
    BY <1>0, <1>2 DEF RegisterHandler
  <2>3. ASSUME NEW f \in Fds, event_handler_map_'[f] # None
        PROVE  \E i \in DOMAIN fds' : fds'[i].fd = f
    <3>1. CASE f = handle[h]
      BY <1>0, <1>2, <3>1
    <3>2. CASE f # handle[h]
      <4>1. event_handler_map_[f] # None
        BY <1>0, <2>3, <3>2 DEF RegisterHandler
      <4>2. PICK i \in 1..Len(fds) : fds[i].fd = f
        BY <1>2, <4>1 DEF PollInv, Consistent
      <4> QED
        BY <1>0, <1>2, <4>2
    <3> QED
      BY <3>1, <3>2
  <2>4. ASSUME NEW i \in DOMAIN fds'
        PROVE  LET g == event_handler_map_'[fds'[i].fd] IN
               /\ g \in Handlers /\ handle[g] = fds'[i].fd
               /\ index_'[g] = i - 1 /\ fds'[i].events = ievents_'[g]
    <3>1. i \in 1..Len(fds) \/ i = Len(fds) + 1
      BY <1>0, <1>2
    <3> QED
      BY <2>1, <2>2, <3>1
  <2> QED
    BY <2>3, <2>4 DEF Consistent
<1>6. DisabledIsQuiet'
  BY <1>0, <1>2 DEF PollInv, DisabledIsQuiet
<1> QED
  BY <1>3, <1>5, <1>6 DEF PollInv

(* updateHandler changes one pollfd and the handler's mask alike.           *)
LEMMA UpdateStep ==
    ASSUME PollInv, NEW h \in Handlers, NEW ie \in SUBSET Events,
           UpdateHandler(h, ie)
    PROVE  PollInv'
<1> USE PollAssumption
<1> DEFINE k == index_[h] + 1
           p == [fd |-> fds[k].fd, events |-> ie, revents |-> {}]
<1>0. /\ fds \in Seq(PollFds) /\ Len(fds) \in Nat
      /\ DOMAIN fds = 1..Len(fds)
      /\ index_ \in [Handlers -> Nat \cup {-1}]
      /\ event_handler_map_ \in [Fds -> Handlers \cup {None}]
      /\ ievents_ \in [Handlers -> SUBSET Events]
  BY DEF PollInv, TypeOK
<1>1. k \in 1..Len(fds) /\ fds[k].fd = handle[h] /\ event_handler_map_[fds[k].fd] = h
  BY AtIndex DEF UpdateHandler, Registered
<1>2. p \in PollFds
  BY <1>1, Element DEF PollFds
<1>3. /\ fds' \in Seq(PollFds)
      /\ DOMAIN fds' = 1..Len(fds)
      /\ fds'[k] = p
      /\ \A i \in 1..Len(fds) : i # k => fds'[i] = fds[i]
  <2>1. fds' = [fds EXCEPT ![k] = p]
    BY DEF UpdateHandler
  <2> QED
    BY <1>0, <1>1, <1>2, <2>1
<1>4. /\ ievents_' = [ievents_ EXCEPT ![h] = ie]
      /\ UNCHANGED <<index_, event_handler_map_, kernel, res>>
  BY DEF UpdateHandler
<1>5. TypeOK'
  BY <1>0, <1>3, <1>4 DEF PollInv, TypeOK
<1>6. ASSUME NEW i \in 1..Len(fds)
      PROVE  /\ fds'[i].fd = fds[i].fd
             /\ fds'[i].events = ievents_'[event_handler_map_[fds[i].fd]]
             /\ fds'[i].revents \subseteq fds'[i].events
  <2>1. CASE i = k
    BY <1>0, <1>1, <1>3, <1>4, <2>1
  <2>2. CASE i # k
    <3>1. event_handler_map_[fds[i].fd] # h
      BY <1>1, <2>2, Element
    <3>2. ievents_'[event_handler_map_[fds[i].fd]] = ievents_[event_handler_map_[fds[i].fd]]
      BY <1>0, <1>4, <3>1, Element
    <3> QED
      BY <1>3, <2>2, <3>2, Element
  <2> QED
    BY <2>1, <2>2
<1>7. Consistent'
  <2>1. ASSUME NEW i \in 1..Len(fds)
        PROVE  LET g == event_handler_map_'[fds'[i].fd] IN
               /\ g \in Handlers /\ handle[g] = fds'[i].fd
               /\ index_'[g] = i - 1 /\ fds'[i].events = ievents_'[g]
    BY <1>4, <1>6, Element
  <2>2. ASSUME NEW f \in Fds, event_handler_map_'[f] # None
        PROVE  \E i \in DOMAIN fds' : fds'[i].fd = f
    <3>1. PICK i \in 1..Len(fds) : fds[i].fd = f
      BY <1>0, <1>4, <2>2 DEF PollInv, Consistent
    <3> QED
      BY <1>3, <1>6, <3>1
  <2> QED
    BY <1>3, <2>1, <2>2 DEF Consistent
<1>8. DisabledIsQuiet'
  BY <1>3, <1>6 DEF DisabledIsQuiet
<1> QED
  BY <1>5, <1>7, <1>8 DEF PollInv

(* removeHandler: the last pollfd fills the hole and its handler's index    *)
(* follows it.                                                              *)
LEMMA RemoveStep ==
    ASSUME PollInv, NEW h \in Handlers, RemoveHandler(h)
    PROVE  PollInv'
<1> USE PollAssumption
<1> DEFINE n == Len(fds)
           k == index_[h] + 1
           last == event_handler_map_[fds[n].fd]
           from(i) == IF i = k THEN n ELSE i
<1>0. /\ fds \in Seq(PollFds) /\ n \in Nat
      /\ DOMAIN fds = 1..n
      /\ index_ \in [Handlers -> Nat \cup {-1}]
      /\ event_handler_map_ \in [Fds -> Handlers \cup {None}]
      /\ ievents_ \in [Handlers -> SUBSET Events]
  BY DEF PollInv, TypeOK
<1>1. k \in 1..n /\ fds[k].fd = handle[h] /\ event_handler_map_[fds[k].fd] = h
  BY AtIndex DEF RemoveHandler, Registered
<1>2. n \in 1..n /\ last \in Handlers /\ index_[last] = n - 1
  <2>1. n \in 1..n
    BY <1>0, <1>1
  <2> QED
    BY <2>1, Element
<1>3. /\ index_' = [index_ EXCEPT ![last] = index_[h]]
      /\ event_handler_map_' = [event_handler_map_ EXCEPT ![handle[h]] = None]
      /\ UNCHANGED <<ievents_, kernel, res>>
  BY DEF RemoveHandler
<1>4. /\ fds' = [i \in 1..(n - 1) |-> fds[from(i)]]
      /\ DOMAIN fds' = 1..(n - 1)
      /\ \A i \in 1..(n - 1) : fds'[i] = fds[from(i)]
  <2>1. fds' = [i \in 1..(n - 1) |-> fds[from(i)]]
    BY DEF RemoveHandler, SwapPop
  <2> QED
    BY <2>1
<1>5. \A i \in 1..(n - 1) : from(i) \in 1..n /\ from(i) # k
  BY <1>0, <1>1, <1>2
<1>6. fds' \in Seq(PollFds)
  BY <1>0, <1>4, <1>5, Element
<1>7. TypeOK'
  BY <1>0, <1>3, <1>6 DEF PollInv, TypeOK
<1>8. ASSUME NEW i \in 1..(n - 1)
      PROVE  LET g == event_handler_map_'[fds'[i].fd] IN
             /\ g \in Handlers /\ handle[g] = fds'[i].fd
             /\ index_'[g] = i - 1 /\ fds'[i].events = ievents_'[g]
  <2> DEFINE j == from(i)
             g == event_handler_map_[fds[j].fd]
  <2>1. j \in 1..n /\ j # k /\ fds'[i] = fds[j]
    BY <1>4, <1>5
  <2>2. fds[j].fd # handle[h]
    BY <1>1, <2>1, FdUnique
  <2>3. event_handler_map_'[fds'[i].fd] = g
    BY <1>0, <1>3, <2>1, <2>2, Element
  <2>4. /\ g \in Handlers /\ handle[g] = fds[j].fd
        /\ index_[g] = j - 1 /\ fds[j].events = ievents_[g]
    BY <2>1, Element
  <2>5. index_'[g] = i - 1
    <3>1. CASE i = k
      BY <1>0, <1>1, <1>2, <1>3, <2>4, <3>1
    <3>2. CASE i # k
      <4>1. g # last
        BY <1>2, <2>4, <3>2
      <4> QED
        BY <1>0, <1>3, <2>4, <3>2, <4>1
    <3> QED
      BY <3>1, <3>2
  <2> QED
    BY <1>3, <2>1, <2>3, <2>4, <2>5
<1>9. ASSUME NEW f \in Fds, event_handler_map_'[f] # None
      PROVE  \E i \in DOMAIN fds' : fds'[i].fd = f
  <2>1. f # handle[h] /\ event_handler_map_[f] # None
    BY <1>0, <1>3, <1>9
  <2>2. PICK j \in 1..n : fds[j].fd = f
    BY <1>0, <2>1 DEF PollInv, Consistent
  <2>3. j # k
    BY <1>1, <2>1, <2>2
  <2>4. CASE j = n
    <3>1. k \in 1..(n - 1) /\ from(k) = n
      BY <1>0, <1>1, <2>3, <2>4
    <3> QED
      BY <1>4, <2>2, <2>4, <3>1
  <2>5. CASE j # n
    <3>0. n \in Nat /\ j \in 1..n /\ j # n
      BY <1>0, <2>2, <2>5
    <3>1. j \in 1..(n - 1) /\ from(j) = j
      <4>1. j \in 1..(n - 1)
        BY <3>0
      <4>2. from(j) = j
        BY <2>3
      <4> QED
        BY <4>1, <4>2
    <3> QED
      BY <1>4, <2>2, <3>1
  <2> QED
    BY <2>4, <2>5
<1>10. Consistent'
  BY <1>4, <1>8, <1>9 DEF Consistent
<1>11. DisabledIsQuiet'
  BY <1>4, <1>5, Element DEF DisabledIsQuiet
<1> QED
  BY <1>7, <1>10, <1>11 DEF PollInv

(* A poll, successful or not, leaves descriptors, masks and indexes alone.  *)
LEMMA WaitStep ==
    ASSUME PollInv, Wait \/ WaitFails
    PROVE  PollInv'
<1> USE PollAssumption
<1>0. /\ fds \in Seq(PollFds) /\ Len(fds) \in Nat
      /\ DOMAIN fds = 1..Len(fds)
  BY DEF PollInv, TypeOK
<1>1. CASE Wait
  <2>1. /\ DOMAIN fds' = 1..Len(fds)
        /\ \A i \in 1..Len(fds) :
             fds'[i] = [fds[i] EXCEPT !.revents = kernel'[fds[i].fd] \cap fds[i].events]
        /\ fds' = [i \in 1..Len(fds) |->
             [fds[i] EXCEPT !.revents = kernel'[fds[i].fd] \cap fds[i].events]]
    BY <1>0, <1>1 DEF Wait
  <2>2. kernel' \in [Fds -> SUBSET Events]
    BY <1>1 DEF Wait
  <2>3. ASSUME NEW i \in 1..Len(fds)
        PROVE  /\ fds'[i] \in PollFds
               /\ fds'[i].fd = fds[i].fd
               /\ fds'[i].events = fds[i].events
               /\ fds'[i].revents \subseteq fds'[i].events
    BY <2>1, <2>2, Element DEF PollFds
  <2>4. fds' \in Seq(PollFds)
    <3>1. fds' = [i \in 1..Len(fds) |-> fds'[i]]
      BY <2>1, Zenon
    <3>2. fds' \in [1..Len(fds) -> PollFds]
      BY <2>3, <3>1
    <3> QED
      BY <1>0, <3>2
  <2>5. res' \in SUBSET Handlers
    <3>1. Collected(fds') \subseteq Handlers
      BY <1>0, <2>1, <2>3, CollectedTyped
    <3> QED
      BY <1>1, <3>1 DEF Wait
  <2>6. TypeOK'
    BY <1>1, <2>2, <2>4, <2>5 DEF Wait, PollInv, TypeOK
  <2>7. Consistent'
    <3>0. UNCHANGED <<index_, event_handler_map_, ievents_>>
      BY <1>1 DEF Wait
    <3>1. ASSUME NEW i \in 1..Len(fds)
          PROVE  LET g == event_handler_map_'[fds'[i].fd] IN
                 /\ g \in Handlers /\ handle[g] = fds'[i].fd
                 /\ index_'[g] = i - 1 /\ fds'[i].events = ievents_'[g]
      BY <2>3, <3>0, Element
    <3>2. ASSUME NEW f \in Fds, event_handler_map_'[f] # None
          PROVE  \E i \in DOMAIN fds' : fds'[i].fd = f
      <4>1. PICK i \in 1..Len(fds) : fds[i].fd = f
        BY <1>0, <3>0, <3>2 DEF PollInv, Consistent
      <4> QED
        BY <2>1, <2>3, <4>1
    <3> QED
      BY <2>1, <3>1, <3>2 DEF Consistent
  <2>8. DisabledIsQuiet'
    BY <2>1, <2>3 DEF DisabledIsQuiet
  <2> QED
    BY <2>6, <2>7, <2>8 DEF PollInv
<1>2. CASE WaitFails
  <2>1. res' \in SUBSET Handlers
    BY <1>2, CollectedTyped DEF WaitFails
  <2>2. TypeOK'
    BY <1>2, <2>1 DEF WaitFails, PollInv, TypeOK
  <2> QED
    BY <1>2, <2>2 DEF WaitFails, PollInv, Consistent, DisabledIsQuiet
<1> QED
  BY <1>1, <1>2

(* Together: the invariant holds in every reachable state, whether poll     *)
(* fails or not.                                                            *)
LEMMA PollInvHolds == Spec => []PollInv
<1>1. Init => PollInv
  BY PollAssumption DEF Init, PollInv, TypeOK, Consistent, DisabledIsQuiet
<1>2. PollInv /\ [Next]_vars => PollInv'
  <2> SUFFICES ASSUME PollInv, [Next]_vars PROVE PollInv'
    OBVIOUS
  <2>1. CASE UNCHANGED vars
    BY <2>1 DEF vars, PollInv, TypeOK, Consistent, DisabledIsQuiet
  <2> QED
    BY <2>1, RegisterStep, UpdateStep, RemoveStep, WaitStep DEF Next
<1> QED
  BY <1>1, <1>2, PTL DEF Spec

(* The types of the poller's state hold; in particular Wait never looks up  *)
(* a descriptor that has no handler (the assertion of Pollpoller.cpp:84).   *)
THEOREM PollTypeCorrect == Spec => []TypeOK
<1>1. PollInv => TypeOK
  BY DEF PollInv
<1> QED
  BY <1>1, PollInvHolds, PTL

(* The vector of pollfd, the map and the handlers' indexes and masks agree  *)
(* after any sequence of registrations, updates and removals.               *)
THEOREM PollConsistent == Spec => []Consistent
<1>1. PollInv => Consistent
  BY DEF PollInv
<1> QED
  BY <1>1, PollInvHolds, PTL

(* The assertion fds[index].revents == 0 of removeHandler never fails.      *)
THEOREM PollQuiet == Spec => []DisabledIsQuiet
<1>1. PollInv => DisabledIsQuiet
  BY DEF PollInv
<1> QED
  BY <1>1, PollInvHolds, PTL

------------------------------------------------------------------------------
(* Refinement.  The abstract interest is read from the vector; it is also   *)
(* what the registered handlers ask for, which is easier to follow.         *)

Regs == {g \in Handlers : Registered(g)}

ByMask == [h \in Regs |-> fds[index_[h] + 1].events] = [h \in Regs |-> ievents_[h]]

(* A handler that was never registered asks for nothing.                    *)
Fresh == \A h \in Handlers : index_[h] < 0 => ievents_[h] = {}

LEMMA MaskHolds == PollInv => ByMask
<1> SUFFICES ASSUME PollInv PROVE ByMask
  OBVIOUS
<1>1. \A h \in Regs : fds[index_[h] + 1].events = ievents_[h]
  BY AtIndex DEF Regs
<1> QED
  BY <1>1 DEF ByMask

LEMMA FreshStep ==
    ASSUME PollInv, Fresh, [Next]_vars
    PROVE  Fresh'
<1>0. /\ index_ \in [Handlers -> Nat \cup {-1}]
      /\ ievents_ \in [Handlers -> SUBSET Events]
  BY DEF PollInv, TypeOK
<1>1. CASE UNCHANGED vars
  BY <1>1 DEF vars, Fresh
<1>2. ASSUME NEW h \in Handlers, RegisterHandler(h)
      PROVE  Fresh'
  <2>1. index_' = [index_ EXCEPT ![h] = Len(fds)] /\ ievents_' = ievents_ /\ Len(fds) \in Nat
    BY <1>2 DEF RegisterHandler, PollInv, TypeOK
  <2> QED
    BY <1>0, <2>1 DEF Fresh
<1>3. ASSUME NEW h \in Handlers, NEW ie \in SUBSET Events, UpdateHandler(h, ie)
      PROVE  Fresh'
  <2>1. index_[h] >= 0
    BY <1>0, <1>3, AtIndex DEF UpdateHandler
  <2>2. index_' = index_ /\ ievents_' = [ievents_ EXCEPT ![h] = ie]
    BY <1>3 DEF UpdateHandler
  <2> QED
    BY <1>0, <2>1, <2>2 DEF Fresh
<1>4. ASSUME NEW h \in Handlers, RemoveHandler(h)
      PROVE  Fresh'
  <2> DEFINE last == event_handler_map_[fds[Len(fds)].fd]
  <2>1. index_[h] \in Nat /\ Len(fds) \in 1..Len(fds)
    <3>1. Registered(h)
      BY <1>4 DEF RemoveHandler
    <3>2. index_[h] + 1 \in 1..Len(fds) /\ Len(fds) \in Nat
      BY <3>1, AtIndex DEF PollInv, TypeOK
    <3> QED
      BY <1>0, <3>2
  <2>2. last \in Handlers
    BY <2>1, Element
  <2>3. index_' = [index_ EXCEPT ![last] = index_[h]] /\ ievents_' = ievents_
    BY <1>4 DEF RemoveHandler
  <2> QED
    BY <1>0, <2>1, <2>2, <2>3 DEF Fresh
<1>5. CASE Wait \/ WaitFails
  BY <1>5 DEF Wait, WaitFails, Fresh
<1> QED
  BY <1>1, <1>2, <1>3, <1>4, <1>5 DEF Next

(* Every step of Pollpoller is a step of Poller.                            *)
LEMMA PollerStep ==
    ASSUME PollInv, PollInv', ByMask, ByMask', Fresh, [Next]_vars
    PROVE  [Abstract!PollerNext]_(Abstract!pollerVars)
<1> USE PollAssumption
<1> DEFINE I == [h \in Regs |-> fds[index_[h] + 1].events]
           J == [h \in Regs' |-> fds'[index_'[h] + 1].events]
<1>0. /\ index_ \in [Handlers -> Nat \cup {-1}]
      /\ event_handler_map_ \in [Fds -> Handlers \cup {None}]
      /\ ievents_ \in [Handlers -> SUBSET Events]
      /\ fds \in Seq(PollFds) /\ Len(fds) \in Nat
      /\ DOMAIN fds = 1..Len(fds)
  BY DEF PollInv, TypeOK
<1>i. I = [h \in Regs |-> ievents_[h]] /\ J = [h \in Regs' |-> ievents_'[h]]
  BY DEF ByMask
<1> HIDE DEF I, J
<1>r. Regs = {g \in Handlers : event_handler_map_[handle[g]] = g}
      /\ Regs' = {g \in Handlers : event_handler_map_'[handle[g]] = g}
  BY DEF Regs, Registered
<1>1. CASE UNCHANGED vars
  <2>1. UNCHANGED Abstract!pollerVars
    BY <1>1 DEF vars, Abstract!pollerVars, Registered
  <2> QED
    BY <2>1
<1>2. ASSUME NEW h \in Handlers, RegisterHandler(h)
      PROVE  Abstract!Add(h)
  <2>1. Regs' = Regs \cup {h} /\ h \notin Regs
    BY <1>0, <1>2, <1>r DEF RegisterHandler
  <2>2. ievents_[h] = {} /\ ievents_' = ievents_ /\ UNCHANGED <<kernel, res>>
    BY <1>2 DEF RegisterHandler, Fresh
  <2>3. h \notin DOMAIN I
    BY <1>i, <2>1
  <2>4. J = [g \in DOMAIN I \cup {h} |-> IF g = h THEN {} ELSE I[g]]
    BY <1>i, <2>1, <2>2
  <2> QED
    BY <2>2, <2>3, <2>4 DEF Abstract!Add, I, J, Regs
<1>3. ASSUME NEW h \in Handlers, NEW ie \in SUBSET Events, UpdateHandler(h, ie)
      PROVE  Abstract!Set(h, ie)
  <2>1. Regs' = Regs /\ h \in Regs
    BY <1>3, <1>r DEF UpdateHandler, Registered
  <2>2. ievents_' = [ievents_ EXCEPT ![h] = ie] /\ UNCHANGED <<kernel, res>>
    BY <1>3 DEF UpdateHandler
  <2>3. h \in DOMAIN I
    BY <1>i, <2>1
  <2>4. J = [I EXCEPT ![h] = ie]
    <3>1. Regs \subseteq Handlers
      BY DEF Regs
    <3> QED
      BY <1>0, <1>i, <2>1, <2>2, <3>1
  <2> QED
    BY <2>2, <2>3, <2>4 DEF Abstract!Set, I, J, Regs
<1>4. ASSUME NEW h \in Handlers, RemoveHandler(h)
      PROVE  Abstract!Delete(h)
  <2>1. Regs' = Regs \ {h} /\ h \in Regs
    BY <1>0, <1>4, <1>r DEF RemoveHandler, Registered
  <2>2. ievents_' = ievents_ /\ UNCHANGED <<kernel, res>>
    BY <1>4 DEF RemoveHandler
  <2>3. h \in DOMAIN I
    BY <1>i, <2>1
  <2>4. J = [g \in DOMAIN I \ {h} |-> I[g]]
    BY <1>i, <2>1, <2>2
  <2> QED
    BY <2>2, <2>3, <2>4 DEF Abstract!Delete, I, J, Regs
<1>5. CASE Wait
  <2>1. Regs' = Regs /\ J = I
    BY <1>5, <1>i, <1>r DEF Wait
  <2>2. kernel' \in [Fds -> SUBSET Events]
    BY <1>5 DEF Wait
  <2>3. ASSUME NEW i \in 1..Len(fds)
        PROVE  /\ fds'[i].fd = fds[i].fd
               /\ fds'[i].revents = kernel'[fds[i].fd] \cap fds[i].events
    <3>1. fds'[i] = [fds[i] EXCEPT !.revents = kernel'[fds[i].fd] \cap fds[i].events]
      BY <1>0, <1>5 DEF Wait
    <3> QED
      BY <3>1, Element DEF PollFds
  <2>4. DOMAIN fds' = 1..Len(fds)
    BY <1>0, <1>5 DEF Wait
  <2>5. res' = {h \in DOMAIN I : kernel'[handle[h]] \cap I[h] # {}}
    <3>0. res' = {event_handler_map_[fds'[i].fd] :
                    i \in {j \in 1..Len(fds) : fds'[j].revents # {}}}
      BY <1>5, <2>4 DEF Wait, Collected
    <3>d. DOMAIN I = Regs /\ \A h \in Regs : I[h] = ievents_[h]
      BY <1>i
    <3>1. ASSUME NEW h \in res'
          PROVE  h \in DOMAIN I /\ kernel'[handle[h]] \cap I[h] # {}
      <4>1. PICK i \in 1..Len(fds) : fds'[i].revents # {} /\ h = event_handler_map_[fds'[i].fd]
        BY <3>0
      <4>2. h = event_handler_map_[fds[i].fd] /\ kernel'[fds[i].fd] \cap fds[i].events # {}
        BY <2>3, <4>1
      <4>3. h \in Handlers /\ handle[h] = fds[i].fd /\ fds[i].events = ievents_[h]
        BY <4>2, Element
      <4> QED
        BY <1>r, <3>d, <4>2, <4>3
    <3>2. ASSUME NEW h \in DOMAIN I, kernel'[handle[h]] \cap I[h] # {}
          PROVE  h \in res'
      <4> DEFINE i == index_[h] + 1
      <4>1. h \in Handlers /\ Registered(h) /\ I[h] = ievents_[h]
        BY <3>d DEF Regs
      <4>2. i \in 1..Len(fds) /\ fds[i].fd = handle[h] /\ fds[i].events = ievents_[h]
        BY <4>1, AtIndex
      <4>3. fds'[i].fd = handle[h] /\ fds'[i].revents # {}
        BY <2>3, <3>2, <4>1, <4>2
      <4>4. event_handler_map_[fds'[i].fd] = h
        BY <4>1, <4>3 DEF Registered
      <4> HIDE DEF i
      <4> QED
        BY <3>0, <4>2, <4>3, <4>4
    <3> QED
      BY <3>1, <3>2
  <2> QED
    BY <2>1, <2>2, <2>5 DEF Abstract!PollerNext, Abstract!Poll, I, J, Regs
<1>6. CASE WaitFails
  <2>1. Regs' = Regs /\ J = I
    BY <1>6, <1>i, <1>r DEF WaitFails
  <2>2. kernel' = <<>>
    BY <1>6 DEF WaitFails
  <2>3. ASSUME NEW h \in res'
        PROVE  h \in DOMAIN I /\ I[h] # {}
    <3>1. PICK i \in 1..Len(fds) : fds[i].revents # {} /\ h = event_handler_map_[fds[i].fd]
      BY <1>0, <1>6 DEF WaitFails, Collected
    <3>2. /\ h \in Handlers /\ handle[h] = fds[i].fd
          /\ ievents_[h] # {}
      BY <3>1, Element
    <3>3. h \in Regs
      BY <1>r, <3>1, <3>2
    <3> QED
      BY <1>i, <3>2, <3>3
  <2>4. res' \in SUBSET {h \in DOMAIN I : I[h] # {}}
    BY <2>3
  <2> QED
    BY <2>1, <2>2, <2>4 DEF Abstract!PollerNext, Abstract!Fail, I, J, Regs
<1> QED
  BY <1>1, <1>2, <1>3, <1>4, <1>5, <1>6 DEF Next, Abstract!PollerNext

(* Pollpoller is a Poller: Wait returns exactly the registered handlers     *)
(* whose events have happened and, after a failed poll, only registered     *)
(* handlers that ask for some event.                                        *)
THEOREM PollerRefines == Spec => ImplementsPoller
<1>1. Init => Abstract!PollerInit
  <2> SUFFICES ASSUME Init PROVE Abstract!PollerInit
    OBVIOUS
  <2>1. {g \in Handlers : Registered(g)} = {}
    BY PollAssumption DEF Init, Registered
  <2> QED
    BY <2>1 DEF Init, Abstract!PollerInit
<1>2. Init => Fresh
  BY DEF Init, Fresh
<1>3. PollInv /\ Fresh /\ [Next]_vars => Fresh'
  BY FreshStep
<1>4. /\ PollInv /\ PollInv' /\ ByMask /\ ByMask' /\ Fresh /\ [Next]_vars
      => [Abstract!PollerNext]_(Abstract!pollerVars)
  BY PollerStep
<1> QED
  BY <1>1, <1>2, <1>3, <1>4, MaskHolds, PollInvHolds, PTL
  DEF Spec, ImplementsPoller, Abstract!PollerSpec
==============================================================================
