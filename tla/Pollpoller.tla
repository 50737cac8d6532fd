----------------------------- MODULE Pollpoller ------------------------------
(***************************************************************************)
(* Pollpoller: the vector of pollfd given to poll, the map from descriptors *)
(* to handlers, and the index each handler keeps into the vector.  Removal  *)
(* moves the last pollfd into the hole.                                     *)
(*                                                                          *)
(* The callers: EventLoop::updateHandler and removeHandler are called only  *)
(* for registered handlers (event_loop.cpp:65, 73), a handler is disabled   *)
(* before it is removed (tcp_connection.cpp:163, event_loop.h:91), and no   *)
(* two registered handlers share a descriptor (FdsDistinct of Server).      *)
(* poll reports no event that was not asked for, as on Darwin.              *)
(***************************************************************************)
EXTENDS Integers, Sequences

CONSTANTS
    Handlers,      \* the EventHandler objects
    handle,        \* handle[h]: handle_, the descriptor of handler h
    Fds,           \* the descriptors
    Events,        \* the events of a mask
    None           \* no handler

ASSUME PollAssumption ==
    /\ handle \in [Handlers -> Fds]
    /\ None \notin Handlers

VARIABLES
    fds,                 \* the vector, 1-based here
    index_,              \* index_[h]: 0-based position of h in fds, or -1
    event_handler_map_,  \* event_handler_map_[f]: the handler of f, or None
    ievents_,            \* ievents_[h]: the events h asks for
    kernel,              \* the events each descriptor had at the last poll;
                         \* <<>> if that failed
    res                  \* what the last Wait returned

vars == <<fds, index_, event_handler_map_, ievents_, kernel, res>>

PollFds == [fd : Fds, events : SUBSET Events, revents : SUBSET Events]

TypeOK ==
    /\ fds \in Seq(PollFds)
    /\ index_ \in [Handlers -> Nat \cup {-1}]
    /\ event_handler_map_ \in [Fds -> Handlers \cup {None}]
    /\ ievents_ \in [Handlers -> SUBSET Events]
    /\ kernel \in [Fds -> SUBSET Events] \cup {<<>>}
    /\ res \in SUBSET Handlers

Init ==
    /\ fds = <<>>
    /\ index_ = [h \in Handlers |-> -1]
    /\ event_handler_map_ = [f \in Fds |-> None]
    /\ ievents_ = [h \in Handlers |-> {}]
    /\ kernel = [f \in Fds |-> {}]
    /\ res = {}

Registered(h) == event_handler_map_[handle[h]] = h

------------------------------------------------------------------------------

RegisterHandler(h) ==
    /\ index_[h] < 0
    /\ event_handler_map_[handle[h]] = None
    /\ index_' = [index_ EXCEPT ![h] = Len(fds)]
    /\ event_handler_map_' = [event_handler_map_ EXCEPT ![handle[h]] = h]
    /\ fds' = Append(fds, [fd |-> handle[h], events |-> ievents_[h], revents |-> {}])
    /\ UNCHANGED <<ievents_, kernel, res>>

(* A bug: what poll reported stays.                                         *)
MutUpdateKeepsRevents(h, ie) ==
    /\ Registered(h)
    /\ ievents_' = [ievents_ EXCEPT ![h] = ie]
    /\ fds' = [fds EXCEPT ![index_[h] + 1].events = ie]
    /\ UNCHANGED <<index_, event_handler_map_, kernel, res>>

(* enableRead, enableWrite, disableWrite and disableAll change the mask and *)
(* copy it into the vector.                                                 *)
UpdateHandler(h, ie) ==
    /\ Registered(h)
    /\ ievents_' = [ievents_ EXCEPT ![h] = ie]
    /\ fds' = [fds EXCEPT ![index_[h] + 1] =
                 [fd |-> @.fd, events |-> ie, revents |-> {}]]
    /\ UNCHANGED <<index_, event_handler_map_, kernel, res>>

(* The vector without position i, its last element moved there.             *)
SwapPop(s, i) ==
    [j \in 1..(Len(s) - 1) |-> IF j = i THEN s[Len(s)] ELSE s[j]]

(* A bug: the map loses the handler that moves.                             *)
MutRemoveErasesLast(h) ==
    /\ Registered(h)
    /\ ievents_[h] = {}
    /\ index_' = [index_ EXCEPT ![event_handler_map_[fds[Len(fds)].fd]] = index_[h]]
    /\ event_handler_map_' = [event_handler_map_ EXCEPT ![fds[Len(fds)].fd] = None]
    /\ fds' = SwapPop(fds, index_[h] + 1)
    /\ UNCHANGED <<ievents_, kernel, res>>

(* A bug: the handler that moves keeps its old index.                       *)
MutRemoveKeepsIndex(h) ==
    /\ Registered(h)
    /\ ievents_[h] = {}
    /\ event_handler_map_' = [event_handler_map_ EXCEPT ![handle[h]] = None]
    /\ fds' = SwapPop(fds, index_[h] + 1)
    /\ UNCHANGED <<index_, ievents_, kernel, res>>

(* The handler of the last pollfd takes the index; the removed one keeps    *)
(* its own.                                                                 *)
RemoveHandler(h) ==
    /\ Registered(h)
    /\ ievents_[h] = {}
    /\ index_' = [index_ EXCEPT ![event_handler_map_[fds[Len(fds)].fd]] = index_[h]]
    /\ event_handler_map_' = [event_handler_map_ EXCEPT ![handle[h]] = None]
    /\ fds' = SwapPop(fds, index_[h] + 1)
    /\ UNCHANGED <<ievents_, kernel, res>>

(* A bug: the loop over the vector stops before its last element.           *)
MutCollectedShort(s) ==
    {event_handler_map_[s[i].fd] : i \in {j \in 1..(Len(s) - 1) : s[j].revents # {}}}

(* The handlers Wait collects from the vector.                              *)
Collected(s) == {event_handler_map_[s[i].fd] : i \in {j \in DOMAIN s : s[j].revents # {}}}

(* poll fills in revents; the walk ends when it has met as many as poll     *)
(* counted.                                                                 *)
Wait ==
    /\ kernel' \in [Fds -> SUBSET Events]
    /\ fds' = [i \in DOMAIN fds |->
                 [fds[i] EXCEPT !.revents = kernel'[fds[i].fd] \cap fds[i].events]]
    /\ res' = Collected(fds')
    /\ UNCHANGED <<index_, event_handler_map_, ievents_>>

(* poll fails: it leaves the vector alone, and so does Wait, which walks    *)
(* all of it.                                                               *)
WaitFails ==
    /\ kernel' = <<>>
    /\ res' = Collected(fds)
    /\ UNCHANGED <<fds, index_, event_handler_map_, ievents_>>

Next ==
    \/ \E h \in Handlers : \/ RegisterHandler(h)
                           \/ RemoveHandler(h)
                           \/ \E ie \in SUBSET Events : UpdateHandler(h, ie)
    \/ Wait
    \/ WaitFails

Spec == Init /\ [][Next]_vars

------------------------------------------------------------------------------
(* Properties                                                               *)

(* Every pollfd belongs to the handler the map has for its descriptor, at   *)
(* the index this handler keeps, and asks for what this handler asks for    *)
(* (Pollpoller.cpp:20, 28, 46); every handler in the map has its pollfd.    *)
Consistent ==
    /\ \A i \in DOMAIN fds :
         LET h == event_handler_map_[fds[i].fd] IN
         /\ h \in Handlers
         /\ handle[h] = fds[i].fd
         /\ index_[h] = i - 1
         /\ fds[i].events = ievents_[h]
    /\ \A f \in Fds : event_handler_map_[f] # None => \E i \in DOMAIN fds : fds[i].fd = f

(* A disabled handler has no event left in the vector, as removeHandler     *)
(* asserts (Pollpoller.cpp:42).                                             *)
DisabledIsQuiet ==
    \A i \in DOMAIN fds : fds[i].revents \subseteq fds[i].events

(* Pollpoller is a Poller: Wait returns exactly the registered handlers one *)
(* of whose events has happened, whatever was registered, changed and       *)
(* removed before; after a failed poll it returns those of the poll before, *)
(* less the ones changed or removed since (Pollpoller.cpp:70-93).           *)
Abstract == INSTANCE Poller WITH
    interest <- [h \in {g \in Handlers : Registered(g)} |-> fds[index_[h] + 1].events],
    result <- res

ImplementsPoller == Abstract!PollerSpec
==============================================================================
