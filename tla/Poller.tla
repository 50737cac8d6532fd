------------------------------- MODULE Poller --------------------------------
(***************************************************************************)
(* What a Poller promises a loop: it keeps the events each registered       *)
(* handler asks for, and Wait returns exactly the handlers for whose        *)
(* descriptor the kernel has one of those events.  When the kernel's poll   *)
(* fails, Wait may return handlers that have nothing to do, but only        *)
(* registered ones that ask for some event.                                 *)
(***************************************************************************)
EXTENDS Naturals

CONSTANTS Handlers, handle, Fds, Events

VARIABLES
    interest,   \* interest[h]: what handler h asks for; its domain are the
                \* registered handlers
    kernel,     \* kernel[f]: the events descriptor f had at the last poll;
                \* <<>> if that failed
    result      \* the handlers the last Wait returned

pollerVars == <<interest, kernel, result>>

PollerInit ==
    /\ interest = [h \in {} |-> {}]
    /\ kernel = [f \in Fds |-> {}]
    /\ result = {}

Add(h) ==
    /\ h \notin DOMAIN interest
    /\ interest' = [g \in DOMAIN interest \cup {h} |->
                      IF g = h THEN {} ELSE interest[g]]
    /\ UNCHANGED <<kernel, result>>

Set(h, ie) ==
    /\ h \in DOMAIN interest
    /\ interest' = [interest EXCEPT ![h] = ie]
    /\ UNCHANGED <<kernel, result>>

Delete(h) ==
    /\ h \in DOMAIN interest
    /\ interest' = [g \in DOMAIN interest \ {h} |-> interest[g]]
    /\ UNCHANGED <<kernel, result>>

Poll ==
    /\ kernel' \in [Fds -> SUBSET Events]
    /\ result' = {h \in DOMAIN interest : kernel'[handle[h]] \cap interest[h] # {}}
    /\ UNCHANGED interest

(* A failed poll.                                                           *)
Fail ==
    /\ kernel' = <<>>
    /\ result' \in SUBSET {h \in DOMAIN interest : interest[h] # {}}
    /\ UNCHANGED interest

PollerNext ==
    \/ \E h \in Handlers : \/ Add(h)
                           \/ Delete(h)
                           \/ \E ie \in SUBSET Events : Set(h, ie)
    \/ Poll
    \/ Fail

PollerSpec == PollerInit /\ [][PollerNext]_pollerVars
==============================================================================
