----------------------------- MODULE TimerService -----------------------------
(***************************************************************************)
(* What EventLoop promises of its timers: a pending timer runs when its     *)
(* time has come, the earliest first; a timer that repeats is pending again *)
(* for one interval later, any other is done with.                          *)
(***************************************************************************)
EXTENDS Integers

CONSTANTS Timers, PerSecond

VARIABLES
    pending,   \* a function: the time and the interval of each pending timer
    clock,
    running    \* the timer that runs, if any

vars == <<pending, clock, running>>

Init == DOMAIN pending = {} /\ clock \in Nat /\ running = {}

Tick == clock' > clock /\ UNCHANGED <<pending, running>>

Add(t) ==
    /\ t \notin DOMAIN pending \cup running
    /\ DOMAIN pending' = DOMAIN pending \cup {t}
    /\ \A u \in DOMAIN pending : pending'[u] = pending[u]
    /\ UNCHANGED <<clock, running>>

(* What is left of the pending timers when t has been taken to run.         *)
Rest(t) ==
    IF pending[t].every = 0
    THEN [u \in DOMAIN pending \ {t} |-> pending[u]]
    ELSE [pending EXCEPT ![t].expire = @ + pending[t].every * PerSecond]

Run(t) ==
    /\ running = {}
    /\ t \in DOMAIN pending
    /\ pending[t].expire <= clock
    /\ \A u \in DOMAIN pending : pending[t].expire <= pending[u].expire
    /\ running' = {t}
    /\ pending' = Rest(t)
    /\ UNCHANGED clock

Done == running # {} /\ running' = {} /\ UNCHANGED <<pending, clock>>

Next == Tick \/ Done \/ \E t \in Timers : Add(t) \/ Run(t)

Spec == Init /\ [][Next]_vars
==============================================================================
