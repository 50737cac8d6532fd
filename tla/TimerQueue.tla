------------------------------ MODULE TimerQueue ------------------------------
(***************************************************************************)
(* The timers of an EventLoop: TimerQueue over TimerHeap, the part of       *)
(* EventLoop::loop that turns the next time into the timeout of a poll, and *)
(* a clock that moves on between any two steps.                             *)
(*                                                                          *)
(* Time is counted in microseconds, of which there are PerMilli in a        *)
(* millisecond and PerSecond in a second; TimeStamp::Now is cut to seconds. *)
(* Timers are added by the loop's own thread: before the loop, by handlers  *)
(* and functors, and by the callbacks of timers.                            *)
(***************************************************************************)
EXTENDS TimerHeap, FiniteSets, Functions

CONSTANTS
    MaxTimers,   \* how many timers are added
    PerMilli, PerSecond,
    IntMax,      \* the largest int; the smallest is -IntMax - 1
    Start, End,  \* the clock goes from Start to End
    Delays,      \* seconds given to runAfter
    Times,       \* times given to runAt
    Intervals    \* seconds given to runEvery

(* An interval of 0 would keep handleTimer in its loop for ever.            *)
ASSUME TimerAssumption ==
    /\ MaxTimers \in Nat
    /\ PerMilli \in Nat \ {0} /\ PerSecond \in Nat \ {0} /\ PerSecond % PerMilli = 0
    /\ IntMax \in Nat /\ End \in Nat /\ Start \in 1..End /\ End % PerSecond = 0
    /\ Delays \subseteq Nat /\ Times \subseteq Nat /\ Intervals \subseteq Nat \ {0}

VARIABLES
    clock,       \* the time
    heap_,       \* TimerHeap::heap_
    expire,      \* expire_ of each timer
    every,       \* interval_ of a timer that repeats, 0 for one that does not
    next_time_,  \* TimerQueue::next_time_, 0 for no timer
    at,          \* where the loop's thread is
    running,     \* the timer whose callback runs
    wait_time,   \* the timeout of the poll, in milliseconds, -1 for none
    since,       \* when the poll began
    added,       \* how many timers have been added; they are numbered
    late         \* this poll began after the clock had passed next_time

Timers == 1..MaxTimers

vars == <<clock, heap_, expire, every, next_time_, at, running, wait_time, since, added, late>>
timerVars == <<heap_, expire, every, next_time_, added>>
waitVars == <<wait_time, since, late>>

Now == (clock \div PerSecond) * PerSecond
addTime(stamp, seconds) == stamp + seconds * PerSecond
toMilliseconds(stamp) == stamp \div PerMilli

(* Bug: the milliseconds are kept in full.                                  *)
MutToInt(n) == n

(* The value of an int that is given n.                                     *)
ToInt(n) == ((n + IntMax + 1) % (2 * (IntMax + 1))) - (IntMax + 1)

Init ==
    /\ clock = Start
    /\ heap_ = <<>> /\ next_time_ = 0
    /\ expire = [t \in Timers |-> 0]
    /\ every = [t \in Timers |-> 0]
    /\ at = "events" /\ running = {}
    /\ wait_time = 0 /\ since = 0 /\ late = FALSE
    /\ added = 0

Tick ==
    /\ clock < End
    /\ clock' = clock + 1
    /\ UNCHANGED <<timerVars, at, running, waitVars>>

------------------------------------------------------------------------------
(* Adding timers                                                            *)

Top(h) == h[1]

(* Bug: a time that is known is not moved.                                  *)
MutNextTimeAfterAdd(first, new) == IF next_time_ = 0 THEN new ELSE next_time_

(* The new time counts only if the timer is the first, and then only if no  *)
(* earlier time is known.                                                   *)
NextTimeAfterAdd(first, new) ==
    IF first /\ (next_time_ = 0 \/ new < next_time_) THEN new ELSE next_time_

AddTimer(when, interval) ==
    LET t == added + 1
        e == [expire EXCEPT ![t] = when]
        first == heap_ = <<>> \/ Before(e, t, Top(heap_))
    IN /\ at \in {"callback", "events"}
       /\ added < MaxTimers
       /\ added' = t
       /\ expire' = e
       /\ every' = [every EXCEPT ![t] = interval]
       /\ heap_' = addTimer(heap_, t, e)
       /\ next_time_' = NextTimeAfterAdd(first, when)
       /\ UNCHANGED <<clock, at, running, waitVars>>

runAfter(d) == AddTimer(addTime(Now, d), 0)
runAt(when) == AddTimer(when, 0)
runEvery(i) == AddTimer(Now, i)

------------------------------------------------------------------------------
(* handleTimer                                                              *)

Timeout(t) == Now >= expire[t]

(* Bug: a timer that repeats is restarted where it is.                      *)
MutRunTop ==
    LET t == Top(heap_)
        e == [expire EXCEPT ![t] = addTime(@, every[t])]
    IN /\ at = "timers"
       /\ heap_ # <<>>
       /\ Timeout(t)
       /\ expire' = e
       /\ heap_' = IF every[t] # 0 THEN heap_ ELSE popTimer(heap_, e)
       /\ running' = {t}
       /\ at' = "callback"
       /\ UNCHANGED <<clock, every, next_time_, added, waitVars>>

(* The heap and the times after the top timer has been taken off or, if it  *)
(* repeats, restarted and put back.                                         *)
RunTop ==
    LET t == Top(heap_)
        e == [expire EXCEPT ![t] = addTime(@, every[t])]
    IN /\ at = "timers"
       /\ heap_ # <<>>
       /\ Timeout(t)
       /\ expire' = e
       /\ \E popped \in {popTimer(heap_, e)} :
            heap_' = IF every[t] # 0 THEN addTimer(popped, t, e) ELSE popped
       /\ running' = {t}
       /\ at' = "callback"
       /\ UNCHANGED <<clock, every, next_time_, added, waitVars>>

(* A timer that is not in the heap any more is destroyed.                   *)
CallbackReturns ==
    /\ at = "callback"
    /\ running' = {}
    /\ expire' = [t \in Timers |-> IF t \in running /\ every[t] = 0 THEN 0 ELSE expire[t]]
    /\ at' = "timers"
    /\ UNCHANGED <<clock, heap_, every, next_time_, added, waitVars>>

(* Nothing more is due.                                                     *)
NoneDue ==
    /\ at = "timers"
    /\ heap_ # <<>> => ~Timeout(Top(heap_))
    /\ next_time_' = IF heap_ = <<>> THEN 0
                     ELSE IF next_time_ = 0 \/ expire[Top(heap_)] > next_time_
                          THEN expire[Top(heap_)] ELSE next_time_
    /\ at' = "next"
    /\ UNCHANGED <<clock, heap_, expire, every, added, running, waitVars>>

------------------------------------------------------------------------------
(* The rest of the loop                                                     *)

(* Bug: the next time is always taken as it is.                             *)
MutTimeToWait == next_time_

(* What is left until the next time; a next time that has passed stays as   *)
(* it is.                                                                   *)
TimeToWait == IF next_time_ # 0 /\ Now < next_time_ THEN next_time_ - Now ELSE next_time_

(* getNextTimeStamp, the second look at the clock, and Pollpoller::Wait up  *)
(* to the call of poll.                                                     *)
BeginWait ==
    /\ at = "next"
    /\ wait_time' = IF TimeToWait = 0 THEN -1 ELSE ToInt(toMilliseconds(TimeToWait))
    /\ since' = clock
    /\ late' = (next_time_ # 0 /\ Now >= next_time_)
    /\ at' = "wait"
    /\ UNCHANGED <<clock, timerVars, running>>

EndWait ==
    /\ at' = "events"
    /\ wait_time' = 0 /\ since' = 0 /\ late' = FALSE
    /\ UNCHANGED <<clock, timerVars, running>>

PollTimesOut ==
    /\ at = "wait"
    /\ wait_time >= 0
    /\ clock >= since + wait_time * PerMilli
    /\ EndWait

(* Something else ends the poll, or it fails.                               *)
PollReports == at = "wait" /\ EndWait

(* The handlers and the pending functors have run.                          *)
NextRound ==
    /\ at = "events"
    /\ at' = "timers"
    /\ UNCHANGED <<clock, timerVars, running, waitVars>>

LoopStep == RunTop \/ CallbackReturns \/ NoneDue \/ BeginWait \/ NextRound

Next ==
    \/ Tick
    \/ LoopStep \/ PollTimesOut \/ PollReports
    \/ \E d \in Delays : runAfter(d)
    \/ \E when \in Times : runAt(when)
    \/ \E i \in Intervals : runEvery(i)

(* The loop's thread runs, poll keeps its timeout and time goes on; no      *)
(* event is sure to end a poll, and nobody has to add a timer.              *)
Fairness == WF_vars(LoopStep) /\ WF_vars(PollTimesOut) /\ WF_vars(Tick)

Safety == Init /\ [][Next]_vars

Spec == Safety /\ Fairness

------------------------------------------------------------------------------
(* Properties                                                               *)

TypeOK ==
    /\ clock \in Start..End
    /\ heap_ \in Seq(Timers) /\ added \in 0..MaxTimers
    /\ expire \in [Timers -> Nat] /\ every \in [Timers -> Intervals \cup {0}]
    /\ next_time_ \in Nat
    /\ at \in {"timers", "callback", "next", "wait", "events"}
    /\ running # {} <=> at = "callback"
    /\ wait_time \in -(IntMax + 1)..IntMax

(* The heap is a heap through every add, removal and restart of timers, and *)
(* no timer is in it twice (timer_heap.cpp:8, 13, timer_queue.cpp:105).     *)
HeapOrdered ==
    /\ IsHeap(heap_, expire)
    /\ Cardinality(Range(heap_)) = Len(heap_)

(* What next_time_ says when the loop asks is the time of the earliest      *)
(* timer, 0 for none, although it is only moved forward in handleTimer and  *)
(* backward in addTimer (timer_queue.cpp:89, 117).                          *)
NextTimeIsTop ==
    at \in {"next", "wait"} => next_time_ = IF heap_ = <<>> THEN 0 ELSE expire[Top(heap_)]

(* A poll that began before the next time ends for it, less than a          *)
(* millisecond before and less than a second after, whatever else is        *)
(* pending, if an int can hold the milliseconds (event_loop.cpp:101,        *)
(* Pollpoller.cpp:59).                                                      *)
WakesForTimer ==
    at = "wait" /\ heap_ # <<>> /\ ~late
      /\ toMilliseconds(expire[Top(heap_)] - since + PerSecond) <= IntMax =>
        LET end == since + wait_time * PerMilli IN
        /\ wait_time >= 0
        /\ expire[Top(heap_)] - PerMilli < end /\ end < expire[Top(heap_)] + PerSecond

(* If no poll begins late, every timer whose time is a second before the    *)
(* end of the clock is run, and one that repeats goes on until then, though *)
(* nothing else ever happens (event_loop.cpp:98).                           *)
TimersRun ==
    [](~late) => \A t \in Timers :
        (t \in Range(heap_) /\ expire[t] <= End - PerSecond)
          ~> (t \notin Range(heap_) \/ expire[t] > End - PerSecond)

Service == INSTANCE TimerService WITH
    pending <- [t \in Range(heap_) |-> [expire |-> expire[t], every |-> every[t]]]

(* Timers run earliest first, one-shots once, and repeated ones once for    *)
(* every interval.                                                          *)
ImplementsTimerService == Service!Spec

(* "if (has_timer) wait_time = lasted_elasped - now" (doc/problem.md:7), at *)
(* least if an int can hold it.                                             *)
WaitIsRemaining ==
    at = "wait" /\ heap_ # <<>> =>
        LET now == (since \div PerSecond) * PerSecond
            left == toMilliseconds(IF expire[Top(heap_)] > now THEN expire[Top(heap_)] - now ELSE 0)
        IN left <= IntMax => wait_time = left
==============================================================================
