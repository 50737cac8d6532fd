------------------------------ MODULE TimerHeap ------------------------------
(***************************************************************************)
(* TimerHeap: a binary heap of timers in a vector.  Indexes are those of    *)
(* the code, from 0; the sequence that stands for heap_ starts at 1.  e is  *)
(* the expire_ of each timer.                                               *)
(*                                                                          *)
(* The swaps of up and of down take one timer along a path and move every   *)
(* timer of the path one place the other way.  rest[k] is where the timer   *)
(* comes to rest if it has come to k, path[k] the places from k to there.   *)
(***************************************************************************)
EXTENDS Integers, Sequences

(* Timer::operator<                                                         *)
Before(e, t, u) == e[t] < e[u]

At(h, idx) == h[idx + 1]

parent(idx) == (idx - 1) \div 2

up(h, idx, e) ==
    LET timer == At(h, idx)
        rest[k \in 0..idx] ==
          IF k > 0 /\ Before(e, timer, At(h, parent(k))) THEN rest[parent(k)] ELSE k
        path[k \in 0..idx] == IF k = rest[k] THEN {k} ELSE {k} \cup path[parent(k)]
    IN [i \in DOMAIN h |-> IF i - 1 = rest[idx] THEN timer
                           ELSE IF i - 1 \in path[idx] THEN At(h, parent(i - 1)) ELSE h[i]]

(* The child to compare with: the right one if the left is not before it.   *)
minChild(h, idx, e) ==
    LET child == 2 * idx + 1
    IN IF child + 1 = Len(h) \/ Before(e, At(h, child), At(h, child + 1)) THEN child ELSE child + 1

down(h, idx, e) ==
    LET timer == At(h, idx)
        rest[k \in 0..(Len(h) - 1)] ==
          IF 2 * k + 1 >= Len(h) \/ Before(e, timer, At(h, minChild(h, k, e))) THEN k
          ELSE rest[minChild(h, k, e)]
        path[k \in 0..(Len(h) - 1)] ==
          IF k = rest[k] THEN {k} ELSE {k} \cup path[minChild(h, k, e)]
    IN [i \in DOMAIN h |-> IF i - 1 = rest[idx] THEN timer
                           ELSE IF i - 1 \in path[idx] THEN At(h, minChild(h, i - 1, e)) ELSE h[i]]

addTimer(h, timer, e) == up(Append(h, timer), Len(h), e)

(* Bug: the last timer is taken off before it has been moved to the top.    *)
MutPopTimer(h, e) ==
    IF Len(h) <= 1 THEN <<>> ELSE down(SubSeq(h, 1, Len(h) - 1), 0, e)

(* The last timer goes to the top and down while its copy is still at the   *)
(* end.                                                                     *)
popTimer(h, e) ==
    IF h = <<>> THEN h
    ELSE SubSeq(down([h EXCEPT ![1] = h[Len(h)]], 0, e), 1, Len(h) - 1)

(* No timer is before its parent.                                           *)
IsHeap(h, e) == \A i \in 1..(Len(h) - 1) : ~Before(e, At(h, i), At(h, parent(i)))
==============================================================================
