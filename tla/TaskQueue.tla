------------------------------ MODULE TaskQueue ------------------------------
(***************************************************************************)
(* What EventLoop::addFunctor promises its callers, without threads, pipes  *)
(* or polling: functors handed to a loop run one at a time, each exactly    *)
(* once, in the order in which they were handed over.                       *)
(*                                                                          *)
(* A functor is identified by its ticket, its position in that order.       *)
(***************************************************************************)
EXTENDS Naturals, Sequences

VARIABLES
    todo,     \* the functors handed over and not yet run, oldest first
    done      \* the functors that have run, in the order in which they ran

taskVars == <<todo, done>>

TaskInit == todo = <<>> /\ done = <<>>

(* Hand over one more functor.                                              *)
Submit ==
    /\ todo' = Append(todo, Len(done) + Len(todo) + 1)
    /\ UNCHANGED done

(* Run the functor that has waited longest.                                 *)
Execute ==
    /\ todo # <<>>
    /\ done' = Append(done, Head(todo))
    /\ todo' = Tail(todo)

TaskNext == Submit \/ Execute

TaskSpec == TaskInit /\ [][TaskNext]_taskVars /\ WF_taskVars(Execute)

(* The safety part alone, the part that is proved.                          *)
TaskSafety == TaskInit /\ [][TaskNext]_taskVars
==============================================================================
