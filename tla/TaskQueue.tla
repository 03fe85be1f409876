------------------------------ MODULE TaskQueue ------------------------------
(****************************************************************************)
(* What the users of the thread pool expect of submit: one queue of tasks,  *)
(* of which a worker with empty hands takes the first, and which gives up   *)
(* no task before a worker has it and no task twice.  How workers sleep, are *)
(* woken and find the queue empty is not seen from here.                    *)
(*                                                                          *)
(* The expectation holds until the queue is spoiled; nothing is said then.  *)
(****************************************************************************)
EXTENDS Sequences

CONSTANTS Worker, Task, None

VARIABLES pending,  \* the tasks that no worker has, in the order of submission
          hold,     \* the task each worker is busy with, or None
          spoiled   \* the queue was used in a way that breaks it

vars == <<pending, hold, spoiled>>

Idle == [w \in Worker |-> None]

Init == pending = <<>> /\ hold = Idle /\ spoiled = FALSE

Submit(t) ==
  /\ ~spoiled
  /\ pending' = Append(pending, t)
  /\ UNCHANGED <<hold, spoiled>>

Take(w) ==
  /\ ~spoiled
  /\ hold[w] = None /\ pending # <<>>
  /\ hold' = [hold EXCEPT ![w] = Head(pending)]
  /\ pending' = Tail(pending)
  /\ UNCHANGED spoiled

Finish(w) ==
  /\ ~spoiled
  /\ hold[w] # None
  /\ hold' = [hold EXCEPT ![w] = None]
  /\ UNCHANGED <<pending, spoiled>>

Spoil == pending' = <<>> /\ hold' = Idle /\ spoiled' = TRUE

Next ==
  \/ \E t \in Task : Submit(t)
  \/ \E w \in Worker : Take(w) \/ Finish(w)
  \/ Spoil

Spec == Init /\ [][Next]_vars
==============================================================================
