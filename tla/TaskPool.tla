------------------------------ MODULE TaskPool ------------------------------
(***************************************************************************)
(* What hw4's thread pool promises the program that uses it, without its   *)
(* threads, lock, condition variables or linked list: tasks are accepted   *)
(* in an order, started in that order by workers that run one task at a    *)
(* time, a waiting caller is released only when nothing is left to do, and *)
(* a closed pool starts no task and gives back the ones it never started.  *)
(***************************************************************************)
EXTENDS Naturals, Sequences

CONSTANTS Workers, Tasks, Null

VARIABLES queue,     \* tasks accepted and not started, oldest first
          slot,      \* slot[w]: the task worker w runs, or Null
          done,      \* tasks whose function ran to its end
          dropped,   \* tasks given back unstarted by a closed pool
          waiting,   \* TRUE while the main thread is inside tpool_wait
          closed     \* TRUE once tpool_destroy has told the workers to stop

vars == <<queue, slot, done, dropped, waiting, closed>>

Queued   == {queue[i] : i \in 1..Len(queue)}
Running  == {slot[w] : w \in Workers} \ {Null}
Accepted == Queued \cup Running \cup done \cup dropped

Init ==
    /\ queue = <<>>
    /\ slot = [w \in Workers |-> Null]
    /\ done = {}
    /\ dropped = {}
    /\ waiting = FALSE
    /\ closed = FALSE

(* A task enters once. The main thread adds while it is not waiting; a     *)
(* running task may add at any time, even after the pool was closed.       *)
Add(t) ==
    /\ t \notin Accepted
    /\ Running # {} \/ (~waiting /\ ~closed)
    /\ queue' = Append(queue, t)
    /\ UNCHANGED <<slot, done, dropped, waiting, closed>>

Start(w) ==
    /\ ~closed
    /\ queue # <<>>
    /\ slot[w] = Null
    /\ slot' = [slot EXCEPT ![w] = Head(queue)]
    /\ queue' = Tail(queue)
    /\ UNCHANGED <<done, dropped, waiting, closed>>

Finish(w) ==
    /\ slot[w] # Null
    /\ done' = done \cup {slot[w]}
    /\ slot' = [slot EXCEPT ![w] = Null]
    /\ UNCHANGED <<queue, dropped, waiting, closed>>

CallWait ==
    /\ ~waiting /\ ~closed
    /\ waiting' = TRUE
    /\ UNCHANGED <<queue, slot, done, dropped, closed>>

ReturnWait ==
    /\ waiting
    /\ queue = <<>>
    /\ Running = {}
    /\ waiting' = FALSE
    /\ UNCHANGED <<queue, slot, done, dropped, closed>>

Close ==
    /\ ~waiting /\ ~closed
    /\ closed' = TRUE
    /\ UNCHANGED <<queue, slot, done, dropped, waiting>>

Drop ==
    /\ closed
    /\ Running = {}
    /\ queue # <<>>
    /\ dropped' = dropped \cup {Head(queue)}
    /\ queue' = Tail(queue)
    /\ UNCHANGED <<slot, done, waiting, closed>>

Next ==
    \/ \E t \in Tasks : Add(t)
    \/ \E w \in Workers : Start(w) \/ Finish(w)
    \/ CallWait \/ ReturnWait \/ Close \/ Drop

Spec == Init /\ [][Next]_vars

(* Nobody is obliged to call the pool; whatever it has been given moves on. *)
Fairness ==
    /\ WF_vars(\E w \in Workers : Start(w))
    /\ \A w \in Workers : WF_vars(Finish(w))
    /\ WF_vars(ReturnWait)
    /\ WF_vars(Drop)

FairSpec == Spec /\ Fairness
=============================================================================
