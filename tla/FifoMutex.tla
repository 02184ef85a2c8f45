----------------------------- MODULE FifoMutex -----------------------------
(***************************************************************************)
(* What hw3's lock() and unlock() promise the user-level threads: one      *)
(* holder at a time, and the lock goes to the threads in the order in      *)
(* which they asked for it, handed over rather than competed for.          *)
(***************************************************************************)
EXTENDS Naturals, Sequences

CONSTANTS Ids, Nobody

VARIABLES holder, waiters

vars == <<holder, waiters>>

Waiting == {waiters[k] : k \in 1..Len(waiters)}

Init == holder = Nobody /\ waiters = <<>>

(* Nobody overtakes: the lock is taken directly only if nobody waits.      *)
Acquire(p) ==
    /\ holder = Nobody /\ waiters = <<>>
    /\ holder' = p
    /\ UNCHANGED waiters

Enqueue(p) ==
    /\ holder \notin {Nobody, p}
    /\ p \notin Waiting
    /\ waiters' = Append(waiters, p)
    /\ UNCHANGED holder

Release(p) ==
    /\ holder = p
    /\ holder' = Nobody
    /\ UNCHANGED waiters

HandOver ==
    /\ holder = Nobody /\ waiters # <<>>
    /\ holder' = Head(waiters)
    /\ waiters' = Tail(waiters)

Next == HandOver \/ \E p \in Ids : Acquire(p) \/ Enqueue(p) \/ Release(p)

Spec == Init /\ [][Next]_vars

(* A holder releases, and a released lock is handed over.                  *)
Fairness == WF_vars(HandOver) /\ \A p \in Ids : WF_vars(Release(p))

FairSpec == Spec /\ Fairness
=============================================================================
