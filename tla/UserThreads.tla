---------------------------- MODULE UserThreads ----------------------------
(***************************************************************************)
(* hw3: user-level threads switched with setjmp and longjmp in one         *)
(* process (main.c, threadtools.h, threads.c, scheduler.c).                *)
(*                                                                         *)
(* While a thread or the scheduler runs both signals are blocked, so what  *)
(* it does from one resumption to its next thread_yield, blocked lock() or *)
(* thread_exit is one step; a signal that arrives meanwhile stays pending. *)
(* The two windows that thread_yield opens are steps of their own.         *)
(*                                                                         *)
(* Kinds is the list of calls of thread_create in main.c's init_threads,   *)
(* in order; a thread's id is its position in that list. The arguments are *)
(* chosen in Init, as main.c reads them from argv; 0 creates no thread.    *)
(* printf and sleep are left out, and so are negative fib and fact         *)
(* arguments, which main.c treats as 0. Arguments are small enough that no *)
(* int overflows. The time slice is positive.                              *)
(* There are fewer threads than THREAD_MAX: main.c makes at most 4 and     *)
(* threads are created nowhere else (main.c:52); THREAD_MAX is 16.         *)
(***************************************************************************)
EXTENDS Integers, Sequences, FiniteSets

CONSTANTS Kinds,      \* e.g. <<"fib", "fact", "bank", "bank">>
          CountArgs,  \* arguments tried for fibonacci and factorial
          BankArgs,   \* arguments tried for bank_operation
          ThreadMax,  \* THREAD_MAX, the length of both queues
          Null        \* the null pointer

Ids  == 0..(Len(Kinds) - 1)
Kind(p) == Kinds[p + 1]
Slots == 0..(ThreadMax - 1)

ASSUME ThreadsAssumption ==
    /\ Kinds \in Seq({"fib", "fact", "bank"})
    /\ Len(Kinds) < ThreadMax
    /\ ThreadMax \in Nat
    /\ CountArgs \subseteq Nat
    /\ BankArgs \subseteq Int
    /\ Null \notin Int

SIGTSTP == "SIGTSTP"
SIGALRM == "SIGALRM"
Signals == {SIGTSTP, SIGALRM}

(* The three masks, as the set of signals each blocks.                     *)
base_mask == Signals
tstp_mask == {SIGTSTP}
alrm_mask == {SIGALRM}

VARIABLES
    ready_queue, waiting_queue,   \* arrays of threads (Null if never used)
    rq_size, rq_current, wq_size,
    lock_owner, balance,          \* struct Bank
    arg,       \* arg[p]: the argument of the thread
    tcb,       \* tcb[p]: i, x, y and where environment resumes the thread
    ctl,       \* what runs: "main", "sched", "run", "tstp_window",
               \* "alrm_window", or "done" when scheduler() has returned
    ret,       \* what setjmp(sched_buf) returned
    made,      \* how many of the calls of thread_create were made
    mask, pending, armed          \* signals blocked, pending; alarm running

queues  == <<ready_queue, waiting_queue, rq_size, rq_current, wq_size>>
bank    == <<lock_owner, balance>>
signals == <<mask, pending, armed>>
vars == <<queues, bank, arg, tcb, ctl, ret, made, signals>>

Running == ready_queue[rq_current]

Places == {"none", "new", "loop", "locked", "step2", "step3", "gone"}

(* init_signal and init_bank; both arrays are zero.                        *)
Init ==
    /\ ready_queue = [k \in Slots |-> Null]
    /\ waiting_queue = [k \in Slots |-> Null]
    /\ rq_size = 0 /\ rq_current = 0 /\ wq_size = 0
    /\ lock_owner = -1 /\ balance = 500
    /\ arg \in [Ids -> CountArgs \cup BankArgs]
    /\ \A p \in Ids : arg[p] \in IF Kind(p) = "bank" THEN BankArgs
                                                      ELSE CountArgs
    /\ tcb = [p \in Ids |-> [at |-> "none", i |-> 0, x |-> 0, y |-> 0]]
    /\ ctl = "main" /\ ret = 0 /\ made = 0
    /\ mask = base_mask /\ pending = {} /\ armed = FALSE

(***************************************************************************)
(* main.c: init_threads (each call runs thread_setup) and start_threading. *)
(***************************************************************************)
CreateThread ==
    /\ ctl = "main" /\ made < Len(Kinds)
    /\ made' = made + 1
    /\ IF arg[made] # 0
       THEN /\ ready_queue' = [ready_queue EXCEPT ![rq_size] = made]
            /\ rq_size' = rq_size + 1
            /\ tcb' = [tcb EXCEPT ![made].at = "new"]
       ELSE UNCHANGED <<ready_queue, rq_size, tcb>>
    /\ UNCHANGED <<waiting_queue, rq_current, wq_size, bank, arg, ctl, ret,
                   signals>>

StartThreading ==
    /\ ctl = "main" /\ made = Len(Kinds)
    /\ armed' = TRUE
    /\ ret' = 0
    /\ wq_size' = 0
    /\ rq_size' = CHOOSE n \in Slots :
                    /\ ready_queue[n] = Null
                    /\ \A k \in 0..(n - 1) : ready_queue[k] # Null
    /\ IF rq_size' > 0 THEN rq_current' = 0 /\ ctl' = "run"
                       ELSE ctl' = "done" /\ UNCHANGED rq_current
    /\ UNCHANGED <<ready_queue, waiting_queue, bank, arg, tcb, made, mask,
                   pending>>

(***************************************************************************)
(* threadtools.h: how a running thread gives up the processor.             *)
(***************************************************************************)
Jump(n) == ctl' = "sched" /\ ret' = n /\ UNCHANGED mask

(* thread_yield: save the environment, then unblock SIGTSTP.               *)
Yield == ctl' = "tstp_window" /\ mask' = alrm_mask /\ UNCHANGED ret

Exit == Jump(3)

(***************************************************************************)
(* threads.c. Each operator is what one thread does from its resumption to *)
(* the next yield, jump or exit.                                           *)
(***************************************************************************)
(* Operators with a suffix like _Clobbered are faulty variants of the      *)
(* operator they precede; no action uses them.                             *)
FibIteration_Clobbered(t) ==
    LET i == IF t.at = "new" THEN 1 ELSE t.i + 1
    IN  [at |-> "loop", i |-> i,
         x |-> IF i <= 2 THEN 1 ELSE t.y,
         y |-> IF i <= 2 THEN 1 ELSE t.y + t.y]

FibIteration(t) ==
    LET i == IF t.at = "new" THEN 1 ELSE t.i + 1
    IN  [at |-> "loop", i |-> i,
         x |-> IF i <= 2 THEN 1 ELSE t.y,
         y |-> IF i <= 2 THEN 1 ELSE t.x + t.y]

FactIteration(t) ==
    LET i == IF t.at = "new" THEN 1 ELSE t.i + 1
    IN  [at |-> "loop", i |-> i,
         x |-> IF t.at = "new" THEN 1 ELSE t.x * i, y |-> t.y]

Iterate(p) ==
    /\ ctl = "run" /\ Running = p
    /\ Kind(p) \in {"fib", "fact"}
    /\ LET t == IF Kind(p) = "fib" THEN FibIteration(tcb[p])
                                   ELSE FactIteration(tcb[p])
       IN  /\ tcb' = [tcb EXCEPT ![p] =
                        IF t.i = arg[p] THEN [t EXCEPT !.at = "gone"] ELSE t]
           /\ IF t.i = arg[p] THEN Exit ELSE Yield
    /\ UNCHANGED <<queues, bank, arg, made, pending, armed>>

GoOn(p, at) == tcb' = [tcb EXCEPT ![p].at = at]

BankLock_Barges(p) ==
    /\ tcb[p].at = "new"
    /\ lock_owner' = p
    /\ GoOn(p, "step2")
    /\ Yield
    /\ UNCHANGED balance

(* lock() is free: take it, and yield after step 1.                        *)
BankLock(p) ==
    /\ tcb[p].at = "new"
    /\ lock_owner = -1
    /\ lock_owner' = p
    /\ GoOn(p, "step2")
    /\ Yield
    /\ UNCHANGED balance

(* lock() is taken: to the waiting queue.                                  *)
BankBlock(p) ==
    /\ tcb[p].at = "new"
    /\ lock_owner # -1
    /\ GoOn(p, "locked")
    /\ Jump(2)
    /\ UNCHANGED bank

(* Resumed inside lock(), which the thread now believes it holds.          *)
BankGranted(p) ==
    /\ tcb[p].at = "locked"
    /\ GoOn(p, "step2")
    /\ Yield
    /\ UNCHANGED bank

Allowed(n) == n > 0 \/ (n < 0 /\ balance + n >= 0)

BankUpdate(p) ==
    /\ tcb[p].at = "step2"
    /\ balance' = IF Allowed(arg[p]) THEN balance + arg[p] ELSE balance
    /\ GoOn(p, "step3")
    /\ Yield
    /\ UNCHANGED lock_owner

Unlock_Forgotten(p) == UNCHANGED lock_owner

Unlock(p) == lock_owner' = IF lock_owner = p THEN -1 ELSE lock_owner

BankRelease(p) ==
    /\ tcb[p].at = "step3"
    /\ Unlock(p)
    /\ GoOn(p, "gone")
    /\ Exit
    /\ UNCHANGED balance

BankStep(p) ==
    /\ ctl = "run" /\ Running = p
    /\ Kind(p) = "bank"
    /\ BankLock(p) \/ BankBlock(p) \/ BankGranted(p) \/ BankUpdate(p)
       \/ BankRelease(p)
    /\ UNCHANGED <<queues, arg, made, pending, armed>>

(***************************************************************************)
(* thread_yield's windows and sighandler. A pending signal that the mask   *)
(* does not block is delivered before anything else happens.               *)
(***************************************************************************)
Deliverable == pending \ mask

TstpWindowCloses ==
    /\ ctl = "tstp_window"
    /\ Deliverable = {}
    /\ mask' = tstp_mask
    /\ ctl' = "alrm_window"
    /\ UNCHANGED <<queues, bank, arg, tcb, ret, made, pending, armed>>

AlrmWindowCloses_StaysOpen ==
    /\ ctl = "alrm_window"
    /\ Deliverable = {}
    /\ ctl' = "run"
    /\ UNCHANGED <<queues, bank, arg, tcb, ret, made, signals>>

AlrmWindowCloses ==
    /\ ctl = "alrm_window"
    /\ Deliverable = {}
    /\ mask' = base_mask
    /\ ctl' = "run"
    /\ UNCHANGED <<queues, bank, arg, tcb, ret, made, pending, armed>>

Rearm_Never(sig) == UNCHANGED armed
Rearm(sig) == armed' = (armed \/ sig = SIGALRM)

sighandler(sig) ==
    /\ sig \in Deliverable
    /\ pending' = pending \ {sig}
    /\ Rearm(sig)
    /\ mask' = base_mask
    /\ ctl' = "sched" /\ ret' = 1
    /\ UNCHANGED <<queues, bank, arg, tcb, made>>

(***************************************************************************)
(* scheduler, after a longjmp to sched_buf.                                *)
(***************************************************************************)
Handover_EmptyQueue == lock_owner = -1
Handover_OnYieldOnly == ret = 1 /\ lock_owner = -1 /\ wq_size > 0
Handover == lock_owner = -1 /\ wq_size > 0

AfterHandover_LastWaiter ==
    IF Handover
    THEN [owner |-> waiting_queue[wq_size - 1],
          rq |-> [ready_queue EXCEPT ![rq_size] = waiting_queue[wq_size - 1]],
          n  |-> rq_size + 1, wq |-> waiting_queue, m |-> wq_size - 1]
    ELSE [owner |-> lock_owner, rq |-> ready_queue, n |-> rq_size,
          wq |-> waiting_queue, m |-> wq_size]

AfterHandover_NoOwner ==
    IF Handover
    THEN [owner |-> lock_owner,
          rq |-> [ready_queue EXCEPT ![rq_size] = waiting_queue[0]],
          n  |-> rq_size + 1,
          wq |-> [k \in Slots |-> IF k <= wq_size - 2 THEN waiting_queue[k + 1]
                                                      ELSE waiting_queue[k]],
          m  |-> wq_size - 1]
    ELSE [owner |-> lock_owner, rq |-> ready_queue, n |-> rq_size,
          wq |-> waiting_queue, m |-> wq_size]

(* The queues after the lock was handed to the first waiter, if it was.    *)
AfterHandover ==
    IF Handover
    THEN [owner |-> waiting_queue[0],
          rq |-> [ready_queue EXCEPT ![rq_size] = waiting_queue[0]],
          n  |-> rq_size + 1,
          wq |-> [k \in Slots |-> IF k <= wq_size - 2 THEN waiting_queue[k + 1]
                                                      ELSE waiting_queue[k]],
          m  |-> wq_size - 1]
    ELSE [owner |-> lock_owner, rq |-> ready_queue, n |-> rq_size,
          wq |-> waiting_queue, m |-> wq_size]

RemoveRunning_NoWrap(rq, n) ==
    /\ ready_queue' = [rq EXCEPT ![rq_current] = rq[n - 1], ![n - 1] = Null]
    /\ UNCHANGED rq_current
    /\ rq_size' = n - 1

(* The running thread leaves ready_queue; the last one fills the hole.     *)
RemoveRunning(rq, n) ==
    /\ ready_queue' =
         IF rq_current < n - 1
         THEN [rq EXCEPT ![rq_current] = rq[n - 1], ![n - 1] = Null]
         ELSE [rq EXCEPT ![n - 1] = Null]
    /\ rq_current' = IF rq_current < n - 1 THEN rq_current ELSE 0
    /\ rq_size' = n - 1

NextIndex_Stays(n) == IF n > 0 THEN rq_current % n ELSE 0
NextIndex(n) == IF n > 0 THEN (rq_current + 1) % n ELSE 0

Schedule ==
    /\ ctl = "sched"
    /\ LET a == AfterHandover
       IN  /\ lock_owner' = a.owner
           /\ IF ret = 2
              THEN /\ waiting_queue' = [a.wq EXCEPT ![a.m] = a.rq[rq_current]]
                   /\ wq_size' = a.m + 1
              ELSE waiting_queue' = a.wq /\ wq_size' = a.m
           /\ IF ret \in {2, 3}
              THEN RemoveRunning(a.rq, a.n)
              ELSE /\ ready_queue' = a.rq
                   /\ rq_size' = a.n
                   /\ rq_current' = NextIndex(a.n)
    /\ ctl' = IF rq_size' = 0 THEN "done" ELSE "run"
    /\ UNCHANGED <<balance, arg, tcb, ret, made, signals>>

(***************************************************************************)
(* The outside: the terminal sends SIGTSTP, the alarm goes off.            *)
(***************************************************************************)
TstpArrives ==
    /\ ctl # "done" /\ SIGTSTP \notin pending
    /\ pending' = pending \cup {SIGTSTP}
    /\ UNCHANGED <<queues, bank, arg, tcb, ctl, ret, made, mask, armed>>

AlarmGoesOff ==
    /\ ctl # "done" /\ armed
    /\ armed' = FALSE
    /\ pending' = pending \cup {SIGALRM}
    /\ UNCHANGED <<queues, bank, arg, tcb, ctl, ret, made, mask>>

Returned == ctl = "done" /\ UNCHANGED vars

-----------------------------------------------------------------------------
Program ==
    \/ CreateThread \/ StartThreading
    \/ \E p \in Ids : Iterate(p) \/ BankStep(p)
    \/ TstpWindowCloses \/ AlrmWindowCloses
    \/ \E sig \in Signals : sighandler(sig)
    \/ Schedule

Next == Program \/ TstpArrives \/ AlarmGoesOff \/ Returned

Spec == Init /\ [][Next]_vars

(* The process runs and its timer expires; nobody has to press Ctrl-Z.     *)
FairSpec == Spec /\ WF_vars(Program) /\ WF_vars(AlarmGoesOff)

-----------------------------------------------------------------------------
(* What the variables range over.                                          *)
TypeOK ==
    /\ ready_queue \in [Slots -> Ids \cup {Null}]
    /\ waiting_queue \in [Slots -> Ids \cup {Null}]
    /\ rq_size \in 0..ThreadMax /\ wq_size \in 0..ThreadMax
    /\ rq_current \in Slots
    /\ lock_owner \in Ids \cup {-1} /\ balance \in Int
    /\ arg \in [Ids -> CountArgs \cup BankArgs]
    /\ tcb \in [Ids -> [at : Places, i : Nat, x : Nat, y : Nat]]
    /\ ctl \in {"main", "sched", "run", "tstp_window", "alrm_window", "done"}
    /\ ret \in 0..3 /\ made \in 0..Len(Kinds)
    /\ mask \subseteq Signals /\ pending \subseteq Signals
    /\ armed \in BOOLEAN

Ready == {ready_queue[k] : k \in 0..(rq_size - 1)}
Waiting == {waiting_queue[k] : k \in 0..(wq_size - 1)}

(* A thread that called thread_exit stays in ready_queue until the         *)
(* scheduler removes it.                                                   *)
Leaving(p) == ctl = "sched" /\ ret = 3 /\ Running = p

(* The arrays survive their in-place edits: every thread that was created  *)
(* and has not exited is in exactly one queue, once, ready_queue has no    *)
(* hole and ends in a null pointer, and rq_current is inside it.           *)
QueuesOK ==
    /\ \A k \in Slots : (k < rq_size) <=> (ready_queue[k] # Null)
    /\ \A j, k \in 0..(rq_size - 1) : ready_queue[j] = ready_queue[k] => j = k
    /\ \A j, k \in 0..(wq_size - 1) :
          waiting_queue[j] = waiting_queue[k] => j = k
    /\ Ready \cap Waiting = {}
    /\ \A p \in Ids : (p \in Ready \cup Waiting) <=>
                        (tcb[p].at \notin {"none", "gone"} \/ Leaving(p))
    /\ rq_size > 0 => rq_current < rq_size

(* Whoever is inside its critical section owns the lock, also a thread     *)
(* that resumes in the middle of lock(); the owner is ready, so it can get *)
(* to its unlock(); every waiting thread is inside lock().                 *)
LockOK ==
    /\ \A p \in Ids : tcb[p].at \in {"step2", "step3"} => lock_owner = p
    /\ \A p \in Ready :
          tcb[p].at = "locked" =>
              lock_owner = p \/ (ctl = "sched" /\ ret = 2 /\ Running = p)
    /\ lock_owner # -1 => lock_owner \in Ready
    /\ \A p \in Waiting : tcb[p].at = "locked"

(* The time slices go on: the alarm is running or its signal is pending,   *)
(* never neither, whichever signals were caught in whichever order.        *)
AlarmKept ==
    ctl \notin {"main", "done"} => (armed <=> SIGALRM \notin pending)

(* "Prior to calling this function, both SIGTSTP and SIGALRM should be     *)
(* blocked" (scheduler.c:26); the threads too run with both blocked.       *)
SignalsBlocked == ctl \in {"main", "sched", "run"} => mask = base_mask

Fib[n \in Nat] == IF n <= 2 THEN 1 ELSE Fib[n - 1] + Fib[n - 2]
Fact[n \in Nat] == IF n = 0 THEN 1 ELSE n * Fact[n - 1]

(* The numbers a thread keeps in its TCB survive every switch: after its   *)
(* i-th iteration fibonacci has the i-th number and factorial i!.          *)
ResultsOK ==
    \A p \in Ids :
        tcb[p].i > 0 =>
            /\ tcb[p].i <= arg[p]
            /\ Kind(p) = "fib" => tcb[p].y = Fib[tcb[p].i]
            /\ Kind(p) = "fact" => tcb[p].x = Fact[tcb[p].i]
            /\ tcb[p].at = "gone" => tcb[p].i = arg[p]

(* The balance is changed only by the thread that holds the lock, and a    *)
(* withdrawal never overdraws it.                                          *)
BalanceGuarded ==
    [][balance' # balance => lock_owner = Running /\ balance' >= 0]_vars

(* A caught signal passes the processor on whenever another thread could   *)
(* have it.                                                                *)
SignalSwitches ==
    [][ctl = "sched" /\ ret = 1 /\ ctl' = "run" /\ rq_size > 1
         => Running' # Running]_vars

(* The lock of the bank is a FIFO mutex that is handed over.               *)
FM == INSTANCE FifoMutex
        WITH Nobody <- -1, holder <- lock_owner,
             waiters <- [k \in 1..wq_size |-> waiting_queue[k - 1]]

LockIsFifo == FM!Spec
LockIsFair == FM!FairSpec

(* Every thread runs to its end and scheduler() returns.                   *)
AllReturn == <>(ctl = "done" /\ \A p \in Ids : tcb[p].at = "gone" \/ arg[p] = 0)
=============================================================================
