------------------------- MODULE UserThreadsProofs -------------------------
(***************************************************************************)
(* For any list of threads, any arguments and any THREAD_MAX that has room *)
(* for them: the inductive invariant of UserThreads, the safety properties *)
(* it implies, and that the bank's lock is a FifoMutex.                    *)
(***************************************************************************)
EXTENDS UserThreads, FunctionTheorems, FiniteSetTheorems, SequenceTheorems,
        InductionLemmas

USE ThreadsAssumption

-----------------------------------------------------------------------------
(* The recursions of fibonacci and factorial have the values they name.    *)
LEMMA FibUnfolds ==
  Fib = [n \in Nat |-> IF n <= 2 THEN 1 ELSE Fib[n - 1] + Fib[n - 2]]
<1> DEFINE D == [n \in Nat |-> [g \in [Nat -> Nat] |->
                    IF n <= 2 THEN 1 ELSE g[n - 1] + g[n - 2]]]
<1>1. D \in [Nat -> [[Nat -> Nat] -> Nat]]
  <2>1. ASSUME NEW n \in Nat, NEW g \in [Nat -> Nat], ~(n <= 2)
        PROVE  g[n - 1] \in Nat /\ g[n - 2] \in Nat
    <3>1. n - 1 \in Nat /\ n - 2 \in Nat
      BY <2>1
    <3> QED
      BY <3>1
  <2>2. ASSUME NEW n \in Nat, NEW g \in [Nat -> Nat]
        PROVE  (IF n <= 2 THEN 1 ELSE g[n - 1] + g[n - 2]) \in Nat
    <3>1. CASE n <= 2
      BY <3>1
    <3>2. CASE ~(n <= 2)
      <4>1. g[n - 1] \in Nat /\ g[n - 2] \in Nat
        BY <2>1, <3>2
      <4>2. \A a, b \in Nat : a + b \in Nat
        OBVIOUS
      <4>3. g[n - 1] + g[n - 2] \in Nat
        BY <4>1, <4>2, Zenon
      <4> QED
        BY <3>2, <4>3
    <3> QED
      BY <3>1, <3>2
  <2> QED
    BY <2>2
<1>2. LooksBelow(D, Nat)
  BY DEF LooksBelow
<1>3. PICK f \in [Nat -> Nat] : \A n \in Nat : f[n] = D[n][f]
  <2> HIDE DEF D
  <2> QED
    BY <1>1, <1>2, RecursionExists, ZenonT(30)
<1>4. f = [n \in Nat |-> IF n <= 2 THEN 1 ELSE f[n - 1] + f[n - 2]]
  BY <1>3
<1> QED
  BY <1>4 DEF Fib

(* And so has that of factorial.                                           *)
LEMMA FactUnfolds ==
  Fact = [n \in Nat |-> IF n = 0 THEN 1 ELSE n * Fact[n - 1]]
<1> DEFINE D == [n \in Nat |-> [g \in [Nat -> Nat] |->
                    IF n = 0 THEN 1 ELSE n * g[n - 1]]]
<1>1. D \in [Nat -> [[Nat -> Nat] -> Nat]]
  <2>1. ASSUME NEW n \in Nat, NEW g \in [Nat -> Nat], ~(n = 0)
        PROVE  g[n - 1] \in Nat
    <3>1. n - 1 \in Nat
      BY <2>1
    <3> QED
      BY <3>1
  <2>2. ASSUME NEW n \in Nat, NEW g \in [Nat -> Nat]
        PROVE  (IF n = 0 THEN 1 ELSE n * g[n - 1]) \in Nat
    <3>1. CASE n = 0
      BY <3>1
    <3>2. CASE ~(n = 0)
      <4>1. g[n - 1] \in Nat
        BY <2>1, <3>2
      <4>2. \A a, b \in Nat : a * b \in Nat
        OBVIOUS
      <4>3. n * g[n - 1] \in Nat
        BY <4>1, <4>2, Zenon
      <4> QED
        BY <3>2, <4>3
    <3> QED
      BY <3>1, <3>2
  <2> QED
    BY <2>2
<1>2. LooksBelow(D, Nat)
  BY DEF LooksBelow
<1>3. PICK f \in [Nat -> Nat] : \A n \in Nat : f[n] = D[n][f]
  <2> HIDE DEF D
  <2> QED
    BY <1>1, <1>2, RecursionExists, ZenonT(30)
<1>4. f = [n \in Nat |-> IF n = 0 THEN 1 ELSE n * f[n - 1]]
  BY <1>3
<1> QED
  BY <1>4 DEF Fact

-----------------------------------------------------------------------------
(* The inductive invariant. Until start_threading the queues hold what     *)
(* init_threads made so far, and nothing else has happened.                *)
BeforeStart ==
    ctl = "main" =>
        /\ rq_size <= made /\ rq_current = 0 /\ wq_size = 0
        /\ waiting_queue = [k \in Slots |-> Null]
        /\ lock_owner = -1
        /\ ~armed /\ SIGALRM \notin pending
        /\ \A p \in Ids : /\ tcb[p].at \in {"none", "new"}
                          /\ p >= made => tcb[p].at = "none"

(* What a switch left: there is a running thread until scheduler() returns,*)
(* and the scheduler is told the truth about it; the masks are narrow only *)
(* in the two windows.                                                     *)
Resumed ==
    /\ ctl \in {"sched", "run", "tstp_window", "alrm_window"} => rq_size > 0
    /\ ctl = "sched" =>
          /\ ret # 0
          /\ ret = 2 => /\ tcb[Running].at = "locked"
                        /\ lock_owner \notin {-1, Running}
          /\ ret = 3 => tcb[Running].at = "gone"
    /\ ctl \notin {"tstp_window", "alrm_window"} => mask = base_mask

(* The lock's owner has asked for it and not left; while the threads run,  *)
(* nobody waits for a lock that is free.                                   *)
HolderOK ==
    /\ \A p \in Ids :
          tcb[p].at \in {"locked", "step2", "step3"} => Kind(p) = "bank"
    /\ lock_owner # -1 => tcb[lock_owner].at \in {"locked", "step2", "step3"}
    /\ lock_owner = -1 /\ ctl \notin {"sched", "done"} => wq_size = 0
    /\ Waiting \subseteq Ids
    /\ balance >= 0

(* What a thread keeps besides its result: the loop counter is short of    *)
(* the argument while it loops, and fibonacci's x is the number before y.  *)
LoopOK ==
    \A p \in Ids :
        /\ arg[p] \in IF Kind(p) = "bank" THEN BankArgs ELSE CountArgs
        /\ tcb[p].at = "new" => tcb[p].i = 0 /\ arg[p] # 0
        /\ tcb[p].at = "none" \/ Kind(p) = "bank" => tcb[p].i = 0
        /\ tcb[p].at = "loop" => tcb[p].i > 0 /\ tcb[p].i < arg[p]
        /\ tcb[p].i > 1 /\ Kind(p) = "fib" => tcb[p].x = Fib[tcb[p].i - 1]

IInv ==
    /\ TypeOK /\ QueuesOK /\ LockOK /\ AlarmKept /\ ResultsOK
    /\ BeforeStart /\ Resumed /\ HolderOK /\ LoopOK

-----------------------------------------------------------------------------
(* Facts about the constants that every proof uses.                        *)
LEMMA Constants ==
  /\ Len(Kinds) \in Nat /\ ThreadMax \in Nat /\ ThreadMax > 0
  /\ Len(Kinds) < ThreadMax
  /\ Ids \subseteq Slots /\ Ids \subseteq Nat /\ Slots \subseteq Nat
  /\ Null \notin Ids /\ -1 \notin Ids
  /\ \A p \in Ids : Kind(p) \in {"fib", "fact", "bank"}
  /\ \A p \in Ids : arg \in [Ids -> CountArgs \cup BankArgs] => arg[p] \in Int
<1>1. /\ Len(Kinds) \in Nat /\ ThreadMax \in Nat /\ ThreadMax > 0
      /\ Len(Kinds) < ThreadMax
  BY DEF ThreadsAssumption
<1>2. /\ Ids \subseteq Slots /\ Ids \subseteq Nat /\ Slots \subseteq Nat
      /\ Null \notin Ids /\ -1 \notin Ids
  BY <1>1 DEF ThreadsAssumption, Ids, Slots
<1>3. \A p \in Ids : Kind(p) \in {"fib", "fact", "bank"}
  <2> SUFFICES ASSUME NEW p \in Ids PROVE Kinds[p + 1] \in {"fib", "fact", "bank"}
    BY DEF Kind
  <2>1. p + 1 \in 1..Len(Kinds)
    BY <1>1 DEF Ids
  <2>2. Kinds \in [1..Len(Kinds) -> {"fib", "fact", "bank"}]
    BY DEF ThreadsAssumption
  <2> HIDE ThreadsAssumption
  <2> QED
    BY <2>1, <2>2
<1>4. \A p \in Ids : arg \in [Ids -> CountArgs \cup BankArgs] => arg[p] \in Int
  <2>1. CountArgs \cup BankArgs \subseteq Int
    BY DEF ThreadsAssumption
  <2> HIDE ThreadsAssumption
  <2> QED
    BY <2>1
<1> QED
  BY <1>1, <1>2, <1>3, <1>4

(* Both queues together never hold more threads than were created.         *)
LEMMA Room ==
  ASSUME TypeOK, QueuesOK, Waiting \subseteq Ids
  PROVE  rq_size + wq_size <= Len(Kinds)
<1> DEFINE s == rq_size + wq_size
           f == [k \in 1..s |-> IF k <= rq_size THEN ready_queue[k - 1]
                                 ELSE waiting_queue[k - rq_size - 1]]
<1>0. /\ rq_size \in Nat /\ wq_size \in Nat /\ s \in Nat
      /\ rq_size <= ThreadMax /\ wq_size <= ThreadMax
  BY Constants DEF TypeOK
<1>1. ASSUME NEW k \in 1..s, k <= rq_size
      PROVE  f[k] = ready_queue[k - 1] /\ f[k] \in Ready /\ f[k] \in Ids
  BY <1>0, <1>1, Constants DEF TypeOK, QueuesOK, Ready, Slots
<1>2. ASSUME NEW k \in 1..s, ~(k <= rq_size)
      PROVE  /\ f[k] = waiting_queue[k - rq_size - 1]
             /\ f[k] \in Waiting /\ f[k] \in Ids
  BY <1>0, <1>2 DEF Waiting
<1>3. f \in [1..s -> Ids]
  BY <1>1, <1>2
<1>4. ASSUME NEW j \in 1..s, NEW k \in 1..s, f[j] = f[k] PROVE j = k
  <2>1. CASE j <= rq_size /\ k <= rq_size
    BY <1>0, <1>1, <1>4, <2>1 DEF QueuesOK
  <2>2. CASE ~(j <= rq_size) /\ ~(k <= rq_size)
    <3>1. /\ j - rq_size - 1 \in 0..(wq_size - 1)
          /\ k - rq_size - 1 \in 0..(wq_size - 1)
      BY <1>0, <2>2
    <3>2. waiting_queue[j - rq_size - 1] = waiting_queue[k - rq_size - 1]
      BY <1>2, <1>4, <2>2
    <3>3. j - rq_size - 1 = k - rq_size - 1
      BY <3>1, <3>2 DEF QueuesOK
    <3> QED
      BY <1>0, <3>3
  <2>3. CASE (j <= rq_size) # (k <= rq_size)
    BY <1>1, <1>2, <1>4, <2>3 DEF QueuesOK
  <2> QED
    BY <2>1, <2>2, <2>3
<1>5. f \in Injection(1..s, Ids)
  <2> HIDE DEF f, s
  <2> QED
    BY <1>3, <1>4 DEF Injection, IsInjective
<1>6. IsFiniteSet(Ids) /\ Cardinality(Ids) = Len(Kinds)
  <2>1. 0 \in Int /\ Len(Kinds) - 1 \in Int
    BY Constants
  <2>2. /\ IsFiniteSet(0..(Len(Kinds) - 1))
        /\ Cardinality(0..(Len(Kinds) - 1)) =
              IF 0 > Len(Kinds) - 1 THEN 0 ELSE (Len(Kinds) - 1) - 0 + 1
    BY <2>1, FS_Interval
  <2> QED
    BY <2>2, Constants DEF Ids
<1>7. Cardinality(1..s) <= Cardinality(Ids)
  <2> HIDE DEF f, s
  <2> QED
    BY <1>5, <1>6, FS_Injection
<1>8. Cardinality(1..s) = s
  BY <1>0, FS_Interval
<1> QED
  BY <1>6, <1>7, <1>8

(* Whoever is ready is a thread that has been created.                     *)
LEMMA ReadyInIds ==
  ASSUME TypeOK, QueuesOK
  PROVE  Ready \subseteq Ids
BY Constants DEF TypeOK, QueuesOK, Ready, Slots

(* The running thread is ready, and waits for nothing.                     *)
LEMMA RunningIsReady ==
  ASSUME IInv, ctl \in {"sched", "run", "tstp_window", "alrm_window"}
  PROVE  /\ rq_current \in 0..(rq_size - 1)
         /\ Running \in Ids /\ Running \in Ready /\ Running \notin Waiting
         /\ ctl = "run" => tcb[Running].at \notin {"none", "gone"}
<1>1. rq_current \in 0..(rq_size - 1)
  BY Constants DEF IInv, TypeOK, QueuesOK, Resumed, Slots
<1>2. Running \in Ready /\ Running \in Ids
  BY <1>1, Constants DEF IInv, TypeOK, QueuesOK, Running, Ready
<1>3. Running \notin Waiting
  BY <1>2 DEF IInv, QueuesOK
<1>4. ctl = "run" => tcb[Running].at \notin {"none", "gone"}
  BY <1>2 DEF IInv, QueuesOK, Leaving
<1> QED
  BY <1>1, <1>2, <1>3, <1>4

-----------------------------------------------------------------------------
(* The initial state satisfies the inductive invariant.                    *)
LEMMA InitInv == Init => IInv
<1> SUFFICES ASSUME Init PROVE IInv
  OBVIOUS
<1>1. TypeOK
  <2>1. 0 \in Slots /\ 0 \in 0..ThreadMax /\ 0 \in 0..Len(Kinds)
    BY Constants DEF Slots
  <2>2. /\ ready_queue \in [Slots -> Ids \cup {Null}]
        /\ waiting_queue \in [Slots -> Ids \cup {Null}]
        /\ rq_current \in Slots
    BY <2>1 DEF Init
  <2>3. tcb \in [Ids -> [at : Places, i : Nat, x : Nat, y : Nat]]
    BY DEF Init, Places
  <2>4. /\ rq_size \in 0..ThreadMax /\ wq_size \in 0..ThreadMax
        /\ lock_owner \in Ids \cup {-1} /\ balance \in Int
        /\ ret \in 0..3 /\ made \in 0..Len(Kinds)
    BY <2>1 DEF Init
  <2>5. /\ arg \in [Ids -> CountArgs \cup BankArgs] /\ armed \in BOOLEAN
        /\ ctl \in {"main", "sched", "run", "tstp_window", "alrm_window", "done"}
        /\ mask \subseteq Signals /\ pending \subseteq Signals
    BY DEF Init, base_mask
  <2> QED
    BY <2>2, <2>3, <2>4, <2>5 DEF TypeOK
<1>2. Ready = {} /\ Waiting = {}
  BY DEF Init, Ready, Waiting
<1>3. QueuesOK
  BY <1>2, Constants DEF Init, QueuesOK, Leaving, Slots
<1>4. LockOK
  BY <1>2 DEF Init, LockOK
<1>5. AlarmKept /\ ResultsOK /\ Resumed
  BY DEF Init, AlarmKept, ResultsOK, Resumed
<1>6. BeforeStart
  BY DEF Init, BeforeStart
<1>7. HolderOK /\ LoopOK
  BY <1>2 DEF Init, HolderOK, LoopOK
<1> QED
  BY <1>1, <1>3, <1>4, <1>5, <1>6, <1>7 DEF IInv

-----------------------------------------------------------------------------
(* Signals and windows touch neither queue, bank nor thread.               *)
LEMMA SignalStep ==
  ASSUME IInv,
         \/ TstpWindowCloses \/ AlrmWindowCloses \/ TstpArrives \/ AlarmGoesOff
         \/ \E sig \in Signals : sighandler(sig)
  PROVE  IInv'
<1>0. /\ UNCHANGED <<queues, bank, arg, tcb, made>>
      /\ UNCHANGED <<Running, Ready, Waiting>>
  BY DEF TstpWindowCloses, AlrmWindowCloses, TstpArrives, AlarmGoesOff,
         sighandler, queues, bank, Running, Ready, Waiting
<1>1. \/ UNCHANGED <<ctl, ret>>
      \/ ctl = "tstp_window" /\ ctl' = "alrm_window" /\ UNCHANGED ret
      \/ ctl = "alrm_window" /\ ctl' = "run" /\ UNCHANGED ret
      \/ ctl \in {"tstp_window", "alrm_window"} /\ ctl' = "sched" /\ ret' = 1
  <2>1. CASE \E sig \in Signals : sighandler(sig)
    <3>1. ctl \in {"tstp_window", "alrm_window"}
      BY <2>1 DEF IInv, Resumed, sighandler, Deliverable, base_mask
    <3> QED
      BY <2>1, <3>1 DEF sighandler
  <2> QED
    BY <2>1 DEF TstpWindowCloses, AlrmWindowCloses, TstpArrives, AlarmGoesOff
<1>2. TypeOK'
  <2>1. mask' \subseteq Signals /\ pending' \subseteq Signals
    BY DEF IInv, TypeOK, TstpWindowCloses, AlrmWindowCloses, TstpArrives,
       AlarmGoesOff, sighandler, Signals, base_mask, tstp_mask
  <2>2. armed' \in BOOLEAN
    BY DEF IInv, TypeOK, TstpWindowCloses, AlrmWindowCloses, TstpArrives,
       AlarmGoesOff, sighandler, Rearm
  <2>3. ret' \in 0..3
    BY <1>1 DEF IInv, TypeOK
  <2>4. ctl' \in {"main", "sched", "run", "tstp_window", "alrm_window", "done"}
    BY <1>1 DEF IInv, TypeOK
  <2> QED
    BY <1>0, <2>1, <2>2, <2>3, <2>4 DEF IInv, TypeOK, queues, bank
<1>3. QueuesOK'
  BY <1>0, <1>1 DEF IInv, QueuesOK, Leaving, queues
<1>4. LockOK'
  BY <1>0, <1>1 DEF IInv, LockOK, bank
<1>5. AlarmKept'
  <2>1. ctl \notin {"main", "done"} \/ UNCHANGED ctl
    BY <1>1
  <2>2. ctl' \in {"main", "done"} => UNCHANGED ctl
    BY <1>1
  <2>3. CASE TstpWindowCloses \/ AlrmWindowCloses
    BY <2>1, <2>2, <2>3 DEF IInv, AlarmKept, TstpWindowCloses, AlrmWindowCloses
  <2>4. CASE TstpArrives
    BY <2>1, <2>2, <2>4 DEF IInv, AlarmKept, TstpArrives, SIGTSTP, SIGALRM
  <2>5. CASE AlarmGoesOff
    BY <2>1, <2>2, <2>5 DEF IInv, AlarmKept, AlarmGoesOff
  <2>6. ASSUME NEW sig \in Signals, sighandler(sig) PROVE AlarmKept'
    <3>1. ctl \notin {"main", "done"}
      BY <1>1, <2>1, <2>6 DEF sighandler
    <3>2. armed <=> SIGALRM \notin pending
      BY <3>1 DEF IInv, AlarmKept
    <3>3. CASE sig = SIGALRM
      BY <2>6, <3>3 DEF AlarmKept, sighandler, Rearm
    <3>4. CASE sig # SIGALRM
      BY <2>6, <3>2, <3>4 DEF AlarmKept, sighandler, Rearm
    <3> QED
      BY <3>3, <3>4
  <2> QED
    BY <2>3, <2>4, <2>5, <2>6
<1>6. ResultsOK' /\ LoopOK'
  BY <1>0 DEF IInv, ResultsOK, LoopOK
<1>7. BeforeStart'
  BY <1>0, <1>1 DEF IInv, BeforeStart, queues, bank, TstpWindowCloses,
     AlrmWindowCloses, TstpArrives, AlarmGoesOff, sighandler, SIGTSTP, SIGALRM
<1>8. Resumed'
  BY <1>0, <1>1 DEF IInv, Resumed, queues, bank, TstpWindowCloses,
     AlrmWindowCloses, TstpArrives, AlarmGoesOff, sighandler
<1>9. HolderOK'
  BY <1>0, <1>1 DEF IInv, HolderOK, queues, bank
<1> QED
  BY <1>2, <1>3, <1>4, <1>5, <1>6, <1>7, <1>8, <1>9 DEF IInv

-----------------------------------------------------------------------------
(* The arrays that hold the queues: a has its n members in its first       *)
(* places, without a repetition, and (ready_queue) null pointers after.    *)
Arrays == [Slots -> Ids \cup {Null}]
Members(a, n)  == {a[k] : k \in 0..(n - 1)}
Distinct(a, n) == \A j, k \in 0..(n - 1) : a[j] = a[k] => j = k
NullAfter(a, n) == \A k \in Slots : (k < n) <=> (a[k] # Null)

Put(a, n, p)  == [a EXCEPT ![n] = p]
Take(a, n, c) == IF c < n - 1 THEN [a EXCEPT ![c] = a[n - 1], ![n - 1] = Null]
                              ELSE [a EXCEPT ![n - 1] = Null]
Shift(a, n)   == [k \in Slots |-> IF k <= n - 2 THEN a[k + 1] ELSE a[k]]

(* Writing a new thread behind the last one.                               *)
LEMMA ArrayAppend ==
  ASSUME NEW a \in Arrays, NEW n \in 0..(ThreadMax - 1), NEW p \in Ids,
         Distinct(a, n), p \notin Members(a, n)
  PROVE  /\ Put(a, n, p) \in Arrays /\ Distinct(Put(a, n, p), n + 1)
         /\ Members(Put(a, n, p), n + 1) = Members(a, n) \cup {p}
         /\ \A k \in 0..(n - 1) : Put(a, n, p)[k] = a[k]
         /\ Put(a, n, p)[n] = p
         /\ NullAfter(a, n) => NullAfter(Put(a, n, p), n + 1)
<1> DEFINE b == Put(a, n, p)
<1>0. /\ n \in Nat /\ n \in Slots
      /\ \A k \in 0..n : k \in Slots
      /\ \A k \in 0..n : k \in 0..(n - 1) \/ k = n
      /\ 0..((n + 1) - 1) = 0..n
  BY Constants DEF Slots
<1>1. b \in Arrays
  BY DEF Arrays, Put
<1>2. b[n] = p /\ \A k \in Slots : k # n => b[k] = a[k]
  BY <1>0 DEF Arrays, Put
<1> HIDE DEF b
<1>3. \A k \in 0..(n - 1) : b[k] = a[k]
  BY <1>0, <1>2
<1>4. Members(b, n + 1) = Members(a, n) \cup {p}
  BY <1>0, <1>2, <1>3 DEF Members
<1>5. Distinct(b, n + 1)
  BY <1>0, <1>2, <1>3 DEF Distinct, Members
<1>6. NullAfter(a, n) => NullAfter(b, n + 1)
  BY <1>0, <1>2, Constants DEF NullAfter, Slots
<1> QED
  BY <1>1, <1>2, <1>3, <1>4, <1>5, <1>6 DEF b

(* The last member fills the place of member c, as RemoveRunning does.     *)
LEMMA ArrayRemove ==
  ASSUME NEW a \in Arrays, NEW n \in 1..ThreadMax, NEW c \in 0..(n - 1),
         Distinct(a, n), NullAfter(a, n)
  PROVE  /\ Take(a, n, c) \in Arrays /\ Distinct(Take(a, n, c), n - 1)
         /\ NullAfter(Take(a, n, c), n - 1)
         /\ Members(Take(a, n, c), n - 1) = Members(a, n) \ {a[c]}
<1> DEFINE b == Take(a, n, c)
<1>0. /\ n \in Nat /\ n - 1 \in Slots /\ c \in Slots
      /\ \A k \in 0..(n - 1) : k \in Slots
      /\ \A k \in 0..((n - 1) - 1) : k \in 0..(n - 1) /\ k # n - 1
      /\ \A k \in 0..(n - 1) : k = n - 1 \/ k \in 0..((n - 1) - 1)
  BY Constants DEF Slots
<1>1. b \in Arrays
  BY <1>0 DEF Arrays, Take
<1>2. /\ b[n - 1] = Null
      /\ c < n - 1 => b[c] = a[n - 1]
      /\ \A k \in Slots : k # n - 1 /\ k # c => b[k] = a[k]
  BY <1>0 DEF Arrays, Take
<1> HIDE DEF b
<1>3. NullAfter(b, n - 1)
  <2> SUFFICES ASSUME NEW k \in Slots
               PROVE  (k < n - 1) <=> (b[k] # Null)
    BY DEF NullAfter
  <2>0. k \in Nat
    BY Constants
  <2>1. CASE k = n - 1
    BY <1>0, <1>2, <2>1
  <2>2. CASE k = c /\ k # n - 1
    <3>1. k < n - 1 /\ b[k] = a[n - 1]
      BY <1>2, <2>0, <2>2
    <3>2. a[n - 1] # Null
      BY <1>0 DEF NullAfter
    <3> QED
      BY <3>1, <3>2
  <2>3. CASE k # c /\ k # n - 1
    <3>1. b[k] = a[k]
      BY <1>2, <2>3
    <3> QED
      BY <1>0, <2>0, <2>3, <3>1 DEF NullAfter
  <2> QED
    BY <2>1, <2>2, <2>3
<1>4. Distinct(b, n - 1)
  <2> SUFFICES ASSUME NEW j \in 0..((n - 1) - 1), NEW k \in 0..((n - 1) - 1),
                      b[j] = b[k]
               PROVE  j = k
    BY DEF Distinct
  <2>1. CASE j # c /\ k # c
    BY <1>0, <1>2, <2>1 DEF Distinct
  <2>2. CASE j = c /\ k # c
    <3>0. c < n - 1
      BY <1>0, <2>2
    <3>1. b[j] = a[n - 1]
      BY <1>2, <2>2, <3>0
    <3>2. b[k] = a[k]
      BY <1>0, <1>2, <2>2
    <3>3. k \in 0..(n - 1) /\ n - 1 \in 0..(n - 1) /\ k # n - 1
      BY <1>0
    <3>4. a[n - 1] # a[k]
      BY <3>3 DEF Distinct
    <3> QED
      BY <3>1, <3>2, <3>4
  <2>3. CASE j # c /\ k = c
    <3>0. c < n - 1
      BY <1>0, <2>3
    <3>1. b[k] = a[n - 1]
      BY <1>2, <2>3, <3>0
    <3>2. b[j] = a[j]
      BY <1>0, <1>2, <2>3
    <3>3. j \in 0..(n - 1) /\ n - 1 \in 0..(n - 1) /\ j # n - 1
      BY <1>0
    <3>4. a[n - 1] # a[j]
      BY <3>3 DEF Distinct
    <3> QED
      BY <3>1, <3>2, <3>4
  <2>4. CASE j = c /\ k = c
    BY <2>4
  <2> QED
    BY <2>1, <2>2, <2>3, <2>4
<1>5. Members(b, n - 1) \subseteq Members(a, n) \ {a[c]}
  <2> SUFFICES ASSUME NEW k \in 0..((n - 1) - 1)
               PROVE  b[k] \in Members(a, n) /\ b[k] # a[c]
    BY DEF Members
  <2>1. CASE k = c
    BY <1>0, <1>2, <2>1 DEF Members, Distinct
  <2>2. CASE k # c
    BY <1>0, <1>2, <2>2 DEF Members, Distinct
  <2> QED
    BY <2>1, <2>2
<1>6. Members(a, n) \ {a[c]} \subseteq Members(b, n - 1)
  <2> SUFFICES ASSUME NEW k \in 0..(n - 1), a[k] # a[c]
               PROVE  a[k] \in Members(b, n - 1)
    BY DEF Members
  <2>1. CASE k = n - 1
    <3>1. c < n - 1 /\ c \in 0..((n - 1) - 1)
      BY <1>0, <2>1
    <3> QED
      BY <1>2, <2>1, <3>1 DEF Members
  <2>2. CASE k # n - 1
    BY <1>0, <1>2, <2>2 DEF Members
  <2> QED
    BY <2>1, <2>2
<1> QED
  BY <1>1, <1>3, <1>4, <1>5, <1>6 DEF b

(* Shifting everything forward by one, as the hand-over of the lock does.  *)
LEMMA ArrayShift ==
  ASSUME NEW a \in Arrays, NEW n \in 1..ThreadMax, Distinct(a, n)
  PROVE  /\ Shift(a, n) \in Arrays /\ Distinct(Shift(a, n), n - 1)
         /\ Members(Shift(a, n), n - 1) = Members(a, n) \ {a[0]}
         /\ \A k \in 0..(n - 2) : Shift(a, n)[k] = a[k + 1]
<1> DEFINE b == Shift(a, n)
<1>0. /\ n \in Nat
      /\ \A k \in 0..((n - 1) - 1) : k \in Slots /\ k + 1 \in 0..(n - 1)
      /\ \A k \in 0..(n - 1) : k \in Slots
      /\ \A k \in 0..(n - 1) : k # 0 => k - 1 \in 0..((n - 1) - 1)
      /\ 0 \in 0..(n - 1) /\ 0..(n - 2) = 0..((n - 1) - 1)
  BY Constants DEF Slots
<1>1. b \in Arrays
  BY <1>0, Constants DEF Arrays, Slots, Shift
<1>2. \A k \in 0..((n - 1) - 1) : b[k] = a[k + 1]
  BY <1>0 DEF Shift
<1> HIDE DEF b
<1>3. Distinct(b, n - 1)
  <2> SUFFICES ASSUME NEW j \in 0..((n - 1) - 1), NEW k \in 0..((n - 1) - 1),
                      b[j] = b[k]
               PROVE  j = k
    BY DEF Distinct
  <2>1. j + 1 = k + 1
    BY <1>0, <1>2 DEF Distinct
  <2> QED
    BY <2>1
<1>4. Members(b, n - 1) \subseteq Members(a, n) \ {a[0]}
  <2> SUFFICES ASSUME NEW k \in 0..((n - 1) - 1)
               PROVE  b[k] \in Members(a, n) /\ b[k] # a[0]
    BY DEF Members
  <2>1. b[k] = a[k + 1] /\ k + 1 \in 0..(n - 1) /\ k + 1 # 0
    BY <1>0, <1>2
  <2> QED
    BY <1>0, <2>1 DEF Members, Distinct
<1>5. Members(a, n) \ {a[0]} \subseteq Members(b, n - 1)
  <2> SUFFICES ASSUME NEW k \in 0..(n - 1), a[k] # a[0]
               PROVE  a[k] \in Members(b, n - 1)
    BY DEF Members
  <2>1. k # 0 /\ k - 1 \in 0..((n - 1) - 1) /\ (k - 1) + 1 = k
    BY <1>0
  <2>2. b[k - 1] = a[k]
    BY <1>2, <2>1
  <2> QED
    BY <2>1, <2>2 DEF Members
<1> QED
  BY <1>0, <1>1, <1>2, <1>3, <1>4, <1>5 DEF b

-----------------------------------------------------------------------------
(* init_threads: one call of thread_create.                                *)
LEMMA CreateThreadStep ==
  ASSUME IInv, CreateThread
  PROVE  IInv'
<1>0. /\ ctl = "main" /\ ctl' = "main" /\ made \in Ids /\ made \in Nat
      /\ made' = made + 1 /\ made' \in 0..Len(Kinds)
      /\ rq_size \in Nat /\ rq_size <= made /\ rq_current = 0 /\ wq_size = 0
      /\ lock_owner = -1
      /\ UNCHANGED <<waiting_queue, rq_current, wq_size, bank, arg, ret, signals>>
  BY Constants DEF IInv, TypeOK, BeforeStart, CreateThread, Ids
<1>1. Waiting = {} /\ Waiting' = {}
  BY <1>0 DEF Waiting
<1>2. CASE arg[made] = 0
  <2>1. UNCHANGED <<ready_queue, rq_size, tcb>>
    BY <1>2 DEF CreateThread
  <2>2. Ready' = Ready /\ Running' = Running
    BY <1>0, <2>1 DEF Ready, Running
  <2> QED
    BY <1>0, <1>1, <2>1, <2>2 DEF IInv, TypeOK, QueuesOK, LockOK, AlarmKept,
       ResultsOK, BeforeStart, Resumed, HolderOK, LoopOK, bank, signals, Leaving
<1>3. CASE arg[made] # 0
  <2>0. /\ ready_queue' = [ready_queue EXCEPT ![rq_size] = made]
        /\ rq_size' = rq_size + 1
        /\ tcb' = [tcb EXCEPT ![made].at = "new"]
    BY <1>3 DEF CreateThread
  <2>1. /\ tcb[made].at = "none" /\ made \notin Ready
        /\ tcb'[made].at = "new" /\ tcb'[made].i = 0
        /\ \A p \in Ids : p # made => tcb'[p] = tcb[p]
        /\ tcb' \in [Ids -> [at : Places, i : Nat, x : Nat, y : Nat]]
    <3>1. tcb[made].at = "none" /\ tcb[made].i = 0
      BY <1>0 DEF IInv, BeforeStart, LoopOK
    <3>2. made \notin Ready
      BY <1>0, <3>1 DEF IInv, QueuesOK, Leaving
    <3> QED
      BY <1>0, <2>0, <3>1, <3>2, ZenonT(30) DEF IInv, TypeOK, Places
  <2>2. /\ ready_queue' \in Arrays /\ Distinct(ready_queue', rq_size + 1)
        /\ Ready' = Ready \cup {made}
        /\ NullAfter(ready_queue', rq_size + 1)
    <3>1. /\ ready_queue \in Arrays /\ rq_size \in 0..(ThreadMax - 1)
          /\ Distinct(ready_queue, rq_size) /\ NullAfter(ready_queue, rq_size)
          /\ Ready = Members(ready_queue, rq_size)
      BY <1>0, Constants DEF IInv, TypeOK, QueuesOK, Arrays, Distinct,
         NullAfter, Members, Ready, Ids
    <3>2. Ready' = Members(ready_queue', rq_size + 1)
      BY <2>0 DEF Ready, Members
    <3>3. made \notin Members(ready_queue, rq_size)
      BY <2>1, <3>1
    <3>4. /\ ready_queue' \in Arrays /\ Distinct(ready_queue', rq_size + 1)
          /\ Members(ready_queue', rq_size + 1)
               = Members(ready_queue, rq_size) \cup {made}
          /\ NullAfter(ready_queue, rq_size)
               => NullAfter(ready_queue', rq_size + 1)
      <4>1. ready_queue' = Put(ready_queue, rq_size, made) /\ made \in Ids
        BY <1>0, <2>0 DEF Put
      <4> QED
        BY <3>1, <3>3, <4>1, ArrayAppend
    <3> QED
      BY <3>1, <3>2, <3>4
  <2>3. TypeOK'
    <3>1. rq_size' \in 0..ThreadMax
      BY <1>0, <2>0, Constants DEF Ids
    <3>2. ready_queue' \in [Slots -> Ids \cup {Null}]
      BY <2>2 DEF Arrays
    <3> QED
      BY <1>0, <2>1, <3>1, <3>2 DEF IInv, TypeOK, bank, signals
  <2>4. QueuesOK'
    <3>1. \A p \in Ids : (p \in Ready \cup Waiting)'
                           <=> (tcb'[p].at \notin {"none", "gone"} \/ Leaving(p)')
      BY <1>0, <1>1, <2>1, <2>2 DEF IInv, QueuesOK, Leaving
    <3>2. (\A k \in Slots : (k < rq_size) <=> (ready_queue[k] # Null))'
      BY <2>0, <2>2 DEF NullAfter
    <3>3. (\A j, k \in 0..(rq_size - 1) : ready_queue[j] = ready_queue[k] => j = k)'
      BY <2>0, <2>2 DEF Distinct
    <3> QED
      BY <1>0, <1>1, <2>0, <3>1, <3>2, <3>3 DEF QueuesOK
  <2>5. \A p \in Ids : tcb'[p].at \in {"none", "new"}
    BY <1>0, <2>1 DEF IInv, BeforeStart
  <2>6. LockOK'
    <3>1. Ready' \subseteq Ids
      BY <1>0, <2>2, ReadyInIds DEF IInv
    <3> QED
      BY <1>0, <1>1, <2>5, <3>1 DEF LockOK, bank
  <2>7. ResultsOK' /\ LoopOK'
    <3>1. \A p \in Ids : arg'[p] = arg[p]
      BY <1>0
    <3>2. ResultsOK'
      BY <2>1, <3>1 DEF IInv, ResultsOK
    <3>3. LoopOK'
      <4>1. ASSUME NEW p \in Ids, p # made
            PROVE  tcb'[p] = tcb[p] /\ arg'[p] = arg[p]
        BY <2>1, <3>1, <4>1
      <4>2. arg'[made] # 0 /\ tcb'[made].at = "new" /\ tcb'[made].i = 0
        BY <1>0, <1>3, <2>1
      <4>3. \A p \in Ids : arg'[p] \in IF Kind(p) = "bank" THEN BankArgs
                                                         ELSE CountArgs
        BY <3>1 DEF IInv, LoopOK
      <4> QED
        BY <4>1, <4>2, <4>3 DEF IInv, LoopOK
    <3> QED
      BY <3>2, <3>3
  <2>10. BeforeStart'
    <3>1. \A p \in Ids : p >= made' => tcb'[p].at = "none"
      BY <1>0, <2>1, Constants, SMTT(30) DEF IInv, BeforeStart
    <3> QED
      BY <1>0, <2>0, <2>5, <3>1 DEF IInv, BeforeStart, bank, signals
  <2>8. HolderOK'
    BY <1>0, <1>1, <2>1 DEF IInv, HolderOK, BeforeStart, bank
  <2>9. Resumed' /\ AlarmKept'
    BY <1>0 DEF IInv, Resumed, AlarmKept, signals
  <2> QED
    BY <2>3, <2>4, <2>6, <2>7, <2>8, <2>9, <2>10 DEF IInv
<1> QED
  BY <1>2, <1>3

(* start_threading: counting up to the first null pointer finds exactly    *)
(* the threads that were created.                                          *)
LEMMA CountsTheReady ==
  ASSUME IInv, StartThreading
  PROVE  rq_size' = rq_size
<1> DEFINE First(n) == /\ ready_queue[n] = Null
                       /\ \A k \in 0..(n - 1) : ready_queue[k] # Null
<1>0. rq_size \in Slots
  BY Constants DEF IInv, TypeOK, BeforeStart, StartThreading, Slots
<1>1. First(rq_size)
  BY <1>0, Constants DEF IInv, QueuesOK, Slots
<1>2. ASSUME NEW n \in Slots, First(n)
      PROVE  n = rq_size
  <2>1. n = rq_size \/ n \in 0..(rq_size - 1) \/ rq_size \in 0..(n - 1)
    BY <1>0, Constants DEF Slots
  <2> QED
    BY <1>1, <1>2, <2>1
<1> HIDE DEF First
<1>3. (CHOOSE n \in Slots : First(n)) = rq_size
  BY <1>0, <1>1, <1>2
<1> QED
  BY <1>3 DEF StartThreading, First

(* start_threading gives the processor to the first thread.                *)
LEMMA StartThreadingStep ==
  ASSUME IInv, StartThreading
  PROVE  IInv'
<1>0. /\ ctl = "main" /\ ctl' = IF rq_size > 0 THEN "run" ELSE "done"
      /\ rq_size' = rq_size /\ rq_size \in Nat
      /\ wq_size = 0 /\ wq_size' = 0
      /\ rq_current = 0 /\ rq_current' = 0 /\ ret' = 0 /\ lock_owner = -1
      /\ armed' = TRUE /\ SIGALRM \notin pending
      /\ UNCHANGED <<ready_queue, waiting_queue, bank, arg, tcb, made, mask,
                     pending>>
  <2>1. /\ rq_size \in Nat /\ ctl = "main" /\ wq_size = 0 /\ rq_current = 0
        /\ lock_owner = -1 /\ SIGALRM \notin pending
    BY DEF IInv, TypeOK, BeforeStart, StartThreading
  <2>2. /\ IF rq_size' > 0 THEN rq_current' = 0 /\ ctl' = "run"
                            ELSE ctl' = "done" /\ UNCHANGED rq_current
        /\ armed' = TRUE /\ ret' = 0 /\ wq_size' = 0
        /\ UNCHANGED <<ready_queue, waiting_queue, bank, arg, tcb, made, mask,
                       pending>>
    BY DEF StartThreading
  <2> QED
    BY <2>1, <2>2, CountsTheReady
<1>1. UNCHANGED <<Ready, Waiting, Running>>
  BY <1>0 DEF Ready, Waiting, Running
<1>2. TypeOK'
  BY <1>0 DEF IInv, TypeOK, bank
<1>3. QueuesOK'
  BY <1>0, <1>1 DEF IInv, QueuesOK, Leaving
<1>4. LockOK' /\ AlarmKept'
  BY <1>0, <1>1 DEF IInv, LockOK, AlarmKept, bank
<1>5. ResultsOK' /\ LoopOK' /\ BeforeStart'
  BY <1>0 DEF IInv, ResultsOK, LoopOK, BeforeStart
<1>6. Resumed' /\ HolderOK'
  BY <1>0, <1>1 DEF IInv, Resumed, HolderOK, bank
<1> QED
  BY <1>2, <1>3, <1>4, <1>5, <1>6 DEF IInv

-----------------------------------------------------------------------------
(* What every step of a running thread does apart from the bank and the    *)
(* numbers: the thread, and no other, moves to a place that fits the way   *)
(* it gives the processor up.                                              *)
TCBs == [at : Places, i : Nat, x : Nat, y : Nat]

Moves(p, t) ==
    /\ ctl = "run" /\ Running = p
    /\ tcb' = [tcb EXCEPT ![p] = t]
    /\ UNCHANGED <<queues, arg, made, pending, armed>>
    /\ \/ Yield /\ t.at \notin {"none", "gone"}
       \/ Jump(2) /\ t.at = "locked"
       \/ Jump(3) /\ t.at = "gone"

(* What a thread's own step (Moves) keeps, whatever else it changes.       *)
LEMMA MoveStep ==
  ASSUME IInv, NEW p \in Ids, NEW t \in TCBs, Moves(p, t)
  PROVE  /\ QueuesOK' /\ AlarmKept' /\ BeforeStart'
         /\ lock_owner' \in Ids \cup {-1} /\ balance' \in Int => TypeOK'
         /\ (ctl' = "sched" /\ ret' = 2 => lock_owner' \notin {-1, p}) => Resumed'
         /\ p \in Ready /\ p \notin Waiting
         /\ tcb[p].at \notin {"none", "gone"}
         /\ tcb'[p] = t /\ \A q \in Ids : q # p => tcb'[q] = tcb[q]
         /\ UNCHANGED <<Ready, Waiting, arg, Running, wq_size>>
         /\ ctl' \in {"tstp_window", "sched"}
<1>0. /\ ctl = "run" /\ Running = p /\ rq_current \in 0..(rq_size - 1)
      /\ p \in Ready /\ p \notin Waiting
      /\ tcb[p].at \notin {"none", "gone"}
  BY RunningIsReady DEF Moves
<1>1. UNCHANGED <<Ready, Waiting, arg, Running, wq_size, rq_size>>
  BY DEF Moves, queues, Ready, Waiting, Running
<1>2. \/ ctl' = "tstp_window" /\ t.at \notin {"none", "gone"} /\ mask' = alrm_mask
         /\ UNCHANGED ret
      \/ ctl' = "sched" /\ ret' = 2 /\ t.at = "locked" /\ UNCHANGED mask
      \/ ctl' = "sched" /\ ret' = 3 /\ t.at = "gone" /\ UNCHANGED mask
  BY DEF Moves, Yield, Jump
<1>3. /\ tcb'[p] = t /\ \A q \in Ids : q # p => tcb'[q] = tcb[q]
      /\ tcb' \in [Ids -> TCBs]
  BY DEF Moves, IInv, TypeOK, TCBs
<1>4. QueuesOK'
  <2>1. \A q \in Ids : (q \in Ready \cup Waiting)'
                         <=> (tcb'[q].at \notin {"none", "gone"} \/ Leaving(q)')
    <3> SUFFICES ASSUME NEW q \in Ids
                 PROVE  (q \in Ready \cup Waiting) <=>
                          (tcb'[q].at \notin {"none", "gone"} \/ Leaving(q)')
      BY <1>1
    <3>1. CASE q = p
      BY <1>0, <1>1, <1>2, <1>3, <3>1 DEF Leaving
    <3>2. CASE q # p
      BY <1>0, <1>1, <1>3, <3>2 DEF IInv, QueuesOK, Leaving
    <3> QED
      BY <3>1, <3>2
  <2>2. UNCHANGED queues
    BY DEF Moves
  <2> QED
    BY <1>1, <2>1, <2>2 DEF IInv, QueuesOK, queues
<1>5. AlarmKept' /\ BeforeStart'
  BY <1>0, <1>2 DEF IInv, AlarmKept, BeforeStart, Moves
<1>6. lock_owner' \in Ids \cup {-1} /\ balance' \in Int => TypeOK'
  <2>1. mask' \subseteq Signals /\ ret' \in 0..3
        /\ ctl' \in {"main", "sched", "run", "tstp_window", "alrm_window", "done"}
    BY <1>2 DEF IInv, TypeOK, alrm_mask, Signals
  <2> QED
    BY <1>3, <2>1 DEF IInv, TypeOK, Moves, queues, TCBs
<1>7. (ctl' = "sched" /\ ret' = 2 => lock_owner' \notin {-1, p}) => Resumed'
  BY <1>0, <1>1, <1>2, <1>3 DEF IInv, Resumed
<1> QED
  BY <1>0, <1>1, <1>2, <1>3, <1>4, <1>5, <1>6, <1>7

-----------------------------------------------------------------------------
(* fibonacci and factorial: one iteration of the loop.                     *)
LEMMA FibValues ==
  ASSUME NEW i \in Nat
  PROVE  /\ i <= 2 => Fib[i] = 1
         /\ i > 2 => Fib[i] = Fib[i - 1] + Fib[i - 2]
<1> DEFINE F == Fib
<1>1. F = [n \in Nat |-> IF n <= 2 THEN 1 ELSE F[n - 1] + F[n - 2]]
  BY FibUnfolds
<1> HIDE DEF F
<1>2. F[i] = IF i <= 2 THEN 1 ELSE F[i - 1] + F[i - 2]
  BY <1>1
<1>3. (i <= 2 => F[i] = 1) /\ (i > 2 => F[i] = F[i - 1] + F[i - 2])
  BY <1>2
<1> QED
  BY <1>3 DEF F

(* What a pass of the factorial loop multiplies.                           *)
LEMMA FactValues ==
  ASSUME NEW i \in Nat
  PROVE  /\ i = 0 => Fact[i] = 1
         /\ i > 0 => Fact[i] = i * Fact[i - 1]
<1> DEFINE F == Fact
<1>1. F = [n \in Nat |-> IF n = 0 THEN 1 ELSE n * F[n - 1]]
  BY FactUnfolds
<1> HIDE DEF F
<1>2. F[i] = IF i = 0 THEN 1 ELSE i * F[i - 1]
  BY <1>1
<1>3. (i = 0 => F[i] = 1) /\ (i > 0 => F[i] = i * F[i - 1])
  BY <1>2
<1> QED
  BY <1>3 DEF F

(* A pass of fibonacci's or factorial's loop.                              *)
LEMMA IterateStep ==
  ASSUME IInv, NEW p \in Ids, Iterate(p)
  PROVE  IInv'
<1> DEFINE u == tcb[p]
           r == IF Kind(p) = "fib" THEN FibIteration(u) ELSE FactIteration(u)
           t == IF r.i = arg[p] THEN [r EXCEPT !.at = "gone"] ELSE r
<1>0. /\ ctl = "run" /\ Running = p /\ Kind(p) \in {"fib", "fact"}
      /\ tcb' = [tcb EXCEPT ![p] = t]
      /\ IF r.i = arg[p] THEN Exit ELSE Yield
      /\ UNCHANGED <<queues, bank, arg, made, pending, armed>>
  BY DEF Iterate
<1>1. u \in TCBs /\ u.i \in Nat /\ u.x \in Nat /\ u.y \in Nat
  BY DEF IInv, TypeOK, TCBs
<1>2. u.at \in {"new", "loop"}
  BY <1>0, <1>1, RunningIsReady DEF IInv, HolderOK, TCBs, Places
<1>3. /\ arg[p] \in Nat /\ u.i < arg[p]
      /\ u.at = "new" => u.i = 0
      /\ u.at = "loop" => u.i > 0
  BY <1>0, <1>1, <1>2 DEF IInv, LoopOK, ThreadsAssumption
<1>4. /\ Kind(p) = "fib" /\ u.i > 0 => u.y = Fib[u.i]
      /\ Kind(p) = "fib" /\ u.i > 1 => u.x = Fib[u.i - 1]
      /\ Kind(p) = "fact" /\ u.i > 0 => u.x = Fact[u.i]
  BY DEF IInv, LoopOK, ResultsOK
<1>5. /\ r \in TCBs /\ r.at = "loop" /\ r.i = u.i + 1
      /\ Kind(p) = "fib" => /\ r.y = Fib[r.i]
                            /\ r.i > 1 => r.x = Fib[r.i - 1]
      /\ Kind(p) = "fact" => r.x = Fact[r.i]
  <2> HIDE DEF u
  <2>1. CASE Kind(p) = "fib"
    <3>1. /\ r.at = "loop" /\ r.i = u.i + 1
          /\ r.x = IF r.i <= 2 THEN 1 ELSE u.y
          /\ r.y = IF r.i <= 2 THEN 1 ELSE u.x + u.y
          /\ r = [at |-> r.at, i |-> r.i, x |-> r.x, y |-> r.y]
      BY <1>1, <1>2, <1>3, <2>1 DEF FibIteration
    <3> HIDE DEF r
    <3>2. r \in TCBs
      BY <1>1, <3>1 DEF TCBs, Places
    <3>0. u.i + 1 \in Nat
      BY <1>1
    <3>3. CASE u.i + 1 <= 2
      <4>1. Fib[u.i + 1] = 1
        BY <3>0, <3>3, FibValues
      <4>2. r.i > 1 => Fib[r.i - 1] = 1
        <5>1. SUFFICES ASSUME r.i > 1 PROVE Fib[r.i - 1] = 1
          OBVIOUS
        <5>2. r.i - 1 = 1 /\ 1 \in Nat
          BY <1>1, <3>1, <3>3, <5>1
        <5>3. Fib[1] = 1
          BY FibValues
        <5> QED
          BY <5>2, <5>3
      <4>3. r.x = 1 /\ r.y = 1
        BY <3>1, <3>3
      <4> QED
        BY <2>1, <3>1, <3>2, <4>1, <4>2, <4>3
    <3>4. CASE u.i + 1 > 2
      <4>1. /\ u.y = Fib[u.i] /\ u.x = Fib[u.i - 1]
            /\ Fib[u.i + 1] = Fib[(u.i + 1) - 1] + Fib[(u.i + 1) - 2]
        <5>1. u.i > 0 /\ u.i > 1
          BY <1>1, <3>4
        <5> QED
          BY <1>4, <2>1, <3>0, <3>4, <5>1, FibValues
      <4>2. (u.i + 1) - 1 = u.i /\ (u.i + 1) - 2 = u.i - 1
        BY <1>1
      <4>3. r.x = u.y /\ r.y = u.x + u.y
        BY <1>1, <3>1, <3>4
      <4>4. r.y = Fib[r.i]
        BY <1>1, <3>1, <4>1, <4>2, <4>3
      <4> QED
        BY <2>1, <3>1, <3>2, <4>1, <4>2, <4>3, <4>4
    <3> QED
      BY <1>1, <3>3, <3>4
  <2>2. CASE Kind(p) # "fib"
    <3>1. /\ r.at = "loop" /\ r.i = u.i + 1
          /\ r.x = IF u.at = "new" THEN 1 ELSE u.x * (u.i + 1)
          /\ r.y = u.y
          /\ r = [at |-> r.at, i |-> r.i, x |-> r.x, y |-> r.y]
      BY <1>1, <1>2, <1>3, <2>2 DEF FactIteration
    <3> HIDE DEF r
    <3>2. u.x * (u.i + 1) \in Nat
      BY <1>1
    <3>3. r \in TCBs
      BY <1>1, <3>1, <3>2 DEF TCBs, Places
    <3>4. Fact[u.i + 1] = (u.i + 1) * Fact[u.i]
      <4>1. u.i + 1 \in Nat /\ u.i + 1 > 0 /\ (u.i + 1) - 1 = u.i
        BY <1>1
      <4> QED
        BY <4>1, FactValues
    <3>5. CASE u.at = "new"
      <4>1. u.i = 0 /\ r.x = 1
        BY <1>3, <3>1, <3>5
      <4>2. Fact[0] = 1 /\ (0 + 1) * 1 = 1
        BY FactValues
      <4>3. r.x = Fact[r.i]
        BY <3>1, <3>4, <4>1, <4>2
      <4> QED
        BY <2>2, <3>1, <3>3, <4>3
    <3>6. CASE u.at = "loop"
      <4>1. u.x = Fact[u.i]
        BY <1>0, <1>3, <1>4, <2>2, <3>6
      <4>2. u.x * (u.i + 1) = (u.i + 1) * u.x
        BY <1>1
      <4>3. r.x = Fact[r.i]
        BY <3>1, <3>4, <3>6, <4>1, <4>2
      <4> QED
        BY <2>2, <3>1, <3>3, <4>3
    <3> QED
      BY <1>2, <3>5, <3>6
  <2> QED
    BY <2>1, <2>2
<1>6. /\ t \in TCBs /\ t.i = r.i /\ t.x = r.x /\ t.y = r.y
      /\ t.at = IF r.i = arg[p] THEN "gone" ELSE "loop"
  <2> HIDE DEF r
  <2> QED
    BY <1>5 DEF TCBs, Places
<1> HIDE DEF r, t
<1>7. Moves(p, t)
  BY <1>0, <1>6 DEF Moves, Exit
<1>8. /\ UNCHANGED <<lock_owner, balance>>
      /\ ctl' = "sched" => ret' = 3
  BY <1>0 DEF bank, Exit, Jump, Yield
<1>9. /\ QueuesOK' /\ AlarmKept' /\ BeforeStart' /\ Resumed' /\ TypeOK'
      /\ p \notin Waiting /\ ctl' \in {"tstp_window", "sched"}
      /\ tcb'[p] = t /\ \A q \in Ids : q # p => tcb'[q] = tcb[q]
      /\ UNCHANGED <<Ready, Waiting, arg, Running, wq_size>>
  <2>1. lock_owner' \in Ids \cup {-1} /\ balance' \in Int
    BY <1>8 DEF IInv, TypeOK
  <2> QED
    BY <1>6, <1>7, <1>8, <2>1, MoveStep
<1>10. /\ lock_owner # p
       /\ \A q \in Waiting : q # p
       /\ Ready \subseteq Ids /\ Waiting \subseteq Ids
  <2>1. lock_owner # p
    BY <1>2, Constants DEF IInv, HolderOK
  <2>2. Ready \subseteq Ids /\ Waiting \subseteq Ids
    BY ReadyInIds DEF IInv, HolderOK
  <2> QED
    BY <1>9, <2>1, <2>2
<1>11. LockOK'
  BY <1>0, <1>6, <1>8, <1>9, <1>10 DEF IInv, LockOK
<1>12. ResultsOK'
  <2> SUFFICES ASSUME NEW q \in Ids
               PROVE  tcb'[q].i > 0 =>
                        /\ tcb'[q].i <= arg[q]
                        /\ Kind(q) = "fib" => tcb'[q].y = Fib[tcb'[q].i]
                        /\ Kind(q) = "fact" => tcb'[q].x = Fact[tcb'[q].i]
                        /\ tcb'[q].at = "gone" => tcb'[q].i = arg[q]
    BY <1>9 DEF ResultsOK
  <2>1. CASE q = p
    BY <1>1, <1>3, <1>5, <1>6, <1>9, <2>1
  <2>2. CASE q # p
    BY <1>9, <2>2 DEF IInv, ResultsOK
  <2> QED
    BY <2>1, <2>2
<1>13. LoopOK'
  <2> SUFFICES ASSUME NEW q \in Ids
               PROVE  /\ arg[q] \in IF Kind(q) = "bank" THEN BankArgs ELSE CountArgs
                      /\ tcb'[q].at = "new" => tcb'[q].i = 0 /\ arg[q] # 0
                      /\ tcb'[q].at = "none" \/ Kind(q) = "bank" => tcb'[q].i = 0
                      /\ tcb'[q].at = "loop" => tcb'[q].i > 0 /\ tcb'[q].i < arg[q]
                      /\ tcb'[q].i > 1 /\ Kind(q) = "fib"
                            => tcb'[q].x = Fib[tcb'[q].i - 1]
    BY <1>9 DEF LoopOK
  <2>1. CASE q = p
    BY <1>0, <1>1, <1>3, <1>5, <1>6, <1>9, <2>1 DEF IInv, LoopOK
  <2>2. CASE q # p
    BY <1>9, <2>2 DEF IInv, LoopOK
  <2> QED
    BY <2>1, <2>2
<1>14. HolderOK'
  <2>1. ASSUME NEW q \in Ids, tcb'[q].at \in {"locked", "step2", "step3"}
        PROVE  Kind(q) = "bank"
    BY <1>6, <1>9, <2>1 DEF IInv, HolderOK
  <2>2. lock_owner # -1 => tcb'[lock_owner].at \in {"locked", "step2", "step3"}
    BY <1>9, <1>10 DEF IInv, HolderOK, TypeOK
  <2> QED
    BY <1>0, <1>8, <1>9, <2>1, <2>2 DEF IInv, HolderOK
<1> QED
  BY <1>9, <1>11, <1>12, <1>13, <1>14 DEF IInv

-----------------------------------------------------------------------------
(* bank_operation: each of its five steps. A bank thread has no number.    *)
LEMMA BankMoves ==
  ASSUME IInv, NEW p \in Ids, BankStep(p)
  PROVE  \E t \in TCBs :
            /\ Moves(p, t)
            /\ t.i = 0
            /\ \/ BankLock(p) /\ t.at = "step2"
               \/ BankBlock(p) /\ t.at = "locked"
               \/ BankGranted(p) /\ t.at = "step2"
               \/ BankUpdate(p) /\ t.at = "step3"
               \/ BankRelease(p) /\ t.at = "gone"
<1>1. /\ tcb[p] \in TCBs /\ tcb[p].i = 0
      /\ ctl = "run" /\ Running = p
      /\ UNCHANGED <<queues, arg, made, pending, armed>>
  BY DEF IInv, TypeOK, TCBs, LoopOK, BankStep
<1>2. ASSUME NEW a \in {"locked", "step2", "step3", "gone"}, GoOn(p, a)
      PROVE  \E t \in TCBs : /\ tcb' = [tcb EXCEPT ![p] = t]
                             /\ t.at = a /\ t.i = 0
  <2> DEFINE t == [tcb[p] EXCEPT !.at = a]
  <2>1. t \in TCBs /\ t.at = a /\ t.i = 0
    BY <1>1 DEF TCBs, Places
  <2>2. tcb' = [tcb EXCEPT ![p] = t]
    BY <1>2 DEF GoOn
  <2> QED
    BY <2>1, <2>2
<1>3. CASE BankLock(p) \/ BankGranted(p)
  <2>1. GoOn(p, "step2") /\ Yield
    BY <1>3 DEF BankLock, BankGranted
  <2> QED
    BY <1>1, <1>2, <1>3, <2>1 DEF Moves
<1>4. CASE BankBlock(p)
  <2>1. GoOn(p, "locked") /\ Jump(2)
    BY <1>4 DEF BankBlock
  <2> QED
    BY <1>1, <1>2, <1>4, <2>1 DEF Moves
<1>5. CASE BankUpdate(p)
  <2>1. GoOn(p, "step3") /\ Yield
    BY <1>5 DEF BankUpdate
  <2> QED
    BY <1>1, <1>2, <1>5, <2>1 DEF Moves
<1>6. CASE BankRelease(p)
  <2>1. GoOn(p, "gone") /\ Jump(3)
    BY <1>6 DEF BankRelease, Exit
  <2> QED
    BY <1>1, <1>2, <1>6, <2>1 DEF Moves
<1> QED
  BY <1>3, <1>4, <1>5, <1>6 DEF BankStep

(* Who may own the lock at each of the steps, and what becomes of it.      *)
LEMMA BankOwner ==
  ASSUME IInv, NEW p \in Ids, BankStep(p)
  PROVE  /\ balance' >= 0 /\ balance' \in Int
         /\ lock_owner' \in Ids \cup {-1}
         /\ BankLock(p) => lock_owner = -1 /\ lock_owner' = p
         /\ BankBlock(p) => lock_owner \notin {-1, p} /\ lock_owner' = lock_owner
         /\ BankGranted(p) \/ BankUpdate(p)
               => lock_owner = p /\ lock_owner' = p
         /\ BankRelease(p) => lock_owner = p /\ lock_owner' = -1
<1>1. ctl = "run" /\ Running = p /\ p \in Ready /\ p # -1
  BY RunningIsReady, Constants DEF BankStep
<1>2. /\ lock_owner \in Ids \cup {-1} /\ balance \in Int /\ balance >= 0
      /\ arg[p] \in Int
  BY Constants DEF IInv, TypeOK, HolderOK
<1>3. CASE BankLock(p)
  BY <1>1, <1>2, <1>3 DEF BankLock, BankBlock, BankGranted, BankUpdate,
     BankRelease, GoOn, Yield
<1>4. CASE BankBlock(p)
  <2>1. lock_owner # p
    BY <1>1, <1>4 DEF IInv, HolderOK, BankBlock
  <2> QED
    BY <1>1, <1>2, <1>4, <2>1 DEF BankLock, BankBlock, BankGranted,
       BankUpdate, BankRelease, bank, Yield, Jump
<1>5. CASE BankGranted(p)
  <2>1. lock_owner = p
    BY <1>1, <1>5 DEF IInv, LockOK, BankGranted
  <2> QED
    BY <1>1, <1>2, <1>5, <2>1 DEF BankLock, BankBlock, BankGranted,
       BankUpdate, BankRelease, bank
<1>6. CASE BankUpdate(p)
  <2>1. lock_owner = p /\ lock_owner' = p
    BY <1>1, <1>6 DEF IInv, LockOK, BankUpdate
  <2>2. balance' \in Int /\ balance' >= 0
    BY <1>2, <1>6 DEF BankUpdate, Allowed
  <2> QED
    BY <1>1, <1>6, <2>1, <2>2 DEF BankLock, BankBlock, BankGranted,
       BankUpdate, BankRelease
<1>7. CASE BankRelease(p)
  <2>1. lock_owner = p /\ lock_owner' = -1 /\ balance' = balance
    BY <1>1, <1>7 DEF IInv, LockOK, BankRelease, Unlock
  <2> QED
    BY <1>1, <1>2, <1>7, <2>1 DEF BankLock, BankBlock, BankGranted,
       BankUpdate, BankRelease
<1> QED
  BY <1>3, <1>4, <1>5, <1>6, <1>7 DEF BankStep

(* A bank thread's step keeps the invariant.                               *)
LEMMA BankStepKeeps ==
  ASSUME IInv, NEW p \in Ids, BankStep(p)
  PROVE  IInv'
<1>1. PICK t \in TCBs :
         /\ Moves(p, t)
         /\ t.i = 0
         /\ \/ BankLock(p) /\ t.at = "step2"
            \/ BankBlock(p) /\ t.at = "locked"
            \/ BankGranted(p) /\ t.at = "step2"
            \/ BankUpdate(p) /\ t.at = "step3"
            \/ BankRelease(p) /\ t.at = "gone"
  BY BankMoves
<1>2. /\ balance' >= 0 /\ balance' \in Int /\ lock_owner' \in Ids \cup {-1}
      /\ \/ t.at = "step2" /\ lock_owner \in {-1, p} /\ lock_owner' = p
         \/ t.at = "locked" /\ lock_owner \notin {-1, p}
            /\ lock_owner' = lock_owner /\ ctl' = "sched" /\ ret' = 2
         \/ t.at = "step3" /\ lock_owner = p /\ lock_owner' = p
         \/ t.at = "gone" /\ lock_owner = p /\ lock_owner' = -1
            /\ ctl' = "sched"
  BY <1>1, BankOwner DEF BankBlock, BankRelease, Jump, Exit
<1>3. ctl' = "sched" /\ ret' = 2 => lock_owner' \notin {-1, p}
  BY <1>1, <1>2 DEF Moves, Yield, Jump
<1>4. /\ QueuesOK' /\ AlarmKept' /\ BeforeStart' /\ Resumed' /\ TypeOK'
      /\ p \in Ready /\ p \notin Waiting /\ ctl' \in {"tstp_window", "sched"}
      /\ tcb'[p] = t /\ \A q \in Ids : q # p => tcb'[q] = tcb[q]
      /\ UNCHANGED <<Ready, Waiting, arg, Running, wq_size>>
      /\ ctl = "run" /\ Running = p /\ Kind(p) = "bank"
  BY <1>1, <1>2, <1>3, MoveStep DEF BankStep
<1>5. /\ \A q \in Waiting : q # p
      /\ Ready \subseteq Ids /\ Waiting \subseteq Ids /\ p # -1
  BY <1>4, ReadyInIds, Constants DEF IInv, HolderOK
<1>6. LockOK'
  <2>1. ASSUME NEW q \in Ids, tcb'[q].at \in {"step2", "step3"}
        PROVE  lock_owner' = q
    <3>1. CASE q = p
      BY <1>2, <1>4, <2>1, <3>1
    <3>2. CASE q # p
      <4>1. lock_owner = q /\ q # -1
        BY <1>4, <2>1, <3>2, Constants DEF IInv, LockOK
      <4> QED
        BY <1>2, <3>2, <4>1
    <3> QED
      BY <3>1, <3>2
  <2>2. ASSUME NEW q \in Ready, tcb'[q].at = "locked"
        PROVE  lock_owner' = q \/ (ctl' = "sched" /\ ret' = 2 /\ Running' = q)
    <3>1. CASE q = p
      BY <1>2, <1>4, <2>2, <3>1
    <3>2. CASE q # p
      <4>1. lock_owner = q
        BY <1>4, <1>5, <2>2, <3>2 DEF IInv, LockOK
      <4> QED
        BY <1>2, <1>5, <3>2, <4>1, Constants
    <3> QED
      BY <3>1, <3>2
  <2>3. lock_owner' # -1 => lock_owner' \in Ready
    BY <1>2, <1>4 DEF IInv, LockOK
  <2>4. \A q \in Waiting : tcb'[q].at = "locked"
    BY <1>4, <1>5 DEF IInv, LockOK
  <2> QED
    BY <1>4, <2>1, <2>2, <2>3, <2>4 DEF LockOK
<1>7. ResultsOK' /\ LoopOK'
  <2>1. ResultsOK'
    BY <1>1, <1>4 DEF IInv, ResultsOK
  <2>2. ASSUME NEW q \in Ids
        PROVE  /\ arg[q] \in IF Kind(q) = "bank" THEN BankArgs ELSE CountArgs
               /\ tcb'[q].at = "new" => tcb'[q].i = 0 /\ arg[q] # 0
               /\ tcb'[q].at = "none" \/ Kind(q) = "bank" => tcb'[q].i = 0
               /\ tcb'[q].at = "loop" => tcb'[q].i > 0 /\ tcb'[q].i < arg[q]
               /\ tcb'[q].i > 1 /\ Kind(q) = "fib"
                     => tcb'[q].x = Fib[tcb'[q].i - 1]
    <3>1. CASE q = p
      BY <1>1, <1>2, <1>4, <3>1 DEF IInv, LoopOK
    <3>2. CASE q # p
      BY <1>4, <3>2 DEF IInv, LoopOK
    <3> QED
      BY <3>1, <3>2
  <2> QED
    BY <1>4, <2>1, <2>2 DEF LoopOK
<1>8. HolderOK'
  <2>1. ASSUME NEW q \in Ids, tcb'[q].at \in {"locked", "step2", "step3"}
        PROVE  Kind(q) = "bank"
    BY <1>4, <2>1 DEF IInv, HolderOK
  <2>2. lock_owner' # -1 =>
           tcb'[lock_owner'].at \in {"locked", "step2", "step3"}
    BY <1>2, <1>4 DEF IInv, HolderOK
  <2>3. lock_owner' = -1 => ctl' = "sched"
    BY <1>2, <1>5
  <2> QED
    BY <1>2, <1>4, <1>5, <2>1, <2>2, <2>3 DEF HolderOK
<1> QED
  BY <1>4, <1>6, <1>7, <1>8 DEF IInv

-----------------------------------------------------------------------------
(* scheduler: the queues once the lock was handed over, if it was.         *)
LEMMA HandoverFacts ==
  ASSUME IInv, ctl = "sched"
  PROVE  LET a == AfterHandover
             R == Members(a.rq, a.n)
             W == Members(a.wq, a.m)
         IN  /\ a.rq \in Arrays /\ a.n \in 1..ThreadMax
             /\ a.wq \in Arrays /\ a.m \in 0..ThreadMax
             /\ Distinct(a.rq, a.n) /\ NullAfter(a.rq, a.n) /\ Distinct(a.wq, a.m)
             /\ R \cup W = Ready \cup Waiting /\ R \cap W = {}
             /\ W \subseteq Waiting
             /\ rq_size <= a.n /\ a.rq[rq_current] = Running
             /\ IF Handover
                THEN /\ a.owner = waiting_queue[0] /\ a.owner \in Waiting
                     /\ a.owner \in R /\ a.m = wq_size - 1
                     /\ R = Ready \cup {a.owner} /\ a.n = rq_size + 1
                     /\ \A k \in 0..(a.m - 1) : a.wq[k] = waiting_queue[k + 1]
                ELSE /\ a.owner = lock_owner /\ a.wq = waiting_queue
                     /\ a.m = wq_size /\ R = Ready /\ W = Waiting
<1> DEFINE a == AfterHandover
<1>0. /\ rq_current \in 0..(rq_size - 1) /\ Running \in Ready
      /\ rq_size \in Nat /\ wq_size \in Nat /\ rq_size > 0
      /\ rq_size + wq_size <= ThreadMax /\ ThreadMax \in Nat
      /\ ready_queue \in Arrays /\ waiting_queue \in Arrays
      /\ Distinct(ready_queue, rq_size) /\ NullAfter(ready_queue, rq_size)
      /\ Distinct(waiting_queue, wq_size)
      /\ Ready = Members(ready_queue, rq_size)
      /\ Waiting = Members(waiting_queue, wq_size)
      /\ Ready \cap Waiting = {} /\ Waiting \subseteq Ids
  <2>1. TypeOK /\ QueuesOK /\ Waiting \subseteq Ids
    BY DEF IInv, HolderOK
  <2>2. rq_size \in Nat /\ wq_size \in Nat /\ rq_size + wq_size <= ThreadMax
    BY <2>1, Room, Constants DEF TypeOK
  <2>3. rq_current \in 0..(rq_size - 1) /\ Running \in Ready /\ rq_size > 0
    BY RunningIsReady DEF IInv, Resumed
  <2>4. Ready = Members(ready_queue, rq_size) /\ Waiting = Members(waiting_queue, wq_size)
    BY DEF Ready, Waiting, Members
  <2> QED
    BY <2>1, <2>2, <2>3, <2>4, Constants DEF TypeOK, QueuesOK, Arrays, Distinct,
       NullAfter
<1>1. CASE ~Handover
  <2>1. /\ a.owner = lock_owner /\ a.rq = ready_queue /\ a.n = rq_size
        /\ a.wq = waiting_queue /\ a.m = wq_size
    BY <1>1 DEF AfterHandover
  <2>2. a.n \in 1..ThreadMax /\ a.m \in 0..ThreadMax /\ rq_size <= a.n
    BY <1>0, <2>1
  <2> HIDE DEF a
  <2> QED
    BY <1>0, <1>1, <2>1, <2>2 DEF a, Running
<1>2. CASE Handover
  <2> DEFINE first == waiting_queue[0]
  <2>1. /\ a.owner = first
        /\ a.rq = Put(ready_queue, rq_size, first) /\ a.n = rq_size + 1
        /\ a.wq = Shift(waiting_queue, wq_size) /\ a.m = wq_size - 1
    BY <1>2 DEF AfterHandover, Put, Shift
  <2>2. /\ wq_size \in 1..ThreadMax /\ rq_size \in 0..(ThreadMax - 1)
        /\ a.n \in 1..ThreadMax /\ a.m \in 0..ThreadMax
    BY <1>0, <1>2, <2>1 DEF Handover
  <2>3. first \in Waiting /\ first \in Ids /\ first \notin Ready
    <3>1. 0 \in 0..(wq_size - 1)
      BY <2>2
    <3>2. first \in Waiting
      BY <1>0, <3>1 DEF Members
    <3> QED
      BY <1>0, <3>2
  <2> HIDE DEF a, first
  <2>4. /\ a.rq \in Arrays /\ Distinct(a.rq, a.n) /\ NullAfter(a.rq, a.n)
        /\ Members(a.rq, a.n) = Ready \cup {first}
        /\ a.rq[rq_current] = ready_queue[rq_current]
    BY <1>0, <2>1, <2>2, <2>3, ArrayAppend
  <2>5. /\ a.wq \in Arrays /\ Distinct(a.wq, a.m)
        /\ Members(a.wq, a.m) = Waiting \ {first}
        /\ \A k \in 0..(wq_size - 2) : a.wq[k] = waiting_queue[k + 1]
    <3>1. /\ Shift(waiting_queue, wq_size) \in Arrays
          /\ Distinct(Shift(waiting_queue, wq_size), wq_size - 1)
          /\ Members(Shift(waiting_queue, wq_size), wq_size - 1)
               = Members(waiting_queue, wq_size) \ {waiting_queue[0]}
          /\ \A k \in 0..(wq_size - 2) :
                Shift(waiting_queue, wq_size)[k] = waiting_queue[k + 1]
      BY <1>0, <2>2, ArrayShift
    <3> QED
      BY <1>0, <2>1, <3>1 DEF first
  <2>6. 0..(wq_size - 2) = 0..(a.m - 1)
    BY <1>0, <2>1
  <2> QED
    BY <1>0, <1>2, <2>1, <2>2, <2>3, <2>4, <2>5, <2>6 DEF a, first, Running
<1> QED
  BY <1>1, <1>2

(* Who owns the lock then.                                                 *)
LEMMA HandoverOwner ==
  ASSUME IInv, ctl = "sched"
  PROVE  LET a == AfterHandover
             R == Members(a.rq, a.n)
         IN  /\ a.owner \in Ids \cup {-1}
             /\ a.owner = -1 => a.m = 0
             /\ a.owner # -1 =>
                   /\ a.owner \in R
                   /\ tcb[a.owner].at \in {"locked", "step2", "step3"}
             /\ \A p \in Ids : tcb[p].at \in {"step2", "step3"} => a.owner = p
             /\ \A p \in R : tcb[p].at = "locked" =>
                                a.owner = p \/ (ret = 2 /\ Running = p)
             /\ ret = 2 => a.owner # -1 /\ ~Handover
             /\ ret \in {2, 3} => a.owner # Running
<1> DEFINE a == AfterHandover
           R == Members(a.rq, a.n)
<1>0. /\ lock_owner \in Ids \cup {-1} /\ wq_size \in Nat
      /\ Running \in Ready /\ Running \notin Waiting
      /\ Waiting \subseteq Ids /\ -1 \notin Ids /\ Ready \subseteq Ids
      /\ \A p \in Waiting : tcb[p].at = "locked"
      /\ \A p \in Ids : tcb[p].at \in {"step2", "step3"} => lock_owner = p
      /\ \A p \in Ready : tcb[p].at = "locked" =>
                             lock_owner = p \/ (ret = 2 /\ Running = p)
      /\ lock_owner # -1 => /\ lock_owner \in Ready
                            /\ tcb[lock_owner].at \in {"locked", "step2", "step3"}
      /\ ret = 2 => lock_owner \notin {-1, Running}
      /\ ret = 3 => tcb[Running].at = "gone"
  <2>1. Running \in Ready /\ Running \notin Waiting
    BY RunningIsReady
  <2>2. Ready \subseteq Ids /\ Waiting \subseteq Ids /\ -1 \notin Ids
    BY ReadyInIds, Constants DEF IInv, HolderOK
  <2>3. /\ \A p \in Waiting : tcb[p].at = "locked"
        /\ \A p \in Ids : tcb[p].at \in {"step2", "step3"} => lock_owner = p
        /\ \A p \in Ready : tcb[p].at = "locked" =>
                               lock_owner = p \/ (ret = 2 /\ Running = p)
    BY DEF IInv, LockOK
  <2>4. lock_owner # -1 => /\ lock_owner \in Ready
                           /\ tcb[lock_owner].at \in {"locked", "step2", "step3"}
    BY DEF IInv, LockOK, HolderOK
  <2>5. /\ ret = 2 => lock_owner \notin {-1, Running}
        /\ ret = 3 => tcb[Running].at = "gone"
    BY DEF IInv, Resumed
  <2>6. lock_owner \in Ids \cup {-1} /\ wq_size \in Nat
    BY Constants DEF IInv, TypeOK
  <2> QED
    BY <2>1, <2>2, <2>3, <2>4, <2>5, <2>6
<1>1. CASE Handover
  <2>1. /\ a.owner \in Waiting /\ a.owner \in R /\ R = Ready \cup {a.owner}
    BY <1>1, HandoverFacts
  <2>2. lock_owner = -1
    BY <1>1 DEF Handover
  <2> HIDE DEF a, R
  <2>3. \A p \in R : tcb[p].at = "locked" =>
                        a.owner = p \/ (ret = 2 /\ Running = p)
    BY <1>0, <2>1, <2>2
  <2> QED
    BY <1>0, <1>1, <2>1, <2>2, <2>3 DEF a, R
<1>2. CASE ~Handover
  <2>1. /\ a.owner = lock_owner /\ R = Ready /\ a.m = wq_size
    BY <1>2, HandoverFacts
  <2>2. lock_owner = -1 => wq_size = 0
    BY <1>0, <1>2 DEF Handover
  <2> HIDE DEF a, R
  <2> QED
    BY <1>0, <1>2, <2>1, <2>2 DEF a, R
<1> QED
  BY <1>1, <1>2

(* Where the running thread goes: nowhere, to the waiting queue, or out.   *)
LEMMA ScheduleQueues ==
  ASSUME IInv, Schedule
  PROVE  LET a == AfterHandover
             R == Members(a.rq, a.n)
             W == Members(a.wq, a.m)
         IN  /\ ready_queue' \in Arrays /\ waiting_queue' \in Arrays
             /\ rq_size' \in 0..ThreadMax /\ wq_size' \in 0..ThreadMax
             /\ rq_current' \in Nat
             /\ rq_size' > 0 => rq_current' < rq_size'
             /\ rq_size' = 0 => rq_current' = 0
             /\ Distinct(ready_queue', rq_size') /\ NullAfter(ready_queue', rq_size')
             /\ Distinct(waiting_queue', wq_size')
             /\ Ready' = Members(ready_queue', rq_size')
             /\ Waiting' = Members(waiting_queue', wq_size')
             /\ Ready' = IF ret \in {2, 3} THEN R \ {Running} ELSE R
             /\ Waiting' = IF ret = 2 THEN W \cup {Running} ELSE W
             /\ ret = 2 => /\ wq_size' = wq_size + 1
                           /\ \A k \in 0..(wq_size - 1) :
                                 waiting_queue'[k] = waiting_queue[k]
                           /\ waiting_queue'[wq_size] = Running
             /\ ret # 2 => waiting_queue' = a.wq /\ wq_size' = a.m
<1> DEFINE a == AfterHandover
           R == Members(a.rq, a.n)
           W == Members(a.wq, a.m)
<1>0. ctl = "sched"
  BY DEF Schedule
<1>1. /\ a.rq \in Arrays /\ a.n \in 1..ThreadMax
      /\ a.wq \in Arrays /\ a.m \in 0..ThreadMax
      /\ Distinct(a.rq, a.n) /\ NullAfter(a.rq, a.n) /\ Distinct(a.wq, a.m)
      /\ W \subseteq Waiting
      /\ rq_size <= a.n /\ a.rq[rq_current] = Running
      /\ ~Handover => a.wq = waiting_queue /\ a.m = wq_size
  BY <1>0, HandoverFacts
<1>2. /\ rq_current \in 0..(rq_size - 1) /\ rq_current \in Nat
      /\ Running \in Ids /\ Running \notin Waiting
      /\ rq_size \in Nat /\ wq_size \in Nat
  BY <1>0, RunningIsReady DEF IInv, TypeOK
<1>3. rq_current \in 0..(a.n - 1) /\ a.n \in Nat /\ ThreadMax \in Nat
  BY <1>1, <1>2, Constants
<1>4. /\ Ready' = Members(ready_queue', rq_size')
      /\ Waiting' = Members(waiting_queue', wq_size')
  BY DEF Ready, Waiting, Members
<1>5. /\ IF ret = 2
         THEN /\ waiting_queue' = Put(a.wq, a.m, Running)
              /\ wq_size' = a.m + 1
         ELSE waiting_queue' = a.wq /\ wq_size' = a.m
      /\ IF ret \in {2, 3}
         THEN /\ ready_queue' = Take(a.rq, a.n, rq_current)
              /\ rq_current' = IF rq_current < a.n - 1 THEN rq_current ELSE 0
              /\ rq_size' = a.n - 1
         ELSE /\ ready_queue' = a.rq /\ rq_size' = a.n
              /\ rq_current' = (rq_current + 1) % a.n
  BY <1>1, <1>3 DEF Schedule, RemoveRunning, NextIndex, Put, Take
<1> HIDE DEF a
<1>6. /\ ready_queue' \in Arrays /\ rq_size' \in 0..ThreadMax
      /\ rq_current' \in Nat
      /\ rq_size' > 0 => rq_current' < rq_size'
      /\ rq_size' = 0 => rq_current' = 0
      /\ Distinct(ready_queue', rq_size') /\ NullAfter(ready_queue', rq_size')
      /\ Ready' = IF ret \in {2, 3} THEN R \ {Running} ELSE R
  <2>1. CASE ret \in {2, 3}
    <3>1. /\ Take(a.rq, a.n, rq_current) \in Arrays
          /\ Distinct(Take(a.rq, a.n, rq_current), a.n - 1)
          /\ NullAfter(Take(a.rq, a.n, rq_current), a.n - 1)
          /\ Members(Take(a.rq, a.n, rq_current), a.n - 1)
               = Members(a.rq, a.n) \ {a.rq[rq_current]}
      BY <1>1, <1>3, ArrayRemove
    <3>2. /\ rq_size' \in 0..ThreadMax /\ rq_current' \in Nat
          /\ rq_size' > 0 => rq_current' < rq_size'
          /\ rq_size' = 0 => rq_current' = 0
      BY <1>1, <1>2, <1>3, <1>5, <2>1
    <3> QED
      BY <1>1, <1>4, <1>5, <2>1, <3>1, <3>2
  <2>2. CASE ret \notin {2, 3}
    <3>1. (rq_current + 1) % a.n \in 0..(a.n - 1)
      BY <1>1, <1>2, <1>3
    <3>2. /\ rq_size' \in 0..ThreadMax /\ rq_size' > 0
          /\ rq_current' \in Nat /\ rq_current' < rq_size'
      BY <1>1, <1>3, <1>5, <2>2, <3>1
    <3> QED
      BY <1>1, <1>4, <1>5, <2>2, <3>2
  <2> QED
    BY <2>1, <2>2
<1>7. /\ waiting_queue' \in Arrays /\ wq_size' \in 0..ThreadMax
      /\ Distinct(waiting_queue', wq_size')
      /\ Waiting' = IF ret = 2 THEN W \cup {Running} ELSE W
      /\ ret = 2 => /\ wq_size' = wq_size + 1
                    /\ \A k \in 0..(wq_size - 1) :
                          waiting_queue'[k] = waiting_queue[k]
                    /\ waiting_queue'[wq_size] = Running
  <2>1. CASE ret = 2
    <3>1. a.wq = waiting_queue /\ a.m = wq_size
      BY <1>0, <1>1, <2>1, HandoverOwner
    <3>2. a.m \in 0..(ThreadMax - 1)
      <4>1. rq_size + wq_size <= ThreadMax /\ rq_size > 0
        BY <1>2, Room, Constants DEF IInv, HolderOK
      <4> QED
        BY <1>2, <1>3, <3>1, <4>1
    <3>3. Running \notin Members(a.wq, a.m)
      BY <1>1, <1>2
    <3>4. /\ Put(a.wq, a.m, Running) \in Arrays
          /\ Distinct(Put(a.wq, a.m, Running), a.m + 1)
          /\ Members(Put(a.wq, a.m, Running), a.m + 1)
               = Members(a.wq, a.m) \cup {Running}
          /\ \A k \in 0..(a.m - 1) : Put(a.wq, a.m, Running)[k] = a.wq[k]
          /\ Put(a.wq, a.m, Running)[a.m] = Running
      BY <1>1, <1>2, <3>2, <3>3, ArrayAppend
    <3>5. waiting_queue' = Put(a.wq, a.m, Running) /\ wq_size' = a.m + 1
      BY <1>5, <2>1
    <3>6. wq_size' \in 0..ThreadMax
      BY <1>3, <3>2, <3>5
    <3> QED
      BY <1>4, <2>1, <3>1, <3>4, <3>5, <3>6
  <2>2. CASE ret # 2
    BY <1>1, <1>4, <1>5, <2>2
  <2> QED
    BY <2>1, <2>2
<1>8. ret # 2 => waiting_queue' = a.wq /\ wq_size' = a.m
  BY <1>5
<1> QED
  BY <1>4, <1>6, <1>7, <1>8 DEF a

(* The scheduler keeps the invariant.                                      *)
LEMMA ScheduleStep ==
  ASSUME IInv, Schedule
  PROVE  IInv'
<1> DEFINE a == AfterHandover
           R == Members(a.rq, a.n)
           W == Members(a.wq, a.m)
<1>0. /\ ctl = "sched" /\ lock_owner' = a.owner
      /\ ctl' = IF rq_size' = 0 THEN "done" ELSE "run"
      /\ UNCHANGED <<balance, arg, tcb, ret, made, signals>>
  BY DEF Schedule
<1>1. /\ ready_queue' \in Arrays /\ waiting_queue' \in Arrays
      /\ rq_size' \in 0..ThreadMax /\ wq_size' \in 0..ThreadMax
      /\ rq_current' \in Nat
      /\ rq_size' > 0 => rq_current' < rq_size'
      /\ rq_size' = 0 => rq_current' = 0
      /\ Distinct(ready_queue', rq_size') /\ NullAfter(ready_queue', rq_size')
      /\ Distinct(waiting_queue', wq_size')
      /\ Ready' = IF ret \in {2, 3} THEN R \ {Running} ELSE R
      /\ Waiting' = IF ret = 2 THEN W \cup {Running} ELSE W
      /\ ret # 2 => wq_size' = a.m
  BY ScheduleQueues
<1>2. R \cup W = Ready \cup Waiting /\ R \cap W = {} /\ W \subseteq Waiting
  BY <1>0, HandoverFacts
<1>3. /\ a.owner \in Ids \cup {-1}
      /\ a.owner = -1 => a.m = 0
      /\ a.owner # -1 => /\ a.owner \in R
                         /\ tcb[a.owner].at \in {"locked", "step2", "step3"}
      /\ \A p \in Ids : tcb[p].at \in {"step2", "step3"} => a.owner = p
      /\ \A p \in R : tcb[p].at = "locked" =>
                         a.owner = p \/ (ret = 2 /\ Running = p)
      /\ ret = 2 => a.owner # -1
      /\ ret \in {2, 3} => a.owner # Running
  BY <1>0, HandoverOwner
<1>4. /\ Running \in Ids /\ Running \in Ready /\ Running \notin Waiting
      /\ Ready \subseteq Ids /\ Waiting \subseteq Ids
      /\ \A p \in Waiting : tcb[p].at = "locked"
      /\ ret = 2 => tcb[Running].at = "locked"
      /\ ret = 3 => tcb[Running].at = "gone"
  <2>1. Running \in Ids /\ Running \in Ready /\ Running \notin Waiting
    BY <1>0, RunningIsReady
  <2>2. Ready \subseteq Ids /\ Waiting \subseteq Ids
    BY ReadyInIds DEF IInv, HolderOK
  <2>3. /\ \A p \in Waiting : tcb[p].at = "locked"
        /\ ret = 2 => tcb[Running].at = "locked"
        /\ ret = 3 => tcb[Running].at = "gone"
    BY <1>0 DEF IInv, LockOK, Resumed
  <2> QED
    BY <2>1, <2>2, <2>3
<1> HIDE DEF a, R, W
<1>5. TypeOK'
  <2>1. rq_current' \in Slots
    BY <1>1, Constants DEF Slots
  <2>2. ctl' \in {"main", "sched", "run", "tstp_window", "alrm_window", "done"}
    BY <1>0
  <2> QED
    BY <1>0, <1>1, <1>3, <2>1, <2>2 DEF IInv, TypeOK, Arrays, signals
<1>6. Ready' \cap Waiting' = {} /\ Ready' \subseteq R /\ Waiting' \subseteq Ids
  BY <1>1, <1>2, <1>4
<1>7. QueuesOK'
  <2>1. \A p \in Ids : (p \in Ready' \cup Waiting')
                         <=> tcb[p].at \notin {"none", "gone"}
    <3> SUFFICES ASSUME NEW p \in Ids
                 PROVE  (p \in Ready' \cup Waiting')
                          <=> tcb[p].at \notin {"none", "gone"}
      OBVIOUS
    <3>1. (p \in Ready \cup Waiting) <=>
            (tcb[p].at \notin {"none", "gone"} \/ (ret = 3 /\ Running = p))
      BY <1>0 DEF IInv, QueuesOK, Leaving
    <3>2. CASE ret = 3
      <4>1. Ready' \cup Waiting' = (Ready \cup Waiting) \ {Running}
        BY <1>1, <1>2, <1>4, <3>2
      <4> QED
        BY <1>4, <3>1, <3>2, <4>1
    <3>3. CASE ret # 3
      <4>1. Ready' \cup Waiting' = Ready \cup Waiting
        BY <1>1, <1>2, <1>4, <3>3
      <4> QED
        BY <3>1, <3>3, <4>1
    <3> QED
      BY <3>2, <3>3
  <2>2. \A p \in Ids : ~ Leaving(p)'
    BY <1>0 DEF Leaving
  <2>3. \A p \in Ids : (p \in Ready \cup Waiting)'
                         <=> (tcb'[p].at \notin {"none", "gone"} \/ Leaving(p)')
    BY <1>0, <2>1, <2>2
  <2>4. /\ (\A k \in Slots : (k < rq_size) <=> (ready_queue[k] # Null))'
        /\ (\A j, k \in 0..(rq_size - 1) : ready_queue[j] = ready_queue[k] => j = k)'
        /\ (\A j, k \in 0..(wq_size - 1) : waiting_queue[j] = waiting_queue[k] => j = k)'
    BY <1>1 DEF NullAfter, Distinct
  <2> QED
    BY <1>1, <1>6, <2>3, <2>4 DEF QueuesOK
<1>8. LockOK'
  <2>1. \A p \in Ids : tcb[p].at \in {"step2", "step3"} => lock_owner' = p
    BY <1>0, <1>3
  <2>2. ASSUME NEW p \in Ready', tcb[p].at = "locked" PROVE lock_owner' = p
    BY <1>0, <1>1, <1>3, <2>2
  <2>3. lock_owner' # -1 => lock_owner' \in Ready'
    BY <1>0, <1>1, <1>3
  <2>4. \A p \in Waiting' : tcb[p].at = "locked"
    BY <1>1, <1>2, <1>4
  <2> QED
    BY <1>0, <2>1, <2>2, <2>3, <2>4 DEF LockOK
<1>9. AlarmKept' /\ ResultsOK' /\ BeforeStart' /\ LoopOK'
  BY <1>0 DEF IInv, AlarmKept, ResultsOK, BeforeStart, LoopOK, signals
<1>10. Resumed'
  <2>1. rq_size' # 0 => rq_size' > 0
    BY <1>1
  <2> QED
    BY <1>0, <2>1 DEF IInv, Resumed, signals
<1>11. HolderOK'
  <2>1. lock_owner' = -1 => wq_size' = 0
    BY <1>0, <1>1, <1>3
  <2> QED
    BY <1>0, <1>3, <1>6, <2>1 DEF IInv, HolderOK
<1> QED
  BY <1>5, <1>7, <1>8, <1>9, <1>10, <1>11 DEF IInv

-----------------------------------------------------------------------------
(* The invariant is inductive.                                             *)
LEMMA NextInv == IInv /\ [Next]_vars => IInv'
<1> SUFFICES ASSUME IInv, [Next]_vars PROVE IInv'
  OBVIOUS
<1>1. CASE CreateThread
  BY <1>1, CreateThreadStep
<1>2. CASE StartThreading
  BY <1>2, StartThreadingStep
<1>3. ASSUME NEW p \in Ids, Iterate(p) PROVE IInv'
  BY <1>3, IterateStep
<1>4. ASSUME NEW p \in Ids, BankStep(p) PROVE IInv'
  BY <1>4, BankStepKeeps
<1>5. CASE \/ TstpWindowCloses \/ AlrmWindowCloses \/ TstpArrives \/ AlarmGoesOff
           \/ \E sig \in Signals : sighandler(sig)
  BY <1>5, SignalStep
<1>6. CASE Schedule
  BY <1>6, ScheduleStep
<1>7. CASE UNCHANGED vars
  <2>1. /\ UNCHANGED <<ready_queue, waiting_queue, rq_size, rq_current, wq_size,
                       lock_owner, balance, arg, tcb, ctl, ret, made, mask,
                       pending, armed>>
        /\ UNCHANGED <<Ready, Waiting, Running>>
    BY <1>7 DEF vars, queues, bank, signals, Ready, Waiting, Running
  <2>2. TypeOK' /\ QueuesOK' /\ LockOK'
    BY <2>1 DEF IInv, TypeOK, QueuesOK, LockOK, Leaving
  <2>3. AlarmKept' /\ ResultsOK' /\ BeforeStart'
    BY <2>1 DEF IInv, AlarmKept, ResultsOK, BeforeStart
  <2>4. Resumed' /\ HolderOK' /\ LoopOK'
    BY <2>1 DEF IInv, Resumed, HolderOK, LoopOK
  <2> QED
    BY <2>2, <2>3, <2>4 DEF IInv
<1> QED
  BY <1>1, <1>2, <1>3, <1>4, <1>5, <1>6, <1>7 DEF Next, Program, Returned

(* The inductive invariant holds throughout.                               *)
THEOREM Invariance == Spec => []IInv
BY InitInv, NextInv, PTL DEF Spec

-----------------------------------------------------------------------------
(* The variables hold what TypeOK says.                                    *)
THEOREM Typing == Spec => []TypeOK
<1>1. IInv => TypeOK
  BY DEF IInv
<1> QED
  BY <1>1, Invariance, PTL

(* The arrays of ready_queue and waiting_queue survive their in-place      *)
(* edits: every thread that has not exited is in exactly one, once.        *)
THEOREM QueuesIntact == Spec => []QueuesOK
<1>1. IInv => QueuesOK
  BY DEF IInv
<1> QED
  BY <1>1, Invariance, PTL

(* Mutual exclusion on the bank, through every hand-over of the lock.      *)
THEOREM LockProtects == Spec => []LockOK
<1>1. IInv => LockOK
  BY DEF IInv
<1> QED
  BY <1>1, Invariance, PTL

(* While threads run, the alarm is running or its signal is pending.       *)
THEOREM AlarmGoesOn == Spec => []AlarmKept
<1>1. IInv => AlarmKept
  BY DEF IInv
<1> QED
  BY <1>1, Invariance, PTL

(* Scheduler and threads run with both signals blocked.                    *)
THEOREM NoSignalInside == Spec => []SignalsBlocked
<1>1. IInv => SignalsBlocked
  BY DEF IInv, Resumed, SignalsBlocked
<1> QED
  BY <1>1, Invariance, PTL

(* For every argument: what fibonacci and factorial keep in their TCB is   *)
(* the number the recursive definition gives.                              *)
THEOREM Results == Spec => []ResultsOK
<1>1. IInv => ResultsOK
  BY DEF IInv
<1> QED
  BY <1>1, Invariance, PTL

(* Only the thread that holds the lock changes the balance, and it stays   *)
(* non-negative.                                                           *)
THEOREM BalanceIsGuarded == Spec => BalanceGuarded
<1>1. ASSUME IInv, [Next]_vars, balance' # balance
      PROVE  lock_owner = Running /\ balance' >= 0
  <2>1. PICK p \in Ids : BankStep(p)
    BY <1>1 DEF Next, Program, Returned, vars, bank, CreateThread,
       StartThreading, Iterate, TstpWindowCloses, AlrmWindowCloses, sighandler,
       Schedule, TstpArrives, AlarmGoesOff
  <2>2. BankUpdate(p) /\ Running = p
    BY <1>1, <2>1 DEF BankStep, BankLock, BankBlock, BankGranted, BankRelease, bank
  <2> QED
    BY <1>1, <2>1, <2>2, BankOwner
<1>2. IInv /\ [Next]_vars =>
        [balance' # balance => lock_owner = Running /\ balance' >= 0]_vars
  BY <1>1
<1> QED
  BY <1>2, Invariance, PTL DEF Spec, BalanceGuarded

(* A caught signal passes the processor on if another thread is ready.     *)
THEOREM SignalsSwitch == Spec => SignalSwitches
<1>1. ASSUME IInv, IInv', [Next]_vars,
             ctl = "sched", ret = 1, ctl' = "run", rq_size > 1
      PROVE  Running' # Running
  <2>1. Schedule
    BY <1>1 DEF Next, Program, Returned, vars, CreateThread, StartThreading,
       Iterate, BankStep, TstpWindowCloses, AlrmWindowCloses, sighandler,
       Deliverable, TstpArrives, AlarmGoesOff, IInv, Resumed, base_mask
  <2> DEFINE a == AfterHandover
  <2>2. /\ ready_queue' = a.rq /\ rq_size' = a.n
        /\ rq_current' = (rq_current + 1) % a.n
    BY <1>1, <2>1, HandoverFacts DEF Schedule, NextIndex
  <2>3. /\ rq_size <= a.n /\ a.rq[rq_current] = Running /\ a.n \in 1..ThreadMax
        /\ Distinct(a.rq, a.n)
    BY <1>1, HandoverFacts
  <2> HIDE DEF a
  <2>4. rq_current \in 0..(rq_size - 1) /\ rq_size \in Nat
    BY <1>1, RunningIsReady DEF IInv, TypeOK
  <2>5. /\ rq_current \in 0..(a.n - 1) /\ rq_current' \in 0..(a.n - 1)
        /\ rq_current' # rq_current
    BY <1>1, <2>2, <2>3, <2>4, Constants
  <2> QED
    BY <2>2, <2>3, <2>5 DEF Running, Distinct
<1>2. IInv /\ IInv' /\ [Next]_vars =>
        [ctl = "sched" /\ ret = 1 /\ ctl' = "run" /\ rq_size > 1
           => Running' # Running]_vars
  BY <1>1
<1> QED
  BY <1>2, Invariance, PTL DEF Spec, SignalSwitches

-----------------------------------------------------------------------------
(* The waiting threads as the abstract mutex sees them.                    *)
WaitersOf(wq, m) == [k \in 1..m |-> wq[k - 1]]
Waiters == WaitersOf(waiting_queue, wq_size)

(* It is a sequence of threads, the threads that wait.                     *)
LEMMA WaitersSeq ==
  ASSUME NEW wq, NEW m \in Nat, Members(wq, m) \subseteq Ids
  PROVE  LET w == WaitersOf(wq, m)
         IN  /\ w \in Seq(Ids) /\ Len(w) = m
             /\ (w = <<>>) <=> (m = 0)
             /\ {w[k] : k \in 1..Len(w)} = Members(wq, m)
<1> DEFINE w == WaitersOf(wq, m)
<1>2. ASSUME NEW k \in 1..m
      PROVE  w[k] = wq[k - 1] /\ w[k] \in Members(wq, m)
  <2>1. k - 1 \in 0..(m - 1)
    OBVIOUS
  <2> QED
    BY <2>1 DEF Members, WaitersOf
<1>3. w \in Seq(Ids) /\ Len(w) = m
  BY <1>2 DEF WaitersOf
<1> HIDE DEF w
<1>4. Members(wq, m) \subseteq {w[k] : k \in 1..m}
  <2> SUFFICES ASSUME NEW j \in 0..(m - 1)
               PROVE  \E k \in 1..m : wq[j] = w[k]
    BY DEF Members
  <2>1. j + 1 \in 1..m /\ (j + 1) - 1 = j
    OBVIOUS
  <2> QED
    BY <1>2, <2>1
<1>5. {w[k] : k \in 1..m} \subseteq Members(wq, m)
  BY <1>2
<1> QED
  BY <1>3, <1>4, <1>5 DEF w

(* Each step is a step of the mutex or leaves it as it was.                *)
LEMMA FifoStep ==
  ASSUME IInv, IInv', [Next]_vars
  PROVE  [FM!Next]_FM!vars
<1>0. /\ wq_size \in Nat /\ Waiters \in Seq(Ids) /\ Len(Waiters) = wq_size
      /\ (Waiters = <<>>) <=> (wq_size = 0)
      /\ Waiters' \in Seq(Ids) /\ Len(Waiters') = wq_size'
      /\ FM!Waiting = Waiting
  <2>1. /\ wq_size \in Nat /\ wq_size' \in Nat
        /\ Members(waiting_queue, wq_size) = Waiting
        /\ Members(waiting_queue', wq_size') = Waiting'
        /\ Waiting \subseteq Ids /\ Waiting' \subseteq Ids
    <3>1. wq_size \in Nat /\ Waiting \subseteq Ids
      BY Constants DEF IInv, TypeOK, HolderOK
    <3>2. wq_size' \in Nat /\ Waiting' \subseteq Ids
      BY Constants DEF IInv, TypeOK, HolderOK
    <3> QED
      BY <3>1, <3>2 DEF Members, Waiting
  <2>2. /\ Waiters \in Seq(Ids) /\ Len(Waiters) = wq_size
        /\ (Waiters = <<>>) <=> (wq_size = 0)
        /\ {Waiters[k] : k \in 1..Len(Waiters)} = Waiting
    BY <2>1, WaitersSeq DEF Waiters
  <2>3. Waiters' \in Seq(Ids) /\ Len(Waiters') = wq_size'
    BY <2>1, WaitersSeq DEF Waiters
  <2> QED
    BY <2>1, <2>2, <2>3 DEF FM!Waiting, Waiters, WaitersOf
<1>1. ASSUME UNCHANGED <<lock_owner, waiting_queue, wq_size>>
      PROVE  UNCHANGED FM!vars
  BY <1>1 DEF FM!vars
<1>2. CASE StartThreading
  BY <1>1, <1>2 DEF StartThreading, IInv, BeforeStart, bank
<1>3. ASSUME NEW p \in Ids, BankStep(p) PROVE [FM!Next]_FM!vars
  <2>0. /\ UNCHANGED <<waiting_queue, wq_size>>
        /\ ctl = "run" /\ lock_owner = -1 => wq_size = 0
    BY <1>3 DEF BankStep, queues, IInv, HolderOK
  <2>1. UNCHANGED Waiters
    BY <2>0 DEF Waiters, WaitersOf
  <2>2. CASE BankLock(p)
    <3>1. FM!Acquire(p)
      BY <1>0, <1>3, <2>0, <2>1, <2>2, BankOwner DEF FM!Acquire, Waiters, WaitersOf, BankStep
    <3> QED
      BY <3>1 DEF FM!Next
  <2>3. CASE BankRelease(p)
    <3>1. FM!Release(p)
      BY <1>3, <2>1, <2>3, BankOwner DEF FM!Release, Waiters, WaitersOf
    <3> QED
      BY <3>1 DEF FM!Next
  <2>4. CASE BankBlock(p) \/ BankGranted(p) \/ BankUpdate(p)
    BY <1>1, <1>3, <2>0, <2>4, BankOwner
  <2> QED
    BY <1>3, <2>2, <2>3, <2>4 DEF BankStep
<1>4. CASE Schedule
  <2> DEFINE a == AfterHandover
  <2>0. ctl = "sched" /\ lock_owner' = a.owner
    BY <1>4 DEF Schedule
  <2>1. /\ ret = 2 => /\ wq_size' = wq_size + 1
                      /\ \A k \in 0..(wq_size - 1) :
                            waiting_queue'[k] = waiting_queue[k]
                      /\ waiting_queue'[wq_size] = Running
        /\ ret # 2 => waiting_queue' = a.wq /\ wq_size' = a.m
    BY <1>4, ScheduleQueues
  <2>2. IF Handover
        THEN /\ a.owner = waiting_queue[0] /\ a.m = wq_size - 1
             /\ \A k \in 0..(a.m - 1) : a.wq[k] = waiting_queue[k + 1]
        ELSE /\ a.owner = lock_owner /\ a.wq = waiting_queue /\ a.m = wq_size
    BY <2>0, HandoverFacts
  <2> HIDE DEF a
  <2>3. CASE ret = 2
    <3>1. /\ ~Handover /\ lock_owner \notin {-1, Running}
          /\ Running \in Ids /\ Running \notin Waiting
      BY <2>0, <2>3, HandoverOwner, RunningIsReady DEF IInv, Resumed
    <3>2. Waiters' = Append(Waiters, Running)
      <4>1. /\ wq_size' = wq_size + 1
            /\ Append(Waiters, Running) \in Seq(Ids)
            /\ Len(Append(Waiters, Running)) = wq_size + 1
        BY <1>0, <2>1, <2>3, <3>1
      <4>2. ASSUME NEW k \in 1..wq_size
            PROVE  Waiters'[k] = Append(Waiters, Running)[k]
        <5>1. /\ Append(Waiters, Running)[k] = Waiters[k]
              /\ k \in 1..wq_size' /\ k - 1 \in 0..(wq_size - 1)
          BY <1>0, <3>1, <4>1
        <5>2. waiting_queue'[k - 1] = waiting_queue[k - 1]
          BY <2>1, <2>3, <5>1
        <5> QED
          BY <5>1, <5>2 DEF Waiters, WaitersOf
      <4>3. Waiters'[wq_size + 1] = Append(Waiters, Running)[wq_size + 1]
        <5>1. /\ Append(Waiters, Running)[wq_size + 1] = Running
              /\ wq_size + 1 \in 1..wq_size' /\ (wq_size + 1) - 1 = wq_size
          BY <1>0, <3>1, <4>1
        <5> QED
          BY <2>1, <2>3, <5>1 DEF Waiters, WaitersOf
      <4>4. \A k \in 1..(wq_size + 1) :
               k \in 1..wq_size \/ k = wq_size + 1
        BY <1>0
      <4>5. \A k \in 1..Len(Waiters') :
               Waiters'[k] = Append(Waiters, Running)[k]
        BY <1>0, <4>1, <4>2, <4>3, <4>4
      <4>6. Len(Waiters') = Len(Append(Waiters, Running))
        BY <1>0, <4>1
      <4> HIDE DEF Waiters
      <4> QED
        BY <1>0, <4>1, <4>5, <4>6, SeqEqual
    <3>3. PICK p \in Ids : p = Running
      BY <3>1
    <3>4. FM!Enqueue(p)
      BY <1>0, <2>0, <2>2, <3>1, <3>2, <3>3 DEF FM!Enqueue, Waiters, WaitersOf
    <3> QED
      BY <3>4 DEF FM!Next
  <2>4. CASE ret # 2 /\ Handover
    <3>1. lock_owner = -1 /\ wq_size > 0
      BY <2>4 DEF Handover
    <3>2. Head(Waiters) = waiting_queue[0]
      BY <1>0, <3>1 DEF Waiters, WaitersOf
    <3>3. Waiters' = Tail(Waiters)
      <4>1. /\ wq_size' = wq_size - 1
            /\ Tail(Waiters) \in Seq(Ids) /\ Len(Tail(Waiters)) = wq_size - 1
        BY <1>0, <2>1, <2>2, <2>4, <3>1
      <4>2. ASSUME NEW k \in 1..wq_size' PROVE Waiters'[k] = Tail(Waiters)[k]
        <5>1. /\ Tail(Waiters)[k] = Waiters[k + 1]
              /\ k + 1 \in 1..wq_size /\ (k + 1) - 1 = k
              /\ k - 1 \in 0..(wq_size' - 1) /\ (k - 1) + 1 = k
          BY <1>0, <4>1
        <5>2. waiting_queue'[k - 1] = waiting_queue[k]
          BY <2>1, <2>2, <2>4, <5>1
        <5> QED
          BY <5>1, <5>2 DEF Waiters, WaitersOf
      <4> QED
        BY <1>0, <4>1, <4>2, SeqEqual
    <3>4. FM!HandOver
      <4>1. Waiters # <<>> /\ lock_owner' = Head(Waiters)
        BY <1>0, <2>0, <2>2, <2>4, <3>1, <3>2
      <4> QED
        BY <3>1, <3>3, <4>1, Zenon DEF FM!HandOver, Waiters, WaitersOf
    <3> QED
      BY <3>4 DEF FM!Next
  <2>5. CASE ret # 2 /\ ~Handover
    BY <1>1, <2>0, <2>1, <2>2, <2>5
  <2> QED
    BY <2>3, <2>4, <2>5
<1>5. CASE \/ CreateThread \/ TstpWindowCloses \/ AlrmWindowCloses
           \/ TstpArrives \/ AlarmGoesOff \/ UNCHANGED vars
           \/ \E sig \in Signals : sighandler(sig)
           \/ \E p \in Ids : Iterate(p)
  <2>1. UNCHANGED <<lock_owner, waiting_queue, wq_size>>
    BY <1>5 DEF CreateThread, TstpWindowCloses, AlrmWindowCloses, TstpArrives,
       AlarmGoesOff, sighandler, Iterate, vars, queues, bank
  <2> QED
    BY <1>1, <2>1
<1> QED
  BY <1>2, <1>3, <1>4, <1>5 DEF Next, Program, Returned

(* lock(), unlock() and the scheduler's hand-over are a FIFO mutex: one    *)
(* holder, and the lock goes to the threads in the order they asked.       *)
THEOREM Fifo == Spec => LockIsFifo
<1>1. Init => FM!Init
  BY DEF Init, FM!Init
<1>2. IInv /\ IInv' /\ [Next]_vars => [FM!Next]_FM!vars
  BY FifoStep
<1> QED
  BY <1>1, <1>2, Invariance, PTL DEF Spec, LockIsFifo, FM!Spec
=============================================================================
