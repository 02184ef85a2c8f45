-------------------------- MODULE ThreadPoolProofs --------------------------
(***************************************************************************)
(* For any finite set of workers and any set of tasks: the inductive       *)
(* invariant of ThreadPool, the safety properties it implies, and that     *)
(* every step of the pool is a step of TaskPool or leaves it unchanged.    *)
(***************************************************************************)
EXTENDS ThreadPool, FiniteSetTheorems, SequenceTheorems, TLAPS

USE PoolAssumption DEF Threads, PoolAssumption

data == <<list, mem, count, term, task, new, queue, finished>>

-----------------------------------------------------------------------------
(* The initial state satisfies the inductive invariant.                    *)
LEMMA InitInv == Init => IInv
<1> SUFFICES ASSUME Init PROVE IInv
  OBVIOUS
<1>1. TypeOK
  <2>1. PcOK
    BY DEF Init, PcOK, WorkerPC, MainPC
  <2>2. <<>> \in Seq(Tasks)
    OBVIOUS
  <2> QED
    BY <2>1, <2>2 DEF Init, TypeOK, DataOK
<1>2. ControlOK
  BY DEF Init, ControlOK, Holding, Adding, InTask, AllJoined
<1>3. ListOK
  BY DEF Init, ListOK, First
<1>4. OneOwner
  BY DEF Init, OneOwner, Owned, Queued
<1>5. CountOK
  <2>1. Busy = {}
    BY DEF Init, Busy, InTask
  <2> QED
    BY <2>1, FS_EmptySet DEF Init, CountOK
<1>6. NoWorkerMissed /\ NoWaiterMissed /\ FateOK
  BY DEF Init, NoWorkerMissed, NoWaiterMissed, FateOK
<1> QED
  BY <1>1, <1>2, <1>3, <1>4, <1>5, <1>6 DEF IInv

-----------------------------------------------------------------------------
(* A busy worker is counted: running_thd_count is not 0.                   *)
LEMMA BusyCount ==
  ASSUME CountOK, NEW w \in Busy
  PROVE  count # 0
<1>1. IsFiniteSet(Busy)
  BY FS_Subset DEF Busy
<1> QED
  BY <1>1, FS_EmptySet DEF CountOK

(* The ways a program counter changes keep each thread in its own code.    *)
LEMMA MovePc ==
  ASSUME PcOK, NEW p \in Threads, NEW to, Move(p, to),
         to \in IF p = Main THEN MainPC ELSE WorkerPC
  PROVE  PcOK'
BY DEF PcOK, Move

(* A signal to the workers moves each to code of its own.                  *)
LEMMA WakeWorkersPc ==
  ASSUME PcOK, NEW p \in Threads, NEW to, WakeWorkers(p, to),
         to \in IF p = Main THEN MainPC ELSE WorkerPC
  PROVE  PcOK'
<1>1. pc[Main] # "added_cv" /\ "work_lock" \in WorkerPC
  BY DEF PcOK, MainPC, WorkerPC
<1> QED
  BY <1>1 DEF PcOK, WakeWorkers

(* And so does a signal to a single waiter.                                *)
LEMMA WakeWaiterPc ==
  ASSUME PcOK, NEW w \in Workers, WakeWaiter(w, "work_lock")
  PROVE  PcOK'
<1>1. /\ \A v \in Workers : pc[v] # "done_cv"
      /\ "wait_lock" \in MainPC /\ "work_lock" \in WorkerPC
  BY DEF PcOK, MainPC, WorkerPC
<1> QED
  BY <1>1 DEF PcOK, WakeWaiter

-----------------------------------------------------------------------------
(* Every step keeps the variables in their types.                          *)
LEMMA TypeStep == IInv /\ [Next]_vars => TypeOK'
<1> SUFFICES ASSUME IInv, [Next]_vars PROVE TypeOK'
  OBVIOUS
<1>0. PcOK /\ DataOK
  BY DEF IInv, TypeOK
<1> USE <1>0 DEF TypeOK, DataOK, Unlock, list
<1>1. ASSUME NEW p \in Threads, Acquire(p) PROVE TypeOK'
  BY <1>1 DEF Acquire, Lock, PcOK, Move, MainPC, WorkerPC
<1>2. ASSUME NEW p \in Threads, AddBody(p) PROVE TypeOK'
  <2>1. new[p] \in Tasks
    BY <1>2 DEF IInv, ControlOK, Adding, AddBody
  <2>2. DataOK'
    BY <1>2, <2>1 DEF AddBody, LinkTask
  <2>3. PcOK'
    BY <1>2, WakeWorkersPc DEF AddBody, MainPC, WorkerPC
  <2> QED
    BY <2>2, <2>3
<1>3. ASSUME NEW p \in Threads, SpuriousWake(p) PROVE TypeOK'
  BY <1>3 DEF SpuriousWake, PcOK, Move, MainPC, WorkerPC
<1>4. ASSUME NEW p \in Threads, NEW t \in Tasks, CallAdd(p, t) PROVE TypeOK'
  BY <1>4 DEF CallAdd, PcOK, Move, MainPC, WorkerPC
<1>5. ASSUME NEW w \in Workers, CreateWorker(w) \/ FuncReturns(w)
      PROVE TypeOK'
  BY <1>5 DEF CreateWorker, FuncReturns, PcOK, Move, MainPC, WorkerPC
<1>6. ASSUME NEW w \in Workers, WorkSleep(w) \/ WorkExit(w) PROVE TypeOK'
  BY <1>6 DEF WorkSleep, WorkExit, PcOK, Move, MainPC, WorkerPC
<1>7. ASSUME NEW w \in Workers, WorkTake(w) PROVE TypeOK'
  <2>1. queue # <<>>
    BY <1>7 DEF IInv, ListOK, First, ControlOK, AllJoined, WorkTake
  <2>2. DataOK'
    BY <1>7, <2>1 DEF WorkTake, UnlinkHead, CountUp
  <2>3. PcOK'
    BY <1>7, MovePc DEF WorkTake, WorkerPC
  <2> QED
    BY <2>2, <2>3
<1>8. ASSUME NEW w \in Workers, WorkFinish(w) PROVE TypeOK'
  <2>1. task[w] \in Tasks
    BY <1>8 DEF IInv, ControlOK, InTask, WorkFinish
  <2>2. count # 0
    BY <1>8, BusyCount DEF WorkFinish, IInv, InTask, Busy
  <2>3. DataOK'
    BY <1>8, <2>1, <2>2 DEF WorkFinish, CountDown, Free
  <2>4. PcOK'
    BY <1>8, MovePc, WakeWaiterPc DEF WorkFinish, WorkerPC
  <2> QED
    BY <2>3, <2>4
<1>9. CASE InitDone \/ WaitSleep \/ WaitReturn \/ FreePool
  BY <1>9 DEF InitDone, WaitSleep, WaitReturn, FreePool, PcOK, Move, MainPC,
              WorkerPC
<1>10. CASE CallWait \/ CallDestroy
  BY <1>10 DEF CallWait, CallDestroy, PcOK, Move, MainPC, WorkerPC
<1>11. CASE Terminate
  <2>1. PcOK'
    BY <1>11, WakeWorkersPc DEF Terminate, MainPC
  <2> QED
    BY <1>11, <2>1 DEF Terminate
<1>12. CASE Join
  BY <1>12 DEF Join, PcOK, Move, MainPC, WorkerPC
<1>13. CASE FreeTask
  <2>1. queue # <<>>
    BY <1>13 DEF FreeTask, IInv, ListOK, First
  <2>2. DataOK'
    BY <1>13, <2>1 DEF FreeTask, Free
  <2> QED
    BY <1>13, <2>2 DEF FreeTask, PcOK
<1>14. CASE UNCHANGED vars
  BY <1>14 DEF vars, PcOK
<1> QED
  BY <1>1, <1>2, <1>3, <1>4, <1>5, <1>6, <1>7, <1>8, <1>9, <1>10, <1>11,
     <1>12, <1>13, <1>14
     DEF Next, WorkerStep, MainStep, Terminated

-----------------------------------------------------------------------------
(* The program counters keep agreeing with the mutex, term and the locals. *)
LEMMA ControlStep == IInv /\ [Next]_vars => ControlOK'
<1> SUFFICES ASSUME IInv, [Next]_vars PROVE ControlOK'
  OBVIOUS
<1>0. TypeOK /\ ControlOK
  BY DEF IInv
<1> USE <1>0 DEF TypeOK, DataOK, PcOK, MainPC, WorkerPC, ControlOK, AllJoined,
                 Holding, Adding, InTask, Unlock, Move, list
<1>1. ASSUME NEW p \in Threads, Acquire(p) PROVE ControlOK'
  BY <1>1 DEF Acquire, Lock
<1>2. ASSUME NEW p \in Threads, AddBody(p) PROVE ControlOK'
  BY <1>2 DEF AddBody, WakeWorkers
<1>3. ASSUME NEW p \in Threads, SpuriousWake(p) PROVE ControlOK'
  BY <1>3 DEF SpuriousWake
<1>4. ASSUME NEW p \in Threads, NEW t \in Tasks, CallAdd(p, t)
      PROVE ControlOK'
  BY <1>4 DEF CallAdd
<1>5. ASSUME NEW w \in Workers, CreateWorker(w) \/ FuncReturns(w)
      PROVE ControlOK'
  BY <1>5 DEF CreateWorker, FuncReturns
<1>6. ASSUME NEW w \in Workers, WorkSleep(w) \/ WorkExit(w) PROVE ControlOK'
  BY <1>6 DEF WorkSleep, WorkExit
<1>7. ASSUME NEW w \in Workers, WorkTake(w) PROVE ControlOK'
  BY <1>7 DEF WorkTake
<1>8. ASSUME NEW w \in Workers, WorkFinish(w) PROVE ControlOK'
  BY <1>8 DEF WorkFinish, WakeWaiter
<1>9. CASE InitDone \/ WaitSleep \/ WaitReturn \/ FreePool
  BY <1>9 DEF InitDone, WaitSleep, WaitReturn, FreePool
<1>10. CASE CallWait \/ CallDestroy
  BY <1>10 DEF CallWait, CallDestroy
<1>11. CASE Terminate
  BY <1>11 DEF Terminate, WakeWorkers
<1>12. CASE Join \/ FreeTask
  BY <1>12 DEF Join, FreeTask
<1>13. CASE UNCHANGED vars
  BY <1>13 DEF vars
<1> QED
  BY <1>1, <1>2, <1>3, <1>4, <1>5, <1>6, <1>7, <1>8, <1>9, <1>10, <1>11,
     <1>12, <1>13
     DEF Next, WorkerStep, MainStep, Terminated

-----------------------------------------------------------------------------
(* The list and the history queue stay in step when a task is linked.      *)
LEMMA ListAddBody ==
  ASSUME IInv, NEW p \in Threads, AddBody(p)
  PROVE  ListOK'
<1> DEFINE n == new[p]
<1>1. n \in Tasks /\ n \notin Queued /\ next[n] = Null
  BY DEF IInv, TypeOK, DataOK, ControlOK, Adding, AddBody, OneOwner, ListOK
<1>2. pc[Main] \notin {"free", "exit"} /\ pc'[Main] \notin {"free", "exit"}
  BY DEF IInv, TypeOK, PcOK, MainPC, WorkerPC, ControlOK, AllJoined, AddBody,
         WakeWorkers
<1>3. /\ queue \in Seq(Tasks)
      /\ next \in [Tasks -> Tasks \cup {Null}]
      /\ queue' = Append(queue, n)
      /\ new' = [new EXCEPT ![p] = Null]
      /\ new \in [Threads -> Tasks \cup {Null}]
  BY DEF IInv, TypeOK, DataOK, AddBody
<1>4. /\ Len(queue') = Len(queue) + 1
      /\ queue'[Len(queue) + 1] = n
      /\ \A i \in 1..Len(queue) : queue'[i] = queue[i]
      /\ queue' # <<>>
      /\ Len(queue) \in Nat
  BY <1>1, <1>3
<1>5. \A i \in 1..Len(queue) : queue[i] \in Queued /\ queue[i] \in Tasks
  BY <1>3 DEF Queued
<1>6. First = head /\ First' = head'
  BY <1>2 DEF First
<1>7. CASE head = Null
  <2>1. queue = <<>> /\ head' = n /\ tail' = n /\ next' = next
    BY <1>6, <1>7 DEF AddBody, LinkTask, IInv, ListOK
  <2>2. Len(queue) = 0
    BY <2>1
  <2> QED
    BY <1>1, <1>3, <1>4, <1>6, <2>1, <2>2 DEF ListOK, IInv
<1>8. CASE head # Null
  <2>1. /\ queue # <<>> /\ head = queue[1] /\ tail = queue[Len(queue)]
        /\ head' = head /\ tail' = n /\ next' = [next EXCEPT ![tail] = n]
    BY <1>2, <1>6, <1>8 DEF AddBody, LinkTask, IInv, ListOK
  <2>2. Len(queue) \in Nat \ {0} /\ tail \in Queued /\ tail \in Tasks
    BY <1>3, <1>5, <2>1
  <2>3. \A i \in 1..(Len(queue) - 1) : queue[i] # tail
    BY <2>1, <2>2 DEF IInv, OneOwner
  <2>4. \A q \in Threads : new[q] # tail
    BY <2>2 DEF IInv, OneOwner
  <2>5. \A i \in 1..Len(queue) : next'[queue'[i]] = queue'[i + 1]
    <3> SUFFICES ASSUME NEW i \in 1..Len(queue)
                 PROVE  next'[queue'[i]] = queue'[i + 1]
      OBVIOUS
    <3>1. CASE i = Len(queue)
      BY <1>3, <1>4, <2>1, <2>2, <3>1
    <3>2. CASE i # Len(queue)
      <4>1. i \in 1..(Len(queue) - 1) /\ i + 1 \in 1..Len(queue)
        BY <3>2, <1>4
      <4>2. next[queue[i]] = queue[i + 1]
        BY <4>1 DEF IInv, ListOK
      <4> QED
        BY <4>1, <4>2, <1>3, <1>4, <1>5, <2>1, <2>3
    <3> QED
      BY <3>1, <3>2
  <2>6. next'[n] = Null
    BY <1>1, <1>3, <2>1, <2>2
  <2>7. \A q \in Threads : new'[q] # Null => next'[new'[q]] = Null
    BY <1>3, <2>1, <2>4 DEF IInv, ListOK
  <2>8. queue'[1] = queue[1]
    BY <1>4, <2>2
  <2>9. Len(queue') - 1 = Len(queue)
    BY <1>4
  <2> QED
    BY <1>4, <1>6, <1>8, <2>1, <2>5, <2>6, <2>7, <2>8, <2>9 DEF ListOK
<1> QED
  BY <1>7, <1>8

(* The list and the history queue stay in step when the first task leaves. *)
LEMMA ListTail ==
  ASSUME IInv, queue # <<>>, queue' = Tail(queue), next' = next, new' = new,
         First' = next[First],
         pc'[Main] \notin {"free", "exit"} =>
           /\ pc[Main] \notin {"free", "exit"}
           /\ tail' = IF next[First] = Null THEN Null ELSE tail
  PROVE  ListOK'
<1>1. /\ queue \in Seq(Tasks) /\ Len(queue) \in Nat \ {0}
      /\ First = queue[1]
  BY DEF IInv, TypeOK, DataOK, ListOK
<1>2. /\ Len(queue') = Len(queue) - 1
      /\ \A i \in 1..Len(queue') : queue'[i] = queue[i + 1]
      /\ queue' = <<>> <=> Len(queue) = 1
      /\ Len(queue') \in Nat
      /\ \A i \in 1..Len(queue) : queue[i] \in Tasks
  <2>1. /\ Tail(queue) \in Seq(Tasks)
        /\ Len(Tail(queue)) = Len(queue) - 1
        /\ \A i \in 1..Len(Tail(queue)) : Tail(queue)[i] = queue[i + 1]
    BY <1>1, HeadTailProperties
  <2>2. Tail(queue) = <<>> <=> Len(Tail(queue)) = 0
    BY <2>1, EmptySeq
  <2>3. \A i \in 1..Len(queue) : queue[i] \in Tasks
    BY <1>1
  <2>4. Len(queue') = Len(queue) - 1 /\ Len(queue') \in Nat
    BY <1>1, <2>1
  <2>5. queue' = <<>> <=> Len(queue) = 1
    BY <1>1, <2>1, <2>2
  <2> QED
    BY <2>1, <2>3, <2>4, <2>5
<1>3. \A i \in 1..(Len(queue) - 1) : next[queue[i]] = queue[i + 1]
  BY DEF IInv, ListOK
<1>4. next[queue[Len(queue)]] = Null
  BY DEF IInv, ListOK
<1>5. \A i \in 1..(Len(queue') - 1) : next'[queue'[i]] = queue'[i + 1]
  BY <1>1, <1>2, <1>3
<1>6. (queue' = <<>>) <=> (First' = Null)
  <2>1. CASE Len(queue) = 1
    BY <2>1, <1>1, <1>2, <1>4
  <2>2. CASE Len(queue) # 1
    BY <2>2, <1>1, <1>2, <1>3
  <2> QED
    BY <2>1, <2>2
<1>7. queue' # <<>> => /\ First' = queue'[1]
                       /\ queue'[Len(queue')] = queue[Len(queue)]
  BY <1>1, <1>2, <1>3
<1>8. queue' # <<>> => next'[queue'[Len(queue')]] = Null
  BY <1>4, <1>7
<1>9. pc'[Main] \notin {"free", "exit"} =>
        tail' = IF queue' = <<>> THEN Null ELSE queue'[Len(queue')]
  BY <1>1, <1>6, <1>7 DEF IInv, ListOK
<1> QED
  BY <1>5, <1>6, <1>7, <1>8, <1>9 DEF IInv, ListOK

(* Every step keeps the pointers in step with the FIFO.                    *)
LEMMA ListStep == IInv /\ [Next]_vars => ListOK'
<1> SUFFICES ASSUME IInv, [Next]_vars PROVE ListOK'
  OBVIOUS
<1>0. TypeOK /\ ControlOK /\ ListOK /\ OneOwner
  BY DEF IInv
<1> USE <1>0 DEF TypeOK, DataOK, PcOK, MainPC, WorkerPC, ControlOK, AllJoined,
                 Holding, Adding, InTask, Unlock, Move, list
<1>1. ASSUME NEW p \in Threads, Acquire(p) \/ SpuriousWake(p) PROVE ListOK'
  BY <1>1 DEF Acquire, Lock, SpuriousWake, ListOK, First
<1>2. ASSUME NEW p \in Threads, AddBody(p) PROVE ListOK'
  BY <1>2, ListAddBody
<1>3. ASSUME NEW p \in Threads, NEW t \in Tasks, CallAdd(p, t) PROVE ListOK'
  <2>1. t \notin Queued /\ \A q \in Threads : new[q] # t
    BY <1>3 DEF CallAdd, OneOwner, Owned
  <2>2. \A i \in 1..Len(queue) : queue[i] # t /\ queue[i] \in Tasks
    BY <2>1 DEF Queued
  <2>3. /\ First' = First /\ queue' = queue /\ tail' = tail
        /\ pc'[Main] \in {"free", "exit"} <=> pc[Main] \in {"free", "exit"}
    BY <1>3 DEF CallAdd, First
  <2>4. \A i \in 1..Len(queue) : next'[queue[i]] = next[queue[i]]
    BY <1>3, <2>2 DEF CallAdd
  <2>5. \A q \in Threads : new'[q] # Null => next'[new'[q]] = Null
    BY <1>3, <2>1 DEF CallAdd, ListOK
  <2>6. Len(queue) \in Nat /\ (queue # <<>> => Len(queue) \in 1..Len(queue))
    OBVIOUS
  <2>7. \A i \in 1..(Len(queue) - 1) : i \in 1..Len(queue)
    BY <2>6
  <2> QED
    BY <2>3, <2>4, <2>5, <2>6, <2>7 DEF ListOK
<1>4. ASSUME NEW w \in Workers,
             CreateWorker(w) \/ FuncReturns(w) \/ WorkSleep(w) \/ WorkExit(w)
      PROVE ListOK'
  BY <1>4 DEF CreateWorker, FuncReturns, WorkSleep, WorkExit, ListOK, First
<1>5. ASSUME NEW w \in Workers, WorkTake(w) PROVE ListOK'
  <2>1. /\ pc[Main] \notin {"free", "exit"} /\ pc'[Main] = pc[Main]
        /\ First = head /\ First' = head'
    BY <1>5 DEF WorkTake, First
  <2> QED
    BY <1>5, <2>1, ListTail DEF WorkTake, UnlinkHead, ListOK
<1>6. ASSUME NEW w \in Workers, WorkFinish(w) PROVE ListOK'
  BY <1>6 DEF WorkFinish, WakeWaiter, ListOK, First
<1>7. CASE InitDone \/ WaitSleep \/ WaitReturn \/ CallWait \/ CallDestroy
  BY <1>7 DEF InitDone, WaitSleep, WaitReturn, CallWait, CallDestroy, ListOK,
              First
<1>8. CASE Terminate
  BY <1>8 DEF Terminate, WakeWorkers, ListOK, First
<1>9. CASE Join
  BY <1>9 DEF Join, ListOK, First
<1>10. CASE FreeTask
  <2>1. First = task[Main] /\ First' = next[First] /\ queue # <<>>
    BY <1>10 DEF FreeTask, First, ListOK
  <2> QED
    BY <1>10, <2>1, ListTail DEF FreeTask
<1>11. CASE FreePool
  BY <1>11 DEF FreePool, ListOK, First
<1>12. CASE UNCHANGED vars
  BY <1>12 DEF vars, ListOK, First
<1> QED
  BY <1>1, <1>2, <1>3, <1>4, <1>5, <1>6, <1>7, <1>8, <1>9, <1>10, <1>11,
     <1>12
     DEF Next, WorkerStep, MainStep, Terminated

-----------------------------------------------------------------------------
(* The set of queued tasks after an append and after the head is removed.  *)
LEMMA QueuedAppend ==
  ASSUME NEW n \in Tasks, queue \in Seq(Tasks), queue' = Append(queue, n)
  PROVE  Queued' = Queued \cup {n}
<1>1. /\ Len(queue) \in Nat /\ Len(queue') = Len(queue) + 1
      /\ \A i \in 1..Len(queue) : queue'[i] = queue[i]
      /\ queue'[Len(queue) + 1] = n
  OBVIOUS
<1>2. ASSUME NEW i \in 1..Len(queue') PROVE queue'[i] \in Queued \cup {n}
  <2>1. i = Len(queue) + 1 \/ i \in 1..Len(queue)
    BY <1>1, <1>2
  <2> QED
    BY <2>1, <1>1 DEF Queued
<1>3. ASSUME NEW t \in Queued \cup {n} PROVE t \in Queued'
  <2>1. CASE t = n
    BY <2>1, <1>1 DEF Queued
  <2>2. CASE t \in Queued
    <3>1. PICK i \in 1..Len(queue) : t = queue[i]
      BY <2>2 DEF Queued
    <3>2. i \in 1..Len(queue') /\ queue'[i] = t
      BY <3>1, <1>1
    <3> QED
      BY <3>2 DEF Queued
  <2> QED
    BY <1>3, <2>1, <2>2
<1> QED
  BY <1>2, <1>3 DEF Queued

(* Taking the first task leaves those behind it.                           *)
LEMMA QueuedTail ==
  ASSUME queue \in Seq(Tasks), queue # <<>>, queue' = Tail(queue),
         \A i, j \in 1..Len(queue) : queue[i] = queue[j] => i = j
  PROVE  /\ Queued' = Queued \ {queue[1]}
         /\ queue[1] \in Queued
         /\ \A i, j \in 1..Len(queue') : queue'[i] = queue'[j] => i = j
<1>1. /\ Len(queue) \in Nat \ {0} /\ Len(queue') = Len(queue) - 1
      /\ \A i \in 1..Len(queue') : queue'[i] = queue[i + 1]
  <2>1. Len(queue) \in Nat \ {0}
    BY EmptySeq
  <2> QED
    BY <2>1, HeadTailProperties
<1>2. ASSUME NEW i \in 1..Len(queue')
      PROVE  queue'[i] \in Queued \ {queue[1]}
  <2>1. i + 1 \in 1..Len(queue) /\ 1 \in 1..Len(queue) /\ i + 1 # 1
    BY <1>1
  <2>2. queue'[i] = queue[i + 1]
    BY <1>1
  <2> QED
    BY <2>1, <2>2 DEF Queued
<1>3. ASSUME NEW t \in Queued \ {queue[1]} PROVE t \in Queued'
  <2>1. PICK i \in 1..Len(queue) : t = queue[i]
    BY <1>3 DEF Queued
  <2>2. i - 1 \in 1..Len(queue') /\ (i - 1) + 1 = i
    BY <2>1, <1>1
  <2>3. queue'[i - 1] = t
    BY <2>1, <2>2, <1>1
  <2> QED
    BY <2>2, <2>3 DEF Queued
<1>4. ASSUME NEW i \in 1..Len(queue'), NEW j \in 1..Len(queue'),
             queue'[i] = queue'[j]
      PROVE  i = j
  <2>1. /\ i \in Int /\ j \in Int
        /\ i + 1 \in 1..Len(queue) /\ j + 1 \in 1..Len(queue)
    BY <1>1
  <2>2. queue[i + 1] = queue[j + 1]
    BY <1>1, <1>4
  <2> QED
    BY <2>1, <2>2
<1>5. Queued' = Queued \ {queue[1]}
  <2>1. Queued' \subseteq Queued \ {queue[1]}
    BY <1>2 DEF Queued
  <2>2. Queued \ {queue[1]} \subseteq Queued'
    BY <1>3
  <2> QED
    BY <2>1, <2>2
<1>6. queue[1] \in Queued
  BY <1>1 DEF Queued
<1> QED
  BY <1>4, <1>5, <1>6

(* Every step leaves each live block with exactly one owner.               *)
LEMMA OwnerStep == IInv /\ [Next]_vars => OneOwner'
<1> SUFFICES ASSUME IInv, [Next]_vars PROVE OneOwner'
  OBVIOUS
<1>0. TypeOK /\ ControlOK /\ ListOK /\ OneOwner
  BY DEF IInv
<1>a. Queued \subseteq Tasks
  BY <1>0 DEF Queued, TypeOK, DataOK
<1> USE <1>0 DEF TypeOK, DataOK, Owned
<1>1. ASSUME UNCHANGED <<mem, task, new, queue>> PROVE OneOwner'
  BY <1>1 DEF OneOwner, Queued
<1>2. ASSUME NEW p \in Threads, AddBody(p) PROVE OneOwner'
  <2>1. /\ new[p] \in Tasks /\ new' = [new EXCEPT ![p] = Null]
        /\ mem' = mem /\ task' = task /\ queue' = Append(queue, new[p])
    BY <1>2 DEF AddBody, ControlOK, Adding
  <2>2. Queued' = Queued \cup {new[p]}
    BY <2>1, QueuedAppend
  <2>3. new[p] \notin Queued
    BY DEF OneOwner
  <2>4. \A i, j \in 1..Len(queue') : queue'[i] = queue'[j] => i = j
    <3>1. /\ Len(queue) \in Nat /\ Len(queue') = Len(queue) + 1
          /\ \A i \in 1..Len(queue) :
                queue'[i] = queue[i] /\ queue'[i] \in Queued
          /\ queue'[Len(queue) + 1] = new[p]
      BY <2>1 DEF Queued
    <3>2. \A i \in 1..Len(queue') : i = Len(queue) + 1 \/ i \in 1..Len(queue)
      BY <3>1
    <3> QED
      BY <2>3, <3>1, <3>2 DEF OneOwner
  <2>5. ASSUME NEW t \in Tasks PROVE (mem'[t] = "live") <=> Owned(t)'
    <3>1. CASE t = new[p]
      BY <2>1, <2>2, <3>1 DEF OneOwner
    <3>2. CASE t # new[p]
      BY <2>1, <2>2, <3>2 DEF OneOwner
    <3> QED
      BY <3>1, <3>2
  <2> QED
    BY <1>a, <2>1, <2>2, <2>3, <2>4, <2>5 DEF OneOwner
<1>3. ASSUME NEW p \in Threads, NEW t \in Tasks, CallAdd(p, t)
      PROVE OneOwner'
  <2>1. /\ new' = [new EXCEPT ![p] = t] /\ mem' = [mem EXCEPT ![t] = "live"]
        /\ mem[t] = "unused" /\ queue' = queue /\ task' = task
        /\ pc[p] \notin Adding
    BY <1>3 DEF CallAdd, Adding
  <2>2. /\ t \notin Queued /\ \A q \in Threads : new[q] # t
        /\ \A w \in Workers : task[w] # t
    BY <2>1 DEF OneOwner
  <2>3. Queued' = Queued /\ new[p] = Null
    BY <2>1 DEF Queued, ControlOK
  <2>4. ASSUME NEW s \in Tasks PROVE (mem'[s] = "live") <=> Owned(s)'
    <3>1. CASE s = t
      BY <2>1, <3>1
    <3>2. CASE s # t
      BY <2>1, <2>3, <3>2 DEF OneOwner
    <3> QED
      BY <3>1, <3>2
  <2> QED
    BY <2>1, <2>2, <2>3, <2>4 DEF OneOwner
<1>4. ASSUME NEW w \in Workers, WorkTake(w) PROVE OneOwner'
  <2>1. /\ pc[Main] \notin {"free", "exit"} /\ task[w] = Null
        /\ task' = [task EXCEPT ![w] = head] /\ mem' = mem /\ new' = new
        /\ queue' = Tail(queue) /\ head # Null
    BY <1>4 DEF WorkTake, ControlOK, AllJoined, InTask
  <2>2. queue # <<>> /\ head = queue[1]
    BY <2>1 DEF ListOK, First
  <2>3. /\ Queued' = Queued \ {head} /\ head \in Queued
        /\ \A i, j \in 1..Len(queue') : queue'[i] = queue'[j] => i = j
    BY <2>1, <2>2, QueuedTail DEF OneOwner
  <2>4. ASSUME NEW t \in Tasks PROVE (mem'[t] = "live") <=> Owned(t)'
    <3>1. CASE t = head
      BY <2>1, <2>3, <3>1 DEF OneOwner
    <3>2. CASE t # head
      BY <2>1, <2>3, <3>2 DEF OneOwner
    <3> QED
      BY <3>1, <3>2
  <2> QED
    BY <2>1, <2>3, <2>4 DEF OneOwner
<1>5. ASSUME NEW w \in Workers, WorkFinish(w) PROVE OneOwner'
  <2>1. /\ task[w] \in Tasks /\ task' = [task EXCEPT ![w] = Null]
        /\ mem' = [mem EXCEPT ![task[w]] = "freed"]
        /\ new' = new /\ queue' = queue /\ Queued' = Queued
    BY <1>5 DEF WorkFinish, ControlOK, InTask, Free, Queued
  <2>2. /\ task[w] \notin Queued /\ \A q \in Threads : new[q] # task[w]
        /\ \A v \in Workers : task[v] = task[w] => v = w
    BY <2>1 DEF OneOwner
  <2>3. ASSUME NEW t \in Tasks PROVE (mem'[t] = "live") <=> Owned(t)'
    <3>1. CASE t = task[w]
      BY <2>1, <2>2, <3>1
    <3>2. CASE t # task[w]
      BY <2>1, <3>2 DEF OneOwner
    <3> QED
      BY <3>1, <3>2
  <2> QED
    BY <1>a, <2>1, <2>2, <2>3 DEF OneOwner
<1>6. CASE Join
  BY <1>6 DEF Join, OneOwner, Queued
<1>7. CASE FreeTask
  <2>1. /\ queue # <<>> /\ task[Main] = queue[1] /\ queue' = Tail(queue)
        /\ mem' = [mem EXCEPT ![task[Main]] = "freed"] /\ new' = new
        /\ \A w \in Workers : task'[w] = task[w]
    BY <1>7 DEF FreeTask, Free, ListOK, First
  <2>2. /\ Queued' = Queued \ {task[Main]} /\ task[Main] \in Queued
        /\ \A i, j \in 1..Len(queue') : queue'[i] = queue'[j] => i = j
    BY <2>1, QueuedTail DEF OneOwner
  <2>3. ASSUME NEW t \in Tasks PROVE (mem'[t] = "live") <=> Owned(t)'
    <3>1. CASE t = task[Main]
      BY <2>1, <2>2, <1>a, <3>1 DEF OneOwner
    <3>2. CASE t # task[Main]
      BY <2>1, <2>2, <3>2 DEF OneOwner
    <3> QED
      BY <3>1, <3>2
  <2> QED
    BY <2>1, <2>2, <2>3 DEF OneOwner
<1>8. Next \/ UNCHANGED vars
  OBVIOUS
<1> QED
  BY <1>1, <1>2, <1>3, <1>4, <1>5, <1>6, <1>7, <1>8
     DEF Next, Acquire, Lock, SpuriousWake, CreateWorker, FuncReturns,
         WorkerStep, WorkSleep, WorkExit, MainStep, InitDone, WaitSleep,
         WaitReturn, Terminate, FreePool, CallWait, CallDestroy, Terminated,
         vars, list

-----------------------------------------------------------------------------
(* running_thd_count keeps counting the busy workers.                      *)
LEMMA CountStep == IInv /\ [Next]_vars => CountOK'
<1> SUFFICES ASSUME IInv, [Next]_vars PROVE CountOK'
  OBVIOUS
<1>0. TypeOK /\ ControlOK /\ CountOK
  BY DEF IInv
<1>a. IsFiniteSet(Busy) /\ count = Cardinality(Busy)
  BY <1>0, FS_Subset DEF Busy, CountOK
<1> USE <1>0 DEF TypeOK, DataOK, PcOK, MainPC, WorkerPC, Move
<1>1. ASSUME Busy' = Busy, count' = count PROVE CountOK'
  BY <1>1 DEF CountOK
<1>2. ASSUME NEW p \in Threads, AddBody(p) PROVE CountOK'
  <2>1. Busy' = Busy
    BY <1>2 DEF Busy, InTask, AddBody, WakeWorkers
  <2> QED
    BY <1>1, <1>2, <2>1 DEF AddBody
<1>3. ASSUME NEW p \in Threads, Acquire(p) \/ SpuriousWake(p)
      PROVE CountOK'
  <2>1. Busy' = Busy
    BY <1>3 DEF Busy, InTask, Acquire, Lock, SpuriousWake
  <2> QED
    BY <1>1, <1>3, <2>1 DEF Acquire, Lock, SpuriousWake
<1>4. ASSUME NEW p \in Threads, NEW t \in Tasks, CallAdd(p, t) PROVE CountOK'
  <2>1. Busy' = Busy
    BY <1>4 DEF Busy, InTask, CallAdd
  <2> QED
    BY <1>1, <1>4, <2>1 DEF CallAdd
<1>5. ASSUME NEW w \in Workers,
             CreateWorker(w) \/ FuncReturns(w) \/ WorkSleep(w) \/ WorkExit(w)
      PROVE CountOK'
  <2>1. Busy' = Busy
    BY <1>5 DEF Busy, InTask, CreateWorker, FuncReturns, WorkSleep, WorkExit
  <2> QED
    BY <1>1, <1>5, <2>1 DEF CreateWorker, FuncReturns, WorkSleep, WorkExit
<1>6. ASSUME NEW w \in Workers, WorkTake(w) PROVE CountOK'
  <2>1. Busy' = Busy \cup {w} /\ w \notin Busy
    BY <1>6 DEF Busy, InTask, WorkTake
  <2>2. Cardinality(Busy') = Cardinality(Busy) + 1
    BY <1>a, <2>1, FS_AddElement
  <2> QED
    BY <1>a, <1>6, <2>2 DEF WorkTake, CountUp, CountOK
<1>7. ASSUME NEW w \in Workers, WorkFinish(w) PROVE CountOK'
  <2>1. Busy' = Busy \ {w} /\ w \in Busy
    BY <1>7 DEF Busy, InTask, WorkFinish, WakeWaiter
  <2>2. Cardinality(Busy') = Cardinality(Busy) - 1
    BY <1>a, <2>1, FS_RemoveElement
  <2> QED
    BY <1>a, <1>7, <2>2 DEF WorkFinish, CountDown, CountOK
<1>8. CASE MainStep \/ CallWait \/ CallDestroy
  <2>1. Busy' = Busy
    BY <1>8 DEF Busy, InTask, MainStep, InitDone, WaitSleep, WaitReturn,
                Terminate, WakeWorkers, Join, FreeTask, FreePool, CallWait,
                CallDestroy
  <2> QED
    BY <1>1, <1>8, <2>1 DEF MainStep, InitDone, WaitSleep, WaitReturn,
       Terminate, Join, FreeTask, FreePool, CallWait, CallDestroy
<1>9. CASE UNCHANGED vars
  BY <1>1, <1>9 DEF vars, Busy
<1> QED
  BY <1>2, <1>3, <1>4, <1>5, <1>6, <1>7, <1>8, <1>9
     DEF Next, WorkerStep, Terminated

-----------------------------------------------------------------------------
(* No step loses a wakeup.                                                 *)
LEMMA WakeStep == IInv /\ [Next]_vars => NoWorkerMissed' /\ NoWaiterMissed'
<1> SUFFICES ASSUME IInv, [Next]_vars
             PROVE  NoWorkerMissed' /\ NoWaiterMissed'
  OBVIOUS
<1>0. TypeOK /\ ControlOK /\ NoWorkerMissed /\ NoWaiterMissed
  BY DEF IInv
<1> USE <1>0 DEF TypeOK, DataOK, PcOK, MainPC, WorkerPC, Move, list,
                 NoWorkerMissed, NoWaiterMissed, WorkLeft
<1> DEFINE Awake == NoWorkerMissed' /\ NoWaiterMissed'
<1>1. ASSUME NEW p \in Threads, Acquire(p) \/ SpuriousWake(p) PROVE Awake
  BY <1>1 DEF Acquire, Lock, SpuriousWake
<1>2. ASSUME NEW p \in Threads, AddBody(p) PROVE Awake
  <2>1. new[p] # Null /\ head' # Null
    BY <1>2 DEF AddBody, LinkTask, ControlOK, Adding
  <2> QED
    BY <1>2, <2>1 DEF AddBody, WakeWorkers
<1>3. ASSUME NEW p \in Threads, NEW t \in Tasks, CallAdd(p, t) PROVE Awake
  BY <1>3 DEF CallAdd
<1>4. ASSUME NEW w \in Workers,
             CreateWorker(w) \/ FuncReturns(w) \/ WorkSleep(w) \/ WorkExit(w)
      PROVE Awake
  BY <1>4 DEF CreateWorker, FuncReturns, WorkSleep, WorkExit
<1>5. ASSUME NEW w \in Workers, WorkTake(w) PROVE Awake
  BY <1>5 DEF WorkTake, CountUp
<1>6. ASSUME NEW w \in Workers, WorkFinish(w) PROVE Awake
  BY <1>6 DEF WorkFinish, CountDown, WakeWaiter
<1>7. CASE MainStep \/ CallWait \/ CallDestroy
  BY <1>7 DEF MainStep, InitDone, WaitSleep, WaitReturn, Terminate,
              WakeWorkers, Join, FreeTask, FreePool, CallWait, CallDestroy
<1>8. CASE UNCHANGED vars
  BY <1>8 DEF vars
<1> QED
  BY <1>1, <1>2, <1>3, <1>4, <1>5, <1>6, <1>7, <1>8
     DEF Next, WorkerStep, Terminated

(* Until the walk of tpool_destroy, only finished tasks are freed.         *)
LEMMA FateStep == IInv /\ [Next]_vars => FateOK'
<1> SUFFICES ASSUME IInv, [Next]_vars PROVE FateOK'
  OBVIOUS
<1>0. TypeOK /\ ControlOK /\ FateOK
  BY DEF IInv
<1> USE <1>0 DEF TypeOK, DataOK, PcOK, MainPC, WorkerPC, Move, FateOK
<1>1. ASSUME NEW p \in Threads,
             Acquire(p) \/ SpuriousWake(p) \/ AddBody(p)
      PROVE FateOK'
  BY <1>1 DEF Acquire, Lock, SpuriousWake, AddBody, WakeWorkers
<1>2. ASSUME NEW p \in Threads, NEW t \in Tasks, CallAdd(p, t) PROVE FateOK'
  BY <1>2 DEF CallAdd
<1>3. ASSUME NEW w \in Workers,
             CreateWorker(w) \/ FuncReturns(w) \/ WorkSleep(w) \/ WorkExit(w)
      PROVE FateOK'
  BY <1>3 DEF CreateWorker, FuncReturns, WorkSleep, WorkExit
<1>4. ASSUME NEW w \in Workers, WorkTake(w) PROVE FateOK'
  BY <1>4 DEF WorkTake
<1>5. ASSUME NEW w \in Workers, WorkFinish(w) PROVE FateOK'
  BY <1>5 DEF WorkFinish, Free, WakeWaiter, ControlOK, InTask
<1>6. CASE MainStep \/ CallWait \/ CallDestroy
  BY <1>6 DEF MainStep, InitDone, WaitSleep, WaitReturn, Terminate, Free,
              WakeWorkers, Join, FreeTask, FreePool, CallWait, CallDestroy
<1>7. CASE UNCHANGED vars
  BY <1>7 DEF vars
<1> QED
  BY <1>1, <1>2, <1>3, <1>4, <1>5, <1>6, <1>7
     DEF Next, WorkerStep, Terminated

-----------------------------------------------------------------------------
(* The inductive invariant holds of every reachable state of the pool, for *)
(* any number of workers and of tasks.                                     *)
THEOREM Invariance == Spec => []IInv
<1>1. IInv /\ [Next]_vars => IInv'
  BY TypeStep, ControlStep, ListStep, OwnerStep, CountStep, WakeStep, FateStep
     DEF IInv
<1> QED
  BY <1>1, InitInv, PTL DEF Spec

(* Every variable of the pool keeps its type.                              *)
THEOREM TypeCorrect == Spec => []TypeOK
<1>1. IInv => TypeOK
  BY DEF IInv
<1> QED
  BY <1>1, Invariance, PTL

(* The linked list is the FIFO of the tasks added and not yet taken.       *)
THEOREM ListCorrect == Spec => []ListOK
<1>1. IInv => ListOK
  BY DEF IInv
<1> QED
  BY <1>1, Invariance, PTL

(* No block leaks, is freed while a thread holds it, or has two owners.    *)
THEOREM MemoryCorrect == Spec => []OneOwner
<1>1. IInv => OneOwner
  BY DEF IInv
<1> QED
  BY <1>1, Invariance, PTL

(* No wakeup is lost on task_added_cond: no worker sleeps with work to do. *)
THEOREM NoLostWakeup == Spec => []NoWorkerMissed
<1>1. IInv => NoWorkerMissed
  BY DEF IInv
<1> QED
  BY <1>1, Invariance, PTL

(* Nor on task_done_cond: tpool_wait does not sleep on an idle pool.       *)
THEOREM NoLostDoneSignal == Spec => []NoWaiterMissed
<1>1. IInv => NoWaiterMissed
  BY DEF IInv
<1> QED
  BY <1>1, Invariance, PTL

(* tpool_destroy leaves no thread in the pool and no block allocated.      *)
THEOREM DestroyIsClean == Spec => []CleanExit
<1>1. IInv => CleanExit
  <2> SUFFICES ASSUME IInv, pc[Main] = "exit"
               PROVE  /\ AllJoined /\ lock = Null
                      /\ \A t \in Tasks : mem[t] # "live"
    BY DEF CleanExit, AllJoined
  <2>0. TypeOK /\ ControlOK /\ ListOK /\ OneOwner
    BY DEF IInv
  <2>1. AllJoined
    BY <2>0 DEF ControlOK
  <2>2. lock = Null
    BY <2>0, <2>1 DEF TypeOK, DataOK, ControlOK, Holding, AllJoined
  <2>3. Queued = {}
    <3>1. queue = <<>>
      BY <2>0 DEF ControlOK, ListOK, First
    <3> QED
      BY <3>1 DEF Queued
  <2>4. /\ \A p \in Threads : new[p] = Null
        /\ \A w \in Workers : task[w] = Null
    BY <2>0, <2>1 DEF ControlOK, Adding, InTask, AllJoined
  <2> QED
    BY <2>0, <2>1, <2>2, <2>3, <2>4 DEF OneOwner, Owned
<1> QED
  BY <1>1, Invariance, PTL

-----------------------------------------------------------------------------
(* With an empty list and a zero count nothing is left to do.              *)
LEMMA NothingLeft ==
  ASSUME IInv, pc[Main] = "wait_test", ~WorkLeft
  PROVE  /\ queue = <<>>
         /\ \A w \in Workers : task[w] = Null
         /\ \A t \in Tasks : mem[t] # "unused" => t \in finished
<1>0. TypeOK /\ ControlOK /\ ListOK /\ OneOwner /\ CountOK /\ FateOK
  BY DEF IInv
<1>1. queue = <<>>
  BY <1>0 DEF ListOK, First, WorkLeft
<1>2. Busy = {}
  BY <1>0, FS_Subset, FS_EmptySet DEF Busy, CountOK, WorkLeft
<1>3. \A w \in Workers : task[w] = Null
  BY <1>0, <1>2 DEF ControlOK, Busy
<1>4. \A p \in Threads : new[p] = Null
  BY <1>0, <1>2 DEF ControlOK, Busy, Adding, InTask
<1>5. \A t \in Tasks : mem[t] # "live"
  BY <1>0, <1>1, <1>3, <1>4 DEF OneOwner, Owned, Queued
<1> QED
  BY <1>0, <1>1, <1>3, <1>5 DEF FateOK, TypeOK, DataOK

(* When tpool_wait returns, every task ever added has run to its end.      *)
THEOREM WaitCorrect == Spec => WaitIsBarrier
<1>1. IInv /\ [Next]_vars =>
        [pc[Main] = "wait_test" /\ pc'[Main] = "idle"
           => \A t \in Tasks : mem[t] # "unused" => t \in finished]_vars
  <2> SUFFICES ASSUME IInv, Next, pc[Main] = "wait_test", pc'[Main] = "idle"
               PROVE  \A t \in Tasks : mem[t] # "unused" => t \in finished
    OBVIOUS
  <2>1. WaitReturn
    BY DEF Next, Acquire, Lock, AddBody, SpuriousWake, CallAdd, CreateWorker,
           WorkerStep, WorkSleep, WorkTake, WorkExit, WorkFinish, FuncReturns,
           MainStep, InitDone, WaitSleep, Terminate, Join, FreeTask, FreePool,
           CallWait, CallDestroy, Terminated, Move, WakeWorkers, WakeWaiter,
           vars, IInv, TypeOK, PcOK
  <2> QED
    BY <2>1, NothingLeft DEF WaitReturn
<1> QED
  BY <1>1, Invariance, PTL DEF Spec, WaitIsBarrier

-----------------------------------------------------------------------------
(* The mapped variables that a step does not touch.                        *)
LEMMA Stutter ==
  ASSUME IInv, UNCHANGED <<task, queue, finished, mem, term>>,
         (pc[Main] \in {"wait_lock", "wait_test", "done_cv"})
           = (pc'[Main] \in {"wait_lock", "wait_test", "done_cv"})
  PROVE  UNCHANGED TP!vars
BY DEF TP!vars

(* Tasks the abstract pool has accepted, seen from the concrete one.       *)
LEMMA AcceptedTasks ==
  ASSUME IInv, NEW t \in Tasks, t \in TP!Accepted
  PROVE  mem[t] # "unused" /\ \A p \in Threads : new[p] # t
<1>0. TypeOK /\ ControlOK /\ OneOwner /\ FateOK
  BY DEF IInv
<1>1. CASE t \in Queued
  BY <1>0, <1>1 DEF OneOwner, Owned
<1>2. CASE t \in TP!Running
  <2>1. PICK w \in Workers : task[w] = t
    BY <1>2 DEF TP!Running
  <2> QED
    BY <1>0, <2>1 DEF OneOwner, Owned
<1>3. CASE mem[t] = "freed"
  BY <1>0, <1>3 DEF OneOwner, Owned
<1> QED
  BY <1>0, <1>1, <1>2, <1>3 DEF TP!Accepted, TP!Queued, Queued, FateOK

(* Every step of the pool is a step of the abstract one or changes nothing *)
(* that it has.                                                            *)
LEMMA StepRefines == IInv /\ [Next]_vars => [TP!Next]_(TP!vars)
<1> SUFFICES ASSUME IInv, [Next]_vars PROVE TP!Next \/ UNCHANGED TP!vars
  OBVIOUS
<1>0. TypeOK /\ ControlOK /\ ListOK /\ OneOwner /\ FateOK
  BY DEF IInv
<1> DEFINE Refines == TP!Next \/ UNCHANGED TP!vars
<1> USE <1>0 DEF TypeOK, DataOK, PcOK, MainPC, WorkerPC
<1>1. ASSUME NEW p \in Threads, Acquire(p) \/ SpuriousWake(p) PROVE Refines
  BY <1>1, Stutter DEF Acquire, Lock, SpuriousWake, Move
<1>2. ASSUME NEW p \in Threads, AddBody(p) PROVE Refines
  <2>1. /\ new[p] \in Tasks /\ queue' = Append(queue, new[p])
        /\ UNCHANGED <<task, finished, mem, term>>
        /\ (pc[Main] \in {"wait_lock", "wait_test", "done_cv"})
             = (pc'[Main] \in {"wait_lock", "wait_test", "done_cv"})
    BY <1>2 DEF AddBody, ControlOK, Adding, WakeWorkers
  <2>2. new[p] \notin TP!Accepted
    BY <2>1, AcceptedTasks
  <2>3. \/ TP!Running # {}
        \/ ~(pc[Main] \in {"wait_lock", "wait_test", "done_cv"}) /\ ~term
    <3>1. CASE p = Main
      BY <1>2, <3>1 DEF AddBody, ControlOK
    <3>2. CASE p \in Workers
      <4>1. task[p] # Null
        BY <1>2, <3>2 DEF AddBody, ControlOK, InTask
      <4> QED
        BY <3>2, <4>1 DEF TP!Running
    <3> QED
      BY <3>1, <3>2
  <2>4. TP!Add(new[p])
    BY <2>1, <2>2, <2>3 DEF TP!Add
  <2> QED
    BY <2>1, <2>4 DEF TP!Next
<1>3. ASSUME NEW p \in Threads, NEW t \in Tasks, CallAdd(p, t) PROVE Refines
  <2>1. /\ UNCHANGED <<task, queue, finished, term>>
        /\ (pc[Main] \in {"wait_lock", "wait_test", "done_cv"})
             = (pc'[Main] \in {"wait_lock", "wait_test", "done_cv"})
    BY <1>3 DEF CallAdd, Move
  <2>2. {s \in Tasks : mem'[s] = "freed"} = {s \in Tasks : mem[s] = "freed"}
    BY <1>3 DEF CallAdd
  <2> QED
    BY <2>1, <2>2 DEF TP!vars
<1>4. ASSUME NEW w \in Workers,
             CreateWorker(w) \/ FuncReturns(w) \/ WorkSleep(w) \/ WorkExit(w)
      PROVE Refines
  BY <1>4, Stutter DEF CreateWorker, FuncReturns, WorkSleep, WorkExit, Move
<1>5. ASSUME NEW w \in Workers, WorkTake(w) PROVE Refines
  <2>1. /\ ~term /\ task' = [task EXCEPT ![w] = head] /\ queue' = Tail(queue)
        /\ head # Null /\ task[w] = Null /\ pc'[Main] = pc[Main]
        /\ UNCHANGED <<finished, mem, term>>
    BY <1>5 DEF WorkTake, ControlOK, InTask, Move
  <2>2. queue # <<>> /\ head = Head(queue)
    BY <2>1 DEF ListOK, First, ControlOK
  <2>3. TP!Start(w)
    BY <2>1, <2>2 DEF TP!Start
  <2> QED
    BY <2>3 DEF TP!Next
<1>6. ASSUME NEW w \in Workers, WorkFinish(w) PROVE Refines
  <2>1. /\ task[w] \in Tasks /\ task' = [task EXCEPT ![w] = Null]
        /\ mem' = [mem EXCEPT ![task[w]] = "freed"]
        /\ finished' = finished \cup {task[w]}
        /\ UNCHANGED <<queue, term>>
        /\ (pc[Main] \in {"wait_lock", "wait_test", "done_cv"})
             = (pc'[Main] \in {"wait_lock", "wait_test", "done_cv"})
    BY <1>6 DEF WorkFinish, Free, ControlOK, InTask, WakeWaiter, Move
  <2>2. {t \in Tasks : mem'[t] = "freed"}
          = {t \in Tasks : mem[t] = "freed"} \cup {task[w]}
    BY <2>1
  <2>3. {t \in Tasks : mem'[t] = "freed"} \ finished'
          = {t \in Tasks : mem[t] = "freed"} \ finished
    <3>1. mem[task[w]] # "freed"
      BY <2>1 DEF OneOwner, Owned
    <3> QED
      BY <2>1, <2>2, <3>1
  <2>4. TP!Finish(w)
    BY <2>1, <2>3 DEF TP!Finish
  <2> QED
    BY <2>4 DEF TP!Next
<1>7. CASE InitDone \/ WaitSleep \/ FreePool \/ CallDestroy
  BY <1>7, Stutter DEF InitDone, WaitSleep, FreePool, CallDestroy, Move
<1>8. CASE CallWait
  <2>1. TP!CallWait
    BY <1>8 DEF CallWait, Move, ControlOK, TP!CallWait
  <2> QED
    BY <2>1 DEF TP!Next
<1>9. CASE WaitReturn
  <2>1. queue = <<>> /\ TP!Running = {}
    BY <1>9, NothingLeft DEF WaitReturn, TP!Running
  <2>2. TP!ReturnWait
    BY <1>9, <2>1 DEF WaitReturn, Move, TP!ReturnWait
  <2> QED
    BY <2>2 DEF TP!Next
<1>10. CASE Terminate
  <2>1. TP!Close
    BY <1>10 DEF Terminate, WakeWorkers, ControlOK, TP!Close
  <2> QED
    BY <2>1 DEF TP!Next
<1>11. CASE Join
  <2>1. [w \in Workers |-> task'[w]] = [w \in Workers |-> task[w]]
    BY <1>11 DEF Join
  <2> QED
    BY <1>11, <2>1 DEF Join, Move, TP!vars
<1>12. CASE FreeTask
  <2>1. /\ queue # <<>> /\ task[Main] = Head(queue) /\ queue' = Tail(queue)
        /\ mem' = [mem EXCEPT ![task[Main]] = "freed"]
        /\ task[Main] \in Tasks
        /\ UNCHANGED <<pc, finished, term>>
        /\ term /\ AllJoined
    BY <1>12 DEF FreeTask, Free, ListOK, First, ControlOK
  <2>2. task[Main] \notin finished
    <3>1. task[Main] \in Queued
      BY <2>1, QueuedTail DEF OneOwner
    <3> QED
      BY <3>1, <2>1 DEF OneOwner, Owned, FateOK
  <2>3. {t \in Tasks : mem'[t] = "freed"} \ finished'
          = ({t \in Tasks : mem[t] = "freed"} \ finished) \cup {Head(queue)}
    BY <2>1, <2>2
  <2>4. [w \in Workers |-> task'[w]] = [w \in Workers |-> task[w]]
    BY <1>12 DEF FreeTask
  <2>5. TP!Running = {}
    <3>1. \A w \in Workers : task[w] = Null
      BY <2>1 DEF AllJoined, ControlOK, InTask
    <3> QED
      BY <3>1 DEF TP!Running
  <2>6. TP!Drop
    BY <2>1, <2>3, <2>4, <2>5 DEF TP!Drop
  <2> QED
    BY <2>6 DEF TP!Next
<1>13. CASE UNCHANGED vars
  BY <1>13, Stutter DEF vars
<1> QED
  BY <1>1, <1>2, <1>3, <1>4, <1>5, <1>6, <1>7, <1>8, <1>9, <1>10, <1>11,
     <1>12, <1>13
     DEF Next, WorkerStep, MainStep, Terminated

(* The pool of threads, with its lock, condition variables and linked      *)
(* list, implements the abstract task pool: FIFO start, one task per       *)
(* worker, tpool_wait a barrier, nothing started after a close.            *)
THEOREM Refinement == Spec => KeepsPromise
<1>1. Init => TP!Init
  BY DEF Init, TP!Init
<1> QED
  BY <1>1, StepRefines, Invariance, PTL DEF Spec, KeepsPromise, TP!Spec
=============================================================================
