----------------------------- MODULE ThreadPool -----------------------------
(***************************************************************************)
(* hw4/my_pool.c, hw4/my_pool.h: a fixed set of worker threads, one mutex, *)
(* two condition variables and a singly linked FIFO of task_t blocks.      *)
(*                                                                         *)
(* One step is either the acquisition of the mutex or one whole critical   *)
(* section (with its unlock or its pthread_cond_wait): the mutex is the    *)
(* only way in, so nothing finer can be observed. A thread asleep in       *)
(* pthread_cond_wait is at "added_cv" or "done_cv"; it leaves by a signal, *)
(* a broadcast or spuriously, and then asks for the mutex again.           *)
(*                                                                         *)
(* The program is the one the API is for: the main thread creates the      *)
(* pool, adds, waits and destroys in any order it likes (a wait before the *)
(* destroy is not required), and the function of a task may itself call    *)
(* tpool_add. pthread_create and malloc succeed. A task_t is identified    *)
(* with the block malloc returned for it.                                  *)
(***************************************************************************)
EXTENDS Naturals, Sequences, FiniteSets

CONSTANTS Workers,  \* the n_threads threads that run tpool_worker
          Main,     \* the thread that calls tpool_init, _wait and _destroy
          Tasks,    \* task_t blocks
          Null      \* the null pointer; also "nobody" for the mutex

Threads == Workers \cup {Main}

ASSUME PoolAssumption ==
    /\ IsFiniteSet(Workers)
    /\ Workers # {}
    /\ Main \notin Workers
    /\ Null \notin Tasks \cup Threads

VARIABLES lock,     \* pool->lock: its holder, or Null
          pc,       \* where each thread is
          head,     \* pool->tasks_head
          tail,     \* pool->tasks_tail
          next,     \* next[t]: t->next
          mem,      \* mem[t]: "unused" (not malloc'd), "live" or "freed"
          count,    \* pool->running_thd_count
          term,     \* pool->term
          task,     \* the local `task` of tpool_worker and of tpool_destroy
          new,      \* the local `task` of tpool_add
          queue,    \* history: the tasks linked and not yet taken, in order
          finished  \* history: the tasks whose function ran to its end

list == <<head, tail, next>>
vars == <<lock, pc, head, tail, next, mem, count, term, task, new, queue,
          finished>>

WorkerPC == {"unborn", "work_lock", "work_test", "added_cv", "run",
             "add_lock", "add_body", "finish_lock", "finish", "exited"}
MainPC   == {"create", "idle", "add_lock", "add_body", "wait_lock",
             "wait_test", "done_cv", "term_lock", "term_body", "join",
             "free", "exit"}

(* Where a worker is while it runs a task, and where a thread has the mutex. *)
InTask  == {"run", "add_lock", "add_body", "finish_lock", "finish"}
Holding == {"create", "work_test", "add_body", "finish", "wait_test",
            "term_body"}
Adding  == {"add_lock", "add_body"}

Busy == {w \in Workers : pc[w] \in InTask}

Move(p, to) == pc' = [pc EXCEPT ![p] = to]

(* tpool_init up to line 68: the pool is set up and its mutex held. *)
Init ==
    /\ lock = Main
    /\ pc = [p \in Threads |-> IF p = Main THEN "create" ELSE "unborn"]
    /\ head = Null
    /\ tail = Null
    /\ next = [t \in Tasks |-> Null]
    /\ mem = [t \in Tasks |-> "unused"]
    /\ count = 0
    /\ term = FALSE
    /\ task = [p \in Threads |-> Null]
    /\ new = [p \in Threads |-> Null]
    /\ queue = <<>>
    /\ finished = {}

(***************************************************************************)
(* The mutex and the condition variables.                                  *)
(***************************************************************************)
Lock(p, from, to) ==
    /\ pc[p] = from
    /\ lock = Null
    /\ lock' = p
    /\ Move(p, to)
    /\ UNCHANGED <<list, mem, count, term, task, new, queue, finished>>

Unlock(p) == lock = p /\ lock' = Null

(* Operators with a suffix like _Lost are faulty variants of the operator  *)
(* they precede; no action uses them.                                      *)
WakeWorkers_Lost(p, to) == Move(p, to)

(* pthread_cond_broadcast(&task_added_cond) by p, which goes on at `to`. *)
WakeWorkers(p, to) ==
    pc' = [q \in Threads |->
             IF q = p THEN to
             ELSE IF pc[q] = "added_cv" THEN "work_lock" ELSE pc[q]]

WakeWaiter_Lost(p, to) == Move(p, to)

(* pthread_cond_signal(&task_done_cond): only the main thread waits on it. *)
WakeWaiter(p, to) ==
    pc' = [q \in Threads |->
             IF q = p THEN to
             ELSE IF pc[q] = "done_cv" THEN "wait_lock" ELSE pc[q]]

(* pthread_cond_wait may return without a signal. *)
SpuriousWake(p) ==
    /\ \/ pc[p] = "added_cv" /\ Move(p, "work_lock")
       \/ pc[p] = "done_cv" /\ Move(p, "wait_lock")
    /\ UNCHANGED <<lock, list, mem, count, term, task, new, queue, finished>>

(***************************************************************************)
(* tpool_init: the loop of pthread_create, then the unlock.                *)
(***************************************************************************)
CreateWorker(w) ==
    /\ pc[Main] = "create"
    /\ pc[w] = "unborn"
    /\ Move(w, "work_lock")
    /\ UNCHANGED <<lock, list, mem, count, term, task, new, queue, finished>>

InitDone ==
    /\ pc[Main] = "create"
    /\ \A w \in Workers : pc[w] # "unborn"
    /\ Unlock(Main)
    /\ Move(Main, "idle")
    /\ UNCHANGED <<list, mem, count, term, task, new, queue, finished>>

(***************************************************************************)
(* tpool_add, called by the main thread or by the function of a task.      *)
(***************************************************************************)
CallAdd(p, t) ==
    /\ pc[p] = IF p = Main THEN "idle" ELSE "run"
    /\ mem[t] = "unused"
    /\ mem' = [mem EXCEPT ![t] = "live"]
    /\ next' = [next EXCEPT ![t] = Null]
    /\ new' = [new EXCEPT ![p] = t]
    /\ Move(p, "add_lock")
    /\ UNCHANGED <<lock, head, tail, count, term, task, queue, finished>>

LinkTask_Front(t) ==
    /\ head' = t
    /\ tail' = IF head = Null THEN t ELSE tail
    /\ next' = [next EXCEPT ![t] = head]

LinkTask(t) ==
    IF head = Null
    THEN head' = t /\ tail' = t /\ UNCHANGED next
    ELSE /\ next' = [next EXCEPT ![tail] = t]
         /\ tail' = t
         /\ UNCHANGED head

AddBody(p) ==
    /\ pc[p] = "add_body"
    /\ LinkTask(new[p])
    /\ queue' = Append(queue, new[p])
    /\ new' = [new EXCEPT ![p] = Null]
    /\ WakeWorkers(p, IF p = Main THEN "idle" ELSE "run")
    /\ Unlock(p)
    /\ UNCHANGED <<mem, count, term, task, finished>>

(***************************************************************************)
(* tpool_worker.                                                           *)
(***************************************************************************)
WorkSleep(w) ==
    /\ pc[w] = "work_test"
    /\ ~term
    /\ head = Null
    /\ Move(w, "added_cv")
    /\ Unlock(w)
    /\ UNCHANGED <<list, mem, count, term, task, new, queue, finished>>

UnlinkHead_StaleTail == head' = next[head] /\ UNCHANGED <<tail, next>>

UnlinkHead ==
    /\ head' = next[head]
    /\ tail' = IF next[head] = Null THEN Null ELSE tail
    /\ UNCHANGED next

CountUp == count' = count + 1

WorkTake(w) ==
    /\ pc[w] = "work_test"
    /\ ~term
    /\ head # Null
    /\ task' = [task EXCEPT ![w] = head]
    /\ UnlinkHead
    /\ queue' = Tail(queue)
    /\ CountUp
    /\ Move(w, "run")
    /\ Unlock(w)
    /\ UNCHANGED <<mem, term, new, finished>>

WorkExit(w) ==
    /\ pc[w] = "work_test"
    /\ term
    /\ Move(w, "exited")
    /\ Unlock(w)
    /\ UNCHANGED <<list, mem, count, term, task, new, queue, finished>>

FuncReturns(w) ==
    /\ pc[w] = "run"
    /\ Move(w, "finish_lock")
    /\ UNCHANGED <<lock, list, mem, count, term, task, new, queue, finished>>

Free_Leak(t) == UNCHANGED mem
Free(t) == mem' = [mem EXCEPT ![t] = "freed"]

CountDown_Missing == UNCHANGED count
CountDown == count' = count - 1

(* The local `task` dangles after the free; it is cleared here because the *)
(* code assigns it before it reads it again.                               *)
WorkFinish(w) ==
    /\ pc[w] = "finish"
    /\ Free(task[w])
    /\ finished' = finished \cup {task[w]}
    /\ task' = [task EXCEPT ![w] = Null]
    /\ CountDown
    /\ IF head = Null /\ count' = 0
       THEN WakeWaiter(w, "work_lock")
       ELSE Move(w, "work_lock")
    /\ Unlock(w)
    /\ UNCHANGED <<list, term, new, queue>>

(***************************************************************************)
(* tpool_wait.                                                             *)
(***************************************************************************)
CallWait ==
    /\ pc[Main] = "idle"
    /\ Move(Main, "wait_lock")
    /\ UNCHANGED <<lock, list, mem, count, term, task, new, queue, finished>>

WorkLeft_ListOnly == head # Null
WorkLeft == head # Null \/ count # 0

WaitSleep ==
    /\ pc[Main] = "wait_test"
    /\ WorkLeft
    /\ Move(Main, "done_cv")
    /\ Unlock(Main)
    /\ UNCHANGED <<list, mem, count, term, task, new, queue, finished>>

WaitReturn ==
    /\ pc[Main] = "wait_test"
    /\ ~WorkLeft
    /\ Move(Main, "idle")
    /\ Unlock(Main)
    /\ UNCHANGED <<list, mem, count, term, task, new, queue, finished>>

(***************************************************************************)
(* tpool_destroy and tpool_terminate_threads.                              *)
(***************************************************************************)
CallDestroy ==
    /\ pc[Main] = "idle"
    /\ Move(Main, "term_lock")
    /\ UNCHANGED <<lock, list, mem, count, term, task, new, queue, finished>>

Terminate ==
    /\ pc[Main] = "term_body"
    /\ term' = TRUE
    /\ WakeWorkers(Main, "join")
    /\ Unlock(Main)
    /\ UNCHANGED <<list, mem, count, task, new, queue, finished>>

AllJoined_One == \E w \in Workers : pc[w] = "exited"
AllJoined == \A w \in Workers : pc[w] = "exited"

(* The pthread_join loop ends; the walk over the list starts. *)
Join ==
    /\ pc[Main] = "join"
    /\ AllJoined
    /\ task' = [task EXCEPT ![Main] = head]
    /\ Move(Main, "free")
    /\ UNCHANGED <<lock, list, mem, count, term, new, queue, finished>>

FreeTask ==
    /\ pc[Main] = "free"
    /\ task[Main] # Null
    /\ task' = [task EXCEPT ![Main] = next[task[Main]]]
    /\ Free(task[Main])
    /\ queue' = Tail(queue)
    /\ UNCHANGED <<lock, pc, list, count, term, new, finished>>

FreePool ==
    /\ pc[Main] = "free"
    /\ task[Main] = Null
    /\ Move(Main, "exit")
    /\ UNCHANGED <<lock, list, mem, count, term, task, new, queue, finished>>

Terminated == pc[Main] = "exit" /\ UNCHANGED vars

-----------------------------------------------------------------------------
Acquire(p) ==
    \/ Lock(p, "work_lock", "work_test")
    \/ Lock(p, "add_lock", "add_body")
    \/ Lock(p, "finish_lock", "finish")
    \/ Lock(p, "wait_lock", "wait_test")
    \/ Lock(p, "term_lock", "term_body")

WorkerStep(w) == WorkSleep(w) \/ WorkTake(w) \/ WorkExit(w) \/ WorkFinish(w)

MainStep == InitDone \/ WaitSleep \/ WaitReturn \/ Terminate \/ Join
            \/ FreeTask \/ FreePool

Next ==
    \/ \E p \in Threads : Acquire(p) \/ AddBody(p) \/ SpuriousWake(p)
    \/ \E p \in Threads, t \in Tasks : CallAdd(p, t)
    \/ \E w \in Workers : CreateWorker(w) \/ WorkerStep(w) \/ FuncReturns(w)
    \/ MainStep \/ CallWait \/ CallDestroy
    \/ Terminated

Spec == Init /\ [][Next]_vars

(* A thread that can run does run, the mutex does not starve a thread that *)
(* keeps asking for it, and the function of a task returns. Calls to the   *)
(* pool and spurious wakeups are never owed.                               *)
Fairness ==
    /\ \A p \in Threads : SF_vars(Acquire(p)) /\ WF_vars(AddBody(p))
    /\ \A w \in Workers : /\ WF_vars(CreateWorker(w))
                          /\ WF_vars(WorkerStep(w))
                          /\ WF_vars(FuncReturns(w))
    /\ WF_vars(MainStep)

FairSpec == Spec /\ Fairness
-----------------------------------------------------------------------------
PcOK ==
    /\ pc \in [Threads -> WorkerPC \cup MainPC]
    /\ pc[Main] \in MainPC
    /\ \A w \in Workers : pc[w] \in WorkerPC

DataOK ==
    /\ lock \in Threads \cup {Null}
    /\ head \in Tasks \cup {Null}
    /\ tail \in Tasks \cup {Null}
    /\ next \in [Tasks -> Tasks \cup {Null}]
    /\ mem \in [Tasks -> {"unused", "live", "freed"}]
    /\ count \in Nat
    /\ term \in BOOLEAN
    /\ task \in [Threads -> Tasks \cup {Null}]
    /\ new \in [Threads -> Tasks \cup {Null}]
    /\ queue \in Seq(Tasks)
    /\ finished \in SUBSET Tasks

(* What the variables range over.                                          *)
TypeOK == PcOK /\ DataOK

Queued == {queue[i] : i \in 1..Len(queue)}

(* The first node of the list: once tpool_destroy walks it, the walk's     *)
(* position stands for tasks_head, which still points to freed memory.     *)
First == IF pc[Main] \in {"free", "exit"} THEN task[Main] ELSE head

(* The pointers spell the FIFO: tasks_head, the next fields and tasks_tail *)
(* go through exactly the tasks that were added and not yet taken, in the  *)
(* order of the calls of tpool_add, and tasks_tail is the node that the    *)
(* next tpool_add may append to.                                           *)
ListOK ==
    /\ (queue = <<>>) <=> (First = Null)
    /\ queue # <<>> => First = queue[1]
    /\ \A i \in 1..(Len(queue) - 1) : next[queue[i]] = queue[i + 1]
    /\ queue # <<>> => next[queue[Len(queue)]] = Null
    /\ \A p \in Threads : new[p] # Null => next[new[p]] = Null
    /\ pc[Main] \notin {"free", "exit"} =>
          tail = IF queue = <<>> THEN Null ELSE queue[Len(queue)]

Owned(t) == \/ t \in Queued
            \/ \E p \in Threads : new[p] = t
            \/ \E w \in Workers : task[w] = t

(* Every malloc'd task_t that was not freed is reachable from exactly one  *)
(* place, the adder that made it, the list, or the worker that runs it;    *)
(* so a task runs at most once, no thread holds freed memory, and nothing  *)
(* is lost.                                                                *)
OneOwner ==
    /\ \A t \in Tasks : (mem[t] = "live") <=> Owned(t)
    /\ \A i, j \in 1..Len(queue) : queue[i] = queue[j] => i = j
    /\ \A p, q \in Threads : new[p] = new[q] /\ new[p] # Null => p = q
    /\ \A v, w \in Workers : task[v] = task[w] /\ task[v] # Null => v = w
    /\ \A p \in Threads : new[p] \notin Queued
    /\ \A w \in Workers : task[w] \notin Queued
    /\ \A p \in Threads, w \in Workers : new[p] = task[w] => new[p] = Null

(* running_thd_count, which tpool_wait trusts, is the number of workers    *)
(* between taking a task and freeing it.                                   *)
CountOK == count = Cardinality(Busy)

(* No lost wakeup of a worker: while a task is queued, or after            *)
(* tpool_destroy asked the workers to stop, none of them sleeps on         *)
(* task_added_cond.                                                        *)
NoWorkerMissed ==
    head # Null \/ term => \A w \in Workers : pc[w] # "added_cv"

(* No lost wakeup of the main thread: it sleeps on task_done_cond only     *)
(* while there is a task whose end will signal it.                         *)
NoWaiterMissed == pc[Main] = "done_cv" => WorkLeft

(* tpool_wait is a barrier: when it returns, every task ever added, the    *)
(* ones added by other tasks while it waited included, has run to its end  *)
(* and its memory was given back.                                          *)
WaitIsBarrier ==
    [][pc[Main] = "wait_test" /\ pc'[Main] = "idle"
         => \A t \in Tasks : mem[t] # "unused" => t \in finished]_vars

(* When tpool_destroy frees the pool every worker has left it, nobody has  *)
(* the mutex, and every task_t was freed, also the ones never started and  *)
(* the ones added by tasks after the pool was told to stop.                *)
CleanExit ==
    pc[Main] = "exit" =>
        /\ \A w \in Workers : pc[w] = "exited"
        /\ lock = Null
        /\ \A t \in Tasks : mem[t] # "live"

(* What the properties above rest on: the program counters agree with the  *)
(* mutex, with term and with the locals of the threads, and a freed block  *)
(* is that of a finished task until tpool_destroy walks the list.          *)
ControlOK ==
    /\ \A p \in Threads : lock = p <=> pc[p] \in Holding
    /\ \A p \in Threads : new[p] # Null <=> pc[p] \in Adding
    /\ \A w \in Workers : task[w] # Null <=> pc[w] \in InTask
    /\ \A w \in Workers : pc[w] = "unborn" => pc[Main] = "create"
    /\ \A w \in Workers : pc[w] = "exited" => term
    /\ term <=> pc[Main] \in {"join", "free", "exit"}
    /\ pc[Main] \in {"free", "exit"} => AllJoined
    /\ pc[Main] # "free" => task[Main] = Null

FateOK ==
    /\ \A t \in finished : mem[t] = "freed"
    /\ pc[Main] \notin {"free", "exit"} =>
          \A t \in Tasks : mem[t] = "freed" => t \in finished

(* The inductive invariant.                                                *)
IInv == /\ TypeOK /\ ControlOK /\ ListOK /\ OneOwner /\ CountOK
        /\ NoWorkerMissed /\ NoWaiterMissed /\ FateOK

(* tpool_destroy returns.                                                  *)
DestroyReturns == pc[Main] = "term_lock" ~> pc[Main] = "exit"

(* The pool implements its abstract specification; a task is done when its *)
(* worker has accounted for it.                                            *)
TP == INSTANCE TaskPool
        WITH slot <- [w \in Workers |-> task[w]],
             done <- finished,
             dropped <- {t \in Tasks : mem[t] = "freed"} \ finished,
             waiting <- pc[Main] \in {"wait_lock", "wait_test", "done_cv"},
             closed <- term

KeepsPromise == TP!Spec

(* With its fairness: every task handed to tpool_add is eventually run to  *)
(* its end, or freed unstarted by tpool_destroy, and tpool_wait returns.   *)
KeepsFairPromise == TP!FairSpec
=============================================================================
