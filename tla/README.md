# Verification of the system-programming homework repository

The repository holds four independent C programs. This directory holds TLA+
modules that model them, TLC configurations that check small instances, and
TLAPS proofs for every value of the constants. Every definition that stands for
code is listed with its lines in `PROJECT.json` ("map"); operators whose names
end in a suffix such as `_Lost` or `_Leak` are deliberately faulty variants of
the operator they precede, used to confirm that each property can fail.

## The system

### hw1: bulletin board (`server.c`, `client.c`, `hw1.h`)

Servers (processes) share one file of `RECORD_NUM` = 10 records. State of a
server: the array of connections, `write_locked[10]` (records it holds a POSIX
write lock on), `last` (the last record posted through it), and per connection
`post_id`. The kernel keeps the record locks, per process. Operations: accept,
`pull` (read every record that is not locked), `post_req` (reserve the first
free record after `last`), `post_content` (write the reserved record, release
it), `release_write_lock`, disconnect. A client loops over the commands post,
pull, exit. Servers interact only through the file and its record locks;
clients and servers through TCP. Hard: fcntl locks do not conflict within one
process, so a server needs `write_locked` as well; a short read lock of one
server's `pull` can refuse another server's `post_req`; a client may die
between the reservation and the content; a server may die with reservations; a
blocking `recv` of the content holds up the whole server. Correct means:
`write_locked` agrees with the kernel, a reserved record belongs to exactly one
live connection, a record is written only by the server that holds its lock, no
`pull` shows a half-written record, and a dead client's record is released.

### hw2: tree of services (`service.c`, `util.h`)

One process per service, joined to its parent by two pipes (descriptors 3 and
4) and to its children by two pipes each. Operations, started by the Manager
from its standard input and carried down the tree depth first: `spawn`, `kill`,
`exchange`. `spawn` and `kill` are request/answer over the pipes; `exchange`
counts how many of the two services were found and then the two talk through
two FIFOs. State of a process: `service_name`, `secret`, `childlist`, and the
local variables of the command it is in; between processes, the content of the
pipes and the FIFO files. Hard: the descriptor numbers (lowest free descriptor,
close-on-exec, `dup2`), messages without delimiters and answers of different
lengths in one pipe, a traversal that stops early, killing a subtree without
leaving zombies, FIFO opens that block until both ends arrive, and the end of
all services when the Manager's input ends. Correct means: a command changes the
tree and prints as if it took effect at once, it ends, and it leaves no message,
FIFO, zombie or descriptor behind.

### hw3: user-level threads (`scheduler.c`, `threadtools.h`, `threads.c`, `main.c`)

One process. Thread control blocks in two arrays, `ready_queue` and
`waiting_queue`; `bank.lock_owner`; a signal mask, SIGTSTP and the alarm. A
thread gives up the processor in `thread_yield` (which opens the mask, SIGTSTP
first), in `lock` (which moves it to the waiting queue) and in `thread_exit`.
The scheduler hands the lock to the first waiter and picks the next thread.
Hard: the arrays are edited in place, `rq_current` must stay meaningful when a
thread is removed and a hole filled, a waiter must not be forgotten, and no
alarm may be lost over nested `longjmp`s.

### hw4: thread pool (`my_pool.c`, `my_pool.h`)

`n_threads` workers, one mutex, two condition variables, a linked FIFO of
`task_t` and `running_thd_count`. Operations: `tpool_init`, `tpool_add`,
`tpool_wait`, `tpool_destroy`, and the loop of `tpool_worker`. Hard: lost
wakeups, a wait that returns early, the tail pointer when the list empties,
memory given back exactly once, destroying a pool with work queued or running.


## Modules

| module | stands for | state |
|---|---|---|
| `ThreadPool` | hw4: `my_pool.c`, `my_pool.h` | mutex, the two condition variables, the linked list, who owns each `task_t`, where every thread is |
| `TaskPool` | what hw4 promises its caller | a FIFO of tasks, what each worker runs, what is done or given back |
| `ThreadPoolProofs` | theorems about `ThreadPool` | - |
| `UserThreads` | hw3: `main.c`, `threadtools.h`, `threads.c`, `scheduler.c` | both queues, `tcb`s, bank, signal mask, pending signals, alarm |
| `FifoMutex` | what hw3's `lock`/`unlock` promise | holder and waiters |
| `BulletinBoard` | hw1: `server.c`, `client.c` | file, kernel lock table, servers, connections, clients |
| `Board` | what hw1's servers promise together | owner and content of each record, what each server collects |
| `Service` | hw2: `service.c`, what the processes say to each other | where each process stands, its local variables, children, secret; pipes, FIFOs, output |
| `ServiceTree` | what hw2 promises its user | the tree, the secrets, the output of each command |
| `UserThreadsProofs`, `BulletinBoardProofs`, `FdTableProofs` | theorems about the module of that name | - |
| `ServiceInvariant`, `ServiceProofs` | the invariant of `Service`; theorems about `Service` | - |
| `InductionLemmas` | induction and recursive functions, for the proofs | - |
| `FdTable` | hw2: `spawn_child`, `let_child_suicide`, end of file | the descriptor table of every process |
| `MC*` | instances for TLC | - |

### ThreadPool

One action per critical section, because every shared variable is touched under
`pool->mutex`: `Lock` takes it, the action named after the code ends with
`Unlock` or with sleeping. `CallAdd`, `LinkTask`, `AddBody` are `tpool_add` (the
main thread's and a running task's); `WorkSleep`, `WorkTake`, `WorkExit`,
`FuncReturns`, `WorkFinish` are `tpool_worker`; `CallWait`, `WaitSleep`,
`WaitReturn` are `tpool_wait`; `CallDestroy`, `Terminate`, `Join`, `FreeTask`,
`FreePool` are `tpool_destroy`. `SpuriousWake` is what POSIX allows of
`pthread_cond_wait`. `next`, `head`, `tail` and `mem` are the C pointers and
heap blocks; `queue` and `finished` are history variables no guard reads.

### UserThreads

While a thread or the scheduler runs, both signals are blocked, so what happens
between two `longjmp`s is one action; the two windows of `thread_yield`, where
`sigprocmask` unblocks SIGTSTP and then SIGALRM, are actions of their own.
`TstpArrives` and `AlarmGoesOff` may happen at any moment and make a signal
pending. `Schedule` is one turn of `scheduler`: `Handover`, `RemoveRunning`,
`NextIndex`, in the order of the code. Thread bodies are modelled with their
loop variables, so that a switch that lost one would show.

### BulletinBoard

A server runs one pass of its loop at a time: `Select` takes the snapshot of
readable clients and accepts at most one connection, `Serve` receives one
command byte of a client in the snapshot. `pull` is `PullTry` (lock or pass) and
`PullRead` (read, unlock) per record, and `PullAnswer`; `post_req` is one
`PostTry` per record of the scan; command 2 is `RecvContent` and the two halves
`WriteFrom` and `WriteContent`. `ReadLock`, `WriteLock`, `Unlock` are `fcntl` as
POSIX has it: locks belong to a process, which never conflicts with itself and
replaces its own lock. A client is `Start`, `Pull`, `Post`, `GiveUp`,
`SendContent`, `SendData`, `TakeReply`, `ReadFails` and `Leave`. `Die` and
`StartServer` are a server's end (locks and connections go, the file stays) and
start. `reset` records that one end of a connection is gone with data lost; it
decides whether a read returns 0 or -1 and whether a write is the one that
raises SIGPIPE.

### Service and ServiceTree

A process of hw2 is sequential and blocks at every read, `waitpid` and FIFO
open. `pc[p]` names the place, and an action is a stretch of code between two
such places; where one stretch does two things others can see, it is split
(`ExchangeEnds` sends the count, `MakeFifos` makes the files). `Dispatch` is the
body of main's loop, `Receive` and `ReadLine` are `readInput`. The loops of
`spawn`, `find_kill`, `terminate` and `exchange` have the same form: `CallChild`
sends, `SpawnAnswered` ... `ExchangeAnswered` read the answer, `SpawnEnds` ...
`ExchangeEnds` are what follows the loop. `frame[p]` holds their local variables:
`k` is the list pointer, `hit` says the loop was left by `break`, `n` is
`number_of_descendents` or `found_here`, `wait` is `to_wait`, `got` is
`new_secret`. `LetChildSuicide` and `Reap` are `let_child_suicide`; `Reap` takes
the child off the list, which `find_kill` does a moment earlier, when nobody else
can see it. A FIFO open for writing is enabled when the peer is at its open for
reading of that FIFO. `EndOfInput` and `Orphaned` are the two ends of file.
`before` is a history variable: the tree when the current line was read.

`ServiceTree` performs a command in one step. What it says is the complete output
in order: who hears the command (a prefix of the preorder of the tree), and the
result. The refinement shows the old tree while the Manager is busy and the new
one, with the output, when it is back at its input.

### FdTable

A table maps a descriptor to the end of a pipe and its close-on-exec flag; the
system calls are operators on a table. `Pipes`, `Fork`, `Setup`, `ChildExec`,
`ParentCloses` and `AppendChild` are `spawn_child`; `Suicide` and `Reap` are the
end of a killed service; `ReadsEof` is the read that returns 0 when no process
holds the other end. It knows nothing of the messages, except that commands run
one at a time, which is `Quiet` of `Service`; `Service` in turn takes from it that
pipes connect the right processes and that an orphan reads an end of file.

## What the runs check

| run | instance | shows |
|---|---|---|
| `pool_safety` | 3 workers, 4 tasks | list = FIFO, each block has one owner, no lost wakeup, `tpool_wait` is a barrier, `tpool_destroy` leaves nothing, every step is one of `TaskPool` |
| `pool_live` | 2 workers, 3 tasks | `tpool_destroy` returns, and the fair `TaskPool` is implemented: every task is served and `tpool_wait` returns |
| `threads` | fibonacci, factorial and three bank threads, each present or absent, `ThreadMax` = 6 | arrays, alarm, mask and results survive all switches and signals; the lock is a FIFO mutex (`FifoMutex`) and always handed on; all threads return |
| `board_two` | 2 servers, 2 clients, 2 records | locks, reservations, whole posts, no SIGPIPE, client and server in step, the servers are one `Board` |
| `board_crowd` | 1 server, 3 clients, 2 slots, 1 record, 2 posts | the slot limit, clients of one process, posts replacing posts |
| `board_live` | 2 servers, 2 clients, 1 record | every question is answered, dead clients' records are released |
| `tree_safety` | the Manager and 3 services | messages never pile up, a command leaves nothing behind, the processes act and print as `ServiceTree` |
| `tree_live` | the Manager and 2 services | each command is carried out and ends, all services leave after the Manager (the fair `ServiceTree`) |
| `fds` | the Manager and 4 services | exactly the right descriptors, after any sequence of spawns and kills; end of file reaches every service after the Manager's end |
| `board_refused`, `board_prompt`, `board_blocked` | as `board_two`; `board_blocked` with 1 server, 1 record | the three findings below; each is a violation TLC must find |

**Why the bounds are enough.** The pool needs a list that goes empty, has one
node and has several, and workers that sleep, run and wait for the mutex at
once: three workers, four tasks. `UserThreads` has the threads of `main.c` and a
third lock user, so that two wait at once; `THREAD_MAX` (16 in the code) is one
more than the threads, so that no array has room to hide an overrun, and as in the
code the scan of `ready_queue` for a null pointer ends inside it. Loops run 0, 1 and 4 times, since an
iteration only differs by being first, middle or last. In the board, the
conflicts are between two clients of one server, two servers, and a pull and a
post; two records are the least for which a scan wraps and a pull and a scan can
pass each other. A client never has more than a post and one command under way,
which `TypeOK` checks, so no bound on the network is needed. A full table of
connections occurs in `board_crowd`, which checks safety only: the slot limit and
the refinement. `board_live` has a slot for each client and therefore says nothing
of refused ones. The Manager and three services have every shape of tree in which a
command passes through an inner service, finds its target in one subtree or in
two, and kills a chain or a pair; four services give `FdTable` a child older and a
child younger than a gap in the descriptors. `tree_live` has no inner service
that is neither of the two of an exchange; `tree_safety` has, and checks that no
state is a deadlock. `MaxFd` only bounds
the search for the lowest free descriptor; `FdTableProofs` shows that with
`MaxFd >= 2 * Cardinality(Services) + 6`, which `FdAssumption` demands, a number
is always free, so the bound never shows. Nothing else is bounded: clients and servers loop, die and come back
for ever. Symmetry is used in safety runs only, over processes, clients and
tasks that the code treats alike.

### Findings

* `RefusedMeansFull` (`server.c:305`): `post_req` takes another server's short
  read lock for a reservation. If the pull of one server walks the records just
  ahead of the scan of another, the post is refused with "Maximum posting limit
  exceeded" although nobody is posting.
* `PromptNeedsGrant` (`client.c:166`): `buf_len` is a `size_t`, so `buf_len<=0`
  does not see -1. If the server dies with the client's request unread (after an
  earlier request that was granted and given up), the client takes the old
  answer in its buffer for a new one and asks for the post.
* `Answered` without `NetworkDelivers` (`server.c:199`): `recv` with
  `MSG_WAITALL` lets one client's unfinished post hold up all others.

### Fairness

* hw4: weak fairness of each thread's steps outside the mutex and of the task
  functions' return; strong fairness of taking the mutex, since `pthread_mutex`
  is contended but does not starve a thread in the implementations used. Nothing
  is assumed of `SpuriousWake` and of the caller, who may stop at any time.
* hw3: weak fairness of the one process, and of the alarm going off once armed.
  SIGTSTP need never arrive.
* hw2: weak fairness of each process (`tree_live`), and of its read that can
  return (`fds`). Nobody has to type a command or end the input.
* hw1: weak fairness of a running server's steps and of a client whose read can
  return. The order in which one server serves its clients is not assumed fair:
  it follows from the snapshot of `select`, which is served completely before
  the next. `NetworkDelivers` says that the rest of a sent post arrives; without
  it `board_blocked` shows that `Answered` fails. Nobody is required to type, to
  start or to die.

## What is proved

Each proof module takes one inductive invariant `IInv`, shows with one lemma per
conjunct (or group of actions) that every step preserves it, and draws the rest
from it. Every `IInv` was checked by TLC before it was proved.

### hw4: `ThreadPoolProofs`

For every finite, non-empty set of workers and every set of tasks
(`PoolAssumption`), `ThreadPool!Spec` implies `TypeOK`, `ListOK`, `OneOwner`,
`NoWorkerMissed`, `NoWaiterMissed`, `CleanExit`, the barrier `WaitIsBarrier` and
the refinement `KeepsPromise` of `TaskPool`.

    IInv = TypeOK /\ ControlOK /\ ListOK /\ OneOwner /\ CountOK
           /\ NoWorkerMissed /\ NoWaiterMissed /\ FateOK

`ControlOK` ties each program counter to what that thread holds: a thread is
inside a critical section only if it owns the mutex, has a task only while it
runs one. Without it `OneOwner` is not inductive, because nothing would say that
the block a worker is about to free is still its own. `CountOK` (the count is
the number of workers between taking and finishing a task) gives meaning to the
test in `tpool_wait`. `FateOK` says what was freed was run, until `tpool_destroy`
walks the list; it is what the barrier needs. The refinement follows step by
step from `IInv`: each action maps to an action of `TaskPool` or to a stutter.

### hw3: `UserThreadsProofs`

For every list of fewer than `THREAD_MAX` threads, and all arguments
(`ThreadsAssumption`): `TypeOK`, `QueuesOK`, `LockOK`, `AlarmKept`,
`SignalsBlocked`, `ResultsOK`, the action properties `BalanceGuarded` and
`SignalSwitches`, and the refinement `LockIsFifo` of `FifoMutex`.

    IInv = TypeOK /\ QueuesOK /\ LockOK /\ AlarmKept /\ ResultsOK
           /\ BeforeStart /\ Resumed /\ HolderOK /\ LoopOK

`QueuesOK` needs `Resumed`: that there is a running thread, and that what a
switch told the scheduler (yielded, waits, exited) is true of it, is what makes
`rq_current` meaningful when `RemoveRunning` fills the hole. `HolderOK` says who
may own the lock and that nobody waits for a free one; `LoopOK` is what the two
loops keep between iterations. `ResultsOK` compares the loops with the recursive
definitions of `Fib` and `Fact` for every argument. A recursive function's
equation does not come for free: `InductionLemmas` proves that a recursion over
the naturals that looks only below its argument has a solution. Induction is
stated there about a set of naturals and follows from the library's `WFMin`, so
that no operator has to be passed as a parameter.

### hw1: `BulletinBoardProofs`

For any sets of servers and clients, any number of records and of connections
(`BoardAssumption`): `LocksAgree`, `InStep`, `ReservationsOwned`,
`ReservationsEnd`, `GrantHolds`, `WholePosts`, `NoBrokenPipe`, `TypeOK` and the
refinement `OneBoard` of `Board`. That is every safety property the board's runs
check.

    IInv = Typed /\ Links(s) /\ Unlinked(c) /\ LocksAgree /\ InHand(s)
           /\ Reservations(s) /\ NoneShared /\ Conversation(s) /\ InStep
           /\ Halves /\ SeenWhole(s)        (for all servers s, clients c)

`Links` is which connections a server has: a client has one, serves or queues in
one server. `Reservations` and `NoneShared` relate `post_id` and `write_locked` both
ways. The heart is `Conversation`: read from where the server stands with a
client, the commands still under way form a path of `Follow` (what the client may
say next), and the last of them says where the client itself stands. Neither
`InStep` nor `GrantHolds` is inductive without it: the record a client was
granted is only safe if no release or end of file is on its way ahead of the
content. `Halves` says that a record differs from its author only while a server
is between the two writes; it gives `WholePosts` together with the lock that
keeps a `pread` away. `TypeOK` bounds what is under way by four messages, which
again is a fact about paths of `Follow`.

For the refinement, `PostTry` that gets the lock is `Reserve`, `WriteFrom` is
`Publish`, the steps that give a record back are `Release`, a `PullTry` that finds
the record locked is `Skip`, `PullRead` is `Collect`, `PullAnswer` is `Answer`, `Die` is
`Fail` with what the server had reserved, and all others stutter.

### hw2: `FdTableProofs`

For every finite set of services (`FdAssumption`): `FdsExact`, and `NoOrphanEarly`
(no run checks its `EofOnlyAfterManager`): as long as the Manager is there, no idle
service reads an end of file, that is, the parent's end of its pipe is open
somewhere.

    IInv = Typed /\ Family /\ Attached /\ Phase /\ Settled(p)   (for all p)

`Loaded(t, p, list, X)` says what a table `t` holds: the standard streams, the two
ends of `p` on 3 and 4, two ends per child in `list`, and the numbers in `X`, no
number twice. `Settled` has `X` empty; `Phase` says that either nothing is going on,
or one `spawn_child` (`Birth`, with what parent and child hold at each of its
steps), or one kill (`Death`). The lemmas about system calls carry the argument:
a table that has 0 to 4 opens what is new above 4, so the child's temporaries
never are 3 or 4 and no `dup2` closes an end that is needed; every descriptor but
0 to 4 is close-on-exec, so the new program has nothing of its siblings; a kill
gives back exactly two numbers. `Family` and `Attached` (one parent each; while
the Manager is there, everyone hangs together) count the children, which shows
that a number is always free.

### hw2: `ServiceInvariant` and `ServiceProofs`

For every set of services (`ServiceAssumption`), any sequence of commands and any
shape of the tree: `OneMessage`, `Quiet` and `TypeOK`.

    IInv  = Typed /\ Framed /\ Lives /\ (Alive, or Leaving when the Manager is gone)
    Alive = Family /\ Attached /\ Ranked /\ Links /\ Together /\ Told /\ Fifos

None of the three is inductive. What a pipe may hold is a matter of the two
processes at its ends, so `Links` says for each pair of parent and child, by where
the parent stands to the child (`Rel`: it waits for the answer, lets the child go,
waits for its end, is just making it, has an answer left to collect, or nothing),
what is in the two pipes and where the child is. A parent that waits, for example,
has sent a message that is still in the pipe, or the child works on it, or the
answer is in the other pipe (`Asked`). `OneMessage` follows. Each step of a process
is seen by its parent and by one child at most; `UpKept`, `Touched` and `Untouched`
divide it that way, and `LinksKept` puts the parts together.

`Quiet` needs the whole tree. `Ranked` says that parents can be numbered below
their children; so a process that is not at rest and has the least rank would have
a parent at rest, and then `Links` says it is at rest itself, unless the parent is
the Manager (`AllStill`). Hence when the Manager waits for nobody, all are at rest.

`Fifos` is about `exchange`: the two services pass through eight stages (`Swap`), with
what each FIFO holds at each. That there is no way out of the order needs that no
service is asked twice in one exchange, or it would begin again (`Told`: nobody has
heard of the command before its parent has, and children hear of it in the order of
the list), and that all are busy with the same command (`Together`). `TypeOK` needs
that too: a FIFO never holds two secrets because whoever writes finds it empty
(`WriteFinds`).

`Framed` is what the local variables of the four functions satisfy at each place,
e.g. that the list pointer of a loop that waits points into the list.

## What is only model-checked

* Liveness, of all four programs (`pool_live`, `threads`, `board_live`,
  `tree_live`, `fds`): it needs fairness and `ENABLED`.
* Of `Service`, the refinement of `ServiceTree` (`ActsAsTree`): what a command prints is
  the preorder of a tree, a recursion over the tree itself.
* The three findings, which are counterexamples.

## What is not modelled

* hw2: failing system calls, which make the process exit; an exchange that names
  one service that exists and one that does not (`spec.pdf` excludes it; the one
  that exists would wait in `open` for ever); two living services of one name;
  a service killed from outside; the text of
  messages, of which `OneMessage` says why it may be left out. The wrap of the
  8-bit count of descendants is in the model, but no instance is large enough to
  reach it.
* hw4: failing `pthread_create` or `malloc`; `n_threads` = 0, with which
  `tpool_wait` would never return; a second thread inside `tpool_wait`, which the
  single signal of `my_pool.c:103` would not reach.
* hw3: integer overflow for large arguments, output, sleeping, threads that exit
  with the lock (no function of the repository does).
* hw1: text typed and printed; failing system calls other than `F_SETLK`, `recv`
  and writes to a lost connection; the 25 bytes of a post arriving in
  pieces; programs other than the servers that touch the file.
* Sample judges, scripts, plots and build files.

## Plan

Done: all modules of the table above, and the proofs of every safety invariant and
action property that a run checks.

Left is the refinement of `ServiceTree`. It would need facts about `Preorder` of a
tree, a recursion over the tree itself and not over the naturals. `Told` already
says that services hear of an exchange in the order of the lists, `Links` what is
asked of whom, and `Quiet` that a command is over when the Manager says so.
