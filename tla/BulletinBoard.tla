--------------------------- MODULE BulletinBoard ---------------------------
(***************************************************************************)
(* hw1: servers that share one file of RECORD_NUM records through POSIX    *)
(* record locks (server.c), and the clients connected to them (client.c).  *)
(*                                                                         *)
(* Each server is a process that runs one pass of its main loop after the  *)
(* other; a step ends where another process can see or change something:   *)
(* a lock taken or given back, the file, a connection. Servers and clients *)
(* may die at any time; a client that is off may be started again, as a    *)
(* new process. Data on a connection arrive in order; the command byte of  *)
(* a post and the 25 bytes of the post itself may arrive apart, and the    *)
(* connection may end between them. The contents of a pull's answer stay   *)
(* with the server (field seen). Messages printed are left out.            *)
(*                                                                         *)
(* Operators with a suffix like _Blind are faulty variants of the operator *)
(* that follows them; no action uses one.                                  *)
(***************************************************************************)
EXTENDS Naturals, Sequences, FiniteSets

CONSTANTS Servers, Clients,
          RECORD_NUM, MAX_CLIENTS,
          Posts,       \* what clients post
          Blank,       \* from and content of an empty record
          None         \* "no client", "no record" (the code's -1), "no post"

Records == 0..(RECORD_NUM - 1)

ASSUME BoardAssumption ==
    /\ RECORD_NUM \in Nat \ {0} /\ MAX_CLIENTS \in Nat \ {0}
    /\ Blank \notin Posts
    /\ None \notin Records \cup Clients \cup Posts

VARIABLES
    file,          \* file[r]: the two halves of a record, from and content
    wlock, rlock,  \* kernel: records process s holds a write, read lock on
    up,            \* up[s]: server s runs
    write_locked,  \* write_locked[s]: the records whose flag is true
    last,          \* last[s]
    slots,         \* slots[s]: the clients in clientSockets
    post_id,       \* post_id[c]: post_id of c's slot
    backlog,       \* backlog[s]: connections not yet accepted, oldest first
    ready,         \* ready[s]: set by select and not yet served in this pass
    op,            \* op[s]: what the server is doing
    stream,        \* stream[c]: what is under way from c to its server
    reply,         \* reply[c]: what is under way to c, or None
    reset,         \* reset[c]: one end of c's connection is gone and its
                   \* kernel has told the other end that data were lost
    pc,            \* pc[c]: where the client is
    granted        \* granted[c]: the client's buf[0] is 1

locks   == <<wlock, rlock>>
network == <<stream, reply, reset>>
client  == <<pc, granted>>
vars == <<file, locks, up, write_locked, last, slots, post_id, backlog, ready,
          op, network, client>>

Message(cmd, p) == [cmd |-> cmd, post |-> p]
Messages == {Message(cmd, None) : cmd \in {"pull", "post", "content", "release",
                                           "eof"}}
            \cup {Message("data", p) : p \in Posts}

InBacklog(s) == {backlog[s][k] : k \in 1..Len(backlog[s])}
LinkedTo(s)  == slots[s] \cup InBacklog(s)
Linked(c)    == \E s \in Servers : c \in LinkedTo(s)

Whole(p) == [from |-> p, content |-> p]

Select0 == [do |-> "select", who |-> None, at |-> 0, seen |-> <<>>,
            post |-> None]
Doing(d, c) == [Select0 EXCEPT !.do = d, !.who = c]

Init ==
    /\ file \in [Records -> {Whole(p) : p \in Posts \cup {Blank}}]
    /\ wlock = [s \in Servers |-> {}] /\ rlock = [s \in Servers |-> {}]
    /\ up = [s \in Servers |-> FALSE]
    /\ write_locked = [s \in Servers |-> {}]
    /\ last = [s \in Servers |-> 0]
    /\ slots = [s \in Servers |-> {}]
    /\ post_id = [c \in Clients |-> None]
    /\ backlog = [s \in Servers |-> <<>>]
    /\ ready = [s \in Servers |-> {}]
    /\ op = [s \in Servers |-> Select0]
    /\ stream = [c \in Clients |-> <<>>]
    /\ reply = [c \in Clients |-> None]
    /\ reset = [c \in Clients |-> FALSE]
    /\ pc = [c \in Clients |-> "off"]
    /\ granted = [c \in Clients |-> FALSE]

(***************************************************************************)
(* The kernel: fcntl(F_SETLK). A process never conflicts with itself: a    *)
(* lock it asks for replaces the one it has.                               *)
(***************************************************************************)
WriteLockFree(s, r) == \A t \in Servers \ {s} : r \notin wlock[t] \cup rlock[t]
ReadLockFree(s, r)  == \A t \in Servers \ {s} : r \notin wlock[t]

WriteLock(s, r) == /\ wlock' = [wlock EXCEPT ![s] = @ \cup {r}]
                   /\ rlock' = [rlock EXCEPT ![s] = @ \ {r}]

ReadLock(s, r)  == /\ rlock' = [rlock EXCEPT ![s] = @ \cup {r}]
                   /\ wlock' = [wlock EXCEPT ![s] = @ \ {r}]

Unlock(s, r)    == /\ wlock' = [wlock EXCEPT ![s] = @ \ {r}]
                   /\ rlock' = [rlock EXCEPT ![s] = @ \ {r}]

(***************************************************************************)
(* client.c                                                                *)
(***************************************************************************)
(* A write on a connection the server has left goes nowhere; after a reset *)
(* it kills the client (SIGPIPE), which is one way to Leave.               *)
Send(c, m) ==
    stream' = IF Linked(c) THEN [stream EXCEPT ![c] = Append(@, m)] ELSE stream

At(c, place) == pc' = [pc EXCEPT ![c] = place]

(* connect, then the pull that main makes before its loop.                 *)
Start(c, s) ==
    /\ pc[c] = "off" /\ ~Linked(c) /\ up[s]
    /\ backlog' = [backlog EXCEPT ![s] = Append(@, c)]
    /\ stream' = [stream EXCEPT ![c] = <<Message("pull", None)>>]
    /\ At(c, "pulling")
    /\ reset' = [reset EXCEPT ![c] = FALSE]
    /\ granted' = [granted EXCEPT ![c] = FALSE]
    /\ UNCHANGED <<file, locks, up, write_locked, last, slots, post_id, ready,
                   op, reply>>

ClientSends(c, from, to, cmd) ==
    /\ pc[c] = from /\ ~reset[c]
    /\ Send(c, Message(cmd, None))
    /\ At(c, to)
    /\ UNCHANGED <<file, locks, up, write_locked, last, slots, post_id,
                   backlog, ready, op, reply, reset>>

Pull_NoWait(c) == ClientSends(c, "menu", "menu", "pull") /\ UNCHANGED granted
Pull(c) == ClientSends(c, "menu", "pulling", "pull") /\ UNCHANGED granted
Post(c) == ClientSends(c, "menu", "asking", "post") /\ UNCHANGED granted

(* FROM or CONTENT is empty.                                               *)
GiveUp_Silent(c) ==
    /\ pc[c] = "editing" /\ ~reset[c]
    /\ At(c, "menu")
    /\ UNCHANGED <<file, locks, up, write_locked, last, slots, post_id,
                   backlog, ready, op, network, granted>>

GiveUp(c) == ClientSends(c, "editing", "menu", "release") /\ UNCHANGED granted

SendContent(c) == /\ ClientSends(c, "editing", "sending", "content")
                  /\ granted' = [granted EXCEPT ![c] = FALSE]

SendData(c) ==
    /\ pc[c] = "sending"
    /\ \E p \in Posts : Send(c, Message("data", p))
    /\ At(c, "menu")
    /\ UNCHANGED <<file, locks, up, write_locked, last, slots, post_id,
                   backlog, ready, op, reply, reset, granted>>

TakeReply(c) ==
    /\ pc[c] \in {"pulling", "asking"} /\ reply[c] # None
    /\ At(c, IF reply[c] = "grant" THEN "editing" ELSE "menu")
    /\ granted' = [granted EXCEPT ![c] = reply[c] = "grant"]
    /\ reply' = [reply EXCEPT ![c] = None]
    /\ UNCHANGED <<file, locks, up, write_locked, last, slots, post_id,
                   backlog, ready, op, stream, reset>>

(* The read ends with 0, or with -1 after a reset; buf_len is a size_t, so *)
(* after -1 post_req goes on to look at what an earlier answer left in     *)
(* buf[0].                                                                 *)
ReadFails(c) ==
    /\ pc[c] \in {"pulling", "asking"} /\ reply[c] = None /\ ~Linked(c)
    /\ At(c, IF pc[c] = "asking" /\ reset[c] /\ granted[c] THEN "editing"
                                                          ELSE "menu")
    /\ UNCHANGED <<file, locks, up, write_locked, last, slots, post_id,
                   backlog, ready, op, network, granted>>

(* exit, or the process or its connection dies. Unread data make the       *)
(* client's kernel answer with a reset at once.                            *)
Leave(c) ==
    /\ pc[c] # "off"
    /\ At(c, "off")
    /\ Send(c, Message("eof", None))
    /\ reset' = [reset EXCEPT ![c] = reply[c] # None /\ Linked(c)]
    /\ reply' = [reply EXCEPT ![c] = None]
    /\ granted' = [granted EXCEPT ![c] = FALSE]
    /\ UNCHANGED <<file, locks, up, write_locked, last, slots, post_id,
                   backlog, ready, op>>

(***************************************************************************)
(* server.c: start, and death. The kernel gives back the locks and ends    *)
(* the connections of a dead process; the file stays. pwrite of one record *)
(* is not cut short by a death.                                            *)
(***************************************************************************)
(* Ending a connection with unread data tells a client that is still there *)
(* so; all that was under way to the server is lost.                       *)
Unread(c) == pc[c] # "off" /\ stream[c] # <<>>

Forget(c) == /\ stream' = [stream EXCEPT ![c] = <<>>]
             /\ reset' = [reset EXCEPT ![c] = Unread(c)]

StartServer(s) ==
    /\ ~up[s]
    /\ up' = [up EXCEPT ![s] = TRUE]
    /\ last' = [last EXCEPT ![s] = 0]
    /\ UNCHANGED <<file, locks, write_locked, slots, post_id, backlog, ready,
                   op, network, client>>

Die(s) ==
    /\ up[s] /\ op[s].do # "written"
    /\ up' = [up EXCEPT ![s] = FALSE]
    /\ wlock' = [wlock EXCEPT ![s] = {}] /\ rlock' = [rlock EXCEPT ![s] = {}]
    /\ write_locked' = [write_locked EXCEPT ![s] = {}]
    /\ slots' = [slots EXCEPT ![s] = {}]
    /\ backlog' = [backlog EXCEPT ![s] = <<>>]
    /\ ready' = [ready EXCEPT ![s] = {}]
    /\ op' = [op EXCEPT ![s] = Select0]
    /\ post_id' = [c \in Clients |-> IF c \in slots[s] THEN None ELSE post_id[c]]
    /\ stream' = [c \in Clients |-> IF c \in LinkedTo(s) THEN <<>> ELSE stream[c]]
    /\ reset' = [c \in Clients |-> IF c \in LinkedTo(s) THEN Unread(c)
                                                       ELSE reset[c]]
    /\ UNCHANGED <<file, last, reply, client>>

(***************************************************************************)
(* server.c: one pass of main's loop. select, and accept if a connection   *)
(* waits; it is closed again if there is no slot. A pass with nothing to   *)
(* do changes nothing.                                                     *)
(***************************************************************************)
Readable(s) == {c \in slots[s] : stream[c] # <<>>}

Accept_NoLimit(s) ==
    IF backlog[s] = <<>>
    THEN UNCHANGED <<backlog, slots, stream, reset>>
    ELSE /\ backlog' = [backlog EXCEPT ![s] = Tail(@)]
         /\ slots' = [slots EXCEPT ![s] = @ \cup {Head(backlog[s])}]
         /\ UNCHANGED <<stream, reset>>

Accept(s) ==
    IF backlog[s] = <<>>
    THEN UNCHANGED <<backlog, slots, stream, reset>>
    ELSE LET c == Head(backlog[s]) IN
         /\ backlog' = [backlog EXCEPT ![s] = Tail(@)]
         /\ IF Cardinality(slots[s]) < MAX_CLIENTS
            THEN /\ slots' = [slots EXCEPT ![s] = @ \cup {c}]
                 /\ UNCHANGED <<stream, reset>>
            ELSE Forget(c) /\ UNCHANGED slots

Select(s) ==
    /\ up[s] /\ op[s].do = "select" /\ ready[s] = {}
    /\ Readable(s) # {} \/ backlog[s] # <<>>
    /\ ready' = [ready EXCEPT ![s] = Readable(s)]
    /\ Accept(s)
    /\ UNCHANGED <<file, locks, up, write_locked, last, post_id, op, reply,
                   client>>

Become(s, o) == op' = [op EXCEPT ![s] = o]

(* release_write_lock: nothing is unlocked for a post_id of -1, because    *)
(* write_locked[-1] reads as false.                                        *)
ReleaseWriteLock(s, c) ==
    IF post_id[c] \in write_locked[s]
    THEN /\ Unlock(s, post_id[c])
         /\ write_locked' = [write_locked EXCEPT ![s] = @ \ {post_id[c]}]
         /\ post_id' = [post_id EXCEPT ![c] = None]
    ELSE UNCHANGED <<locks, write_locked, post_id>>

(* close and free_client (release_write_lock, then init_client).           *)
Disconnect_NoFree(s, c) ==
    /\ slots' = [slots EXCEPT ![s] = @ \ {c}]
    /\ Forget(c)
    /\ Become(s, Select0)
    /\ UNCHANGED <<locks, write_locked, post_id>>

Disconnect(s, c) ==
    /\ ReleaseWriteLock(s, c)
    /\ slots' = [slots EXCEPT ![s] = @ \ {c}]
    /\ Forget(c)
    /\ Become(s, Select0)

(* recv of one byte from the next client that select found readable, and   *)
(* the switch on it.                                                       *)
Serve(s) ==
    /\ op[s].do = "select"
    /\ \E c \in ready[s] :
         LET cmd == Head(stream[c]).cmd
             Consume == /\ stream' = [stream EXCEPT ![c] = Tail(@)]
                        /\ UNCHANGED <<slots, reset>>
             NoLock == UNCHANGED <<locks, write_locked, post_id>>
         IN
         /\ ready' = [ready EXCEPT ![s] = @ \ {c}]
         /\ \/ cmd = "eof"     /\ Disconnect(s, c)
            \/ cmd = "pull"    /\ Become(s, Doing("pull", c)) /\ Consume /\ NoLock
            \/ cmd = "post"    /\ Become(s, Doing("post", c)) /\ Consume /\ NoLock
            \/ cmd = "content" /\ Become(s, Doing("recv", c)) /\ Consume /\ NoLock
            \/ /\ cmd = "release" /\ ReleaseWriteLock(s, c)
               /\ Consume /\ UNCHANGED op
    /\ UNCHANGED <<file, up, last, backlog, reply, client>>

(* write: to a client that is gone, which its kernel then reports. A       *)
(* second write would kill the server; see NoBrokenPipe.                   *)
Write(c, answer) ==
    IF pc[c] = "off"
    THEN reset' = [reset EXCEPT ![c] = TRUE] /\ UNCHANGED reply
    ELSE reply' = [reply EXCEPT ![c] = answer] /\ UNCHANGED reset

(***************************************************************************)
(* pull: for each record, take a read lock or pass; read and unlock.       *)
(***************************************************************************)
MayRead_Blind(s, i)     == ReadLockFree(s, i)
MayRead_Exclusive(s, i) == i \notin write_locked[s] /\ WriteLockFree(s, i)
MayRead(s, i)           == i \notin write_locked[s] /\ ReadLockFree(s, i)

PullTry(s) ==
    LET i == op[s].at IN
    /\ op[s].do = "pull" /\ i < RECORD_NUM
    /\ IF MayRead(s, i)
       THEN ReadLock(s, i) /\ Become(s, [op[s] EXCEPT !.do = "pread"])
       ELSE Become(s, [op[s] EXCEPT !.at = i + 1]) /\ UNCHANGED locks
    /\ UNCHANGED <<file, up, write_locked, last, slots, post_id, backlog, ready,
                   network, client>>

PullRead(s) ==
    LET i == op[s].at IN
    /\ op[s].do = "pread"
    /\ Unlock(s, i)
    /\ Become(s, [op[s] EXCEPT !.do = "pull", !.at = i + 1,
                    !.seen = IF file[i] = Whole(Blank) THEN @
                                                       ELSE Append(@, file[i])])
    /\ UNCHANGED <<file, up, write_locked, last, slots, post_id, backlog, ready,
                   network, client>>

PullAnswer(s) ==
    /\ op[s].do = "pull" /\ op[s].at = RECORD_NUM
    /\ Write(op[s].who, "posts")
    /\ Become(s, Select0)
    /\ UNCHANGED <<file, locks, up, write_locked, last, slots, post_id, backlog,
                   ready, stream, client>>

(***************************************************************************)
(* post_req: one record of the scan that starts at last.                   *)
(***************************************************************************)
After(r) == (r + 1) % RECORD_NUM

MayTake_Blind(s, r) == WriteLockFree(s, r)
MayTake(s, r)       == r \notin write_locked[s] /\ WriteLockFree(s, r)

Candidate(s) == (last[s] + op[s].at) % RECORD_NUM

PostTry(s) ==
    LET c == op[s].who
        r == Candidate(s)
    IN
    /\ op[s].do = "post"
    /\ IF MayTake(s, r)
       THEN /\ WriteLock(s, r)
            /\ post_id' = [post_id EXCEPT ![c] = r]
            /\ last' = [last EXCEPT ![s] = After(r)]
            /\ write_locked' = [write_locked EXCEPT ![s] = @ \cup {r}]
            /\ Write(c, "grant")
            /\ Become(s, Select0)
       ELSE /\ IF op[s].at + 1 < RECORD_NUM
               THEN /\ Become(s, [op[s] EXCEPT !.at = @ + 1])
                    /\ UNCHANGED <<reply, reset>>
               ELSE Write(c, "refuse") /\ Become(s, Select0)
            /\ UNCHANGED <<locks, post_id, last, write_locked>>
    /\ UNCHANGED <<file, up, slots, backlog, ready, stream, client>>

(***************************************************************************)
(* Command 2: recv of the post waits for all of it, and the whole server   *)
(* with it; then post_content writes the record in two halves, as another  *)
(* process may see it, and releases it.                                    *)
(***************************************************************************)
RecvContent_NoEof(s) ==
    LET c == op[s].who IN
    /\ op[s].do = "recv" /\ stream[c] # <<>> /\ Head(stream[c]).cmd # "eof"
    /\ stream' = [stream EXCEPT ![c] = Tail(@)]
    /\ Become(s, [op[s] EXCEPT !.do = "write", !.post = Head(stream[c]).post])
    /\ UNCHANGED <<file, locks, up, write_locked, last, slots, post_id, backlog,
                   ready, reply, reset, client>>

RecvContent(s) ==
    LET c == op[s].who IN
    /\ op[s].do = "recv" /\ stream[c] # <<>>
    /\ IF Head(stream[c]).cmd = "eof"
       THEN Disconnect(s, c)
       ELSE /\ stream' = [stream EXCEPT ![c] = Tail(@)]
            /\ Become(s, IF post_id[c] = None THEN Select0
                         ELSE [op[s] EXCEPT !.do = "write",
                                            !.post = Head(stream[c]).post])
            /\ UNCHANGED <<locks, write_locked, post_id, slots, reset>>
    /\ UNCHANGED <<file, up, last, backlog, ready, reply, client>>

WriteFrom_Unlocks(s) ==
    /\ op[s].do = "write"
    /\ file' = [file EXCEPT ![post_id[op[s].who]].from = op[s].post]
    /\ Unlock(s, post_id[op[s].who])
    /\ Become(s, [op[s] EXCEPT !.do = "written"])
    /\ UNCHANGED <<up, write_locked, last, slots, post_id, backlog, ready,
                   network, client>>

WriteFrom(s) ==
    /\ op[s].do = "write"
    /\ file' = [file EXCEPT ![post_id[op[s].who]].from = op[s].post]
    /\ Become(s, [op[s] EXCEPT !.do = "written"])
    /\ UNCHANGED <<locks, up, write_locked, last, slots, post_id, backlog, ready,
                   network, client>>

WriteContent_Acks(s) ==
    /\ op[s].do = "written"
    /\ file' = [file EXCEPT ![post_id[op[s].who]].content = op[s].post]
    /\ ReleaseWriteLock(s, op[s].who)
    /\ Write(op[s].who, "posts")
    /\ Become(s, Select0)
    /\ UNCHANGED <<up, last, slots, backlog, ready, stream, client>>

WriteContent(s) ==
    /\ op[s].do = "written"
    /\ file' = [file EXCEPT ![post_id[op[s].who]].content = op[s].post]
    /\ ReleaseWriteLock(s, op[s].who)
    /\ Become(s, Select0)
    /\ UNCHANGED <<up, last, slots, backlog, ready, network, client>>

(***************************************************************************)
ServerStep(s) ==
    \/ Select(s) \/ Serve(s)
    \/ PullTry(s) \/ PullRead(s) \/ PullAnswer(s)
    \/ PostTry(s)
    \/ RecvContent(s) \/ WriteFrom(s) \/ WriteContent(s)

ClientStep(c) ==
    \/ Pull(c) \/ Post(c) \/ GiveUp(c) \/ SendContent(c) \/ SendData(c)
    \/ TakeReply(c) \/ ReadFails(c) \/ Leave(c)
    \/ \E s \in Servers : Start(c, s)

Next ==
    \/ \E s \in Servers : ServerStep(s) \/ StartServer(s) \/ Die(s)
    \/ \E c \in Clients : ClientStep(c)

Spec == Init /\ [][Next]_vars

(* A server that runs is scheduled; a client in a blocking read gets what  *)
(* arrives.                                                                *)
ProcessesRun ==
    /\ \A s \in Servers : WF_vars(ServerStep(s))
    /\ \A c \in Clients : WF_vars(TakeReply(c) \/ ReadFails(c))

(* The rest of a post that has been sent arrives, or the connection ends.  *)
NetworkDelivers == \A c \in Clients : WF_vars(SendData(c))

ProcessFairSpec == Spec /\ ProcessesRun
FairSpec == ProcessFairSpec /\ NetworkDelivers

(***************************************************************************)
(* Correctness                                                             *)
(***************************************************************************)
Cells == Posts \cup {Blank}
Places == {"off", "menu", "pulling", "asking", "editing", "sending"}
Doings == {"select", "pull", "pread", "post", "recv", "write", "written"}
Answers == {"posts", "grant", "refuse"}

(* The state of servers, kernel, clients and network has its type; a       *)
(* server keeps at most MAX_CLIENTS connections, each client has one, and  *)
(* what is under way to a server never exceeds a post and one command.     *)
TypeOK ==
    /\ file \in [Records -> [from : Cells, content : Cells]]
    /\ wlock \in [Servers -> SUBSET Records]
    /\ rlock \in [Servers -> SUBSET Records]
    /\ up \in [Servers -> BOOLEAN]
    /\ write_locked \in [Servers -> SUBSET Records]
    /\ last \in [Servers -> Records]
    /\ slots \in [Servers -> SUBSET Clients]
    /\ post_id \in [Clients -> Records \cup {None}]
    /\ backlog \in [Servers -> Seq(Clients)]
    /\ ready \in [Servers -> SUBSET Clients]
    /\ \A s \in Servers :
         /\ op[s] \in [do : Doings, who : Clients \cup {None}, at : 0..RECORD_NUM,
                       seen : Seq([from : Cells, content : Cells]),
                       post : Posts \cup {None}]
         /\ ready[s] \subseteq slots[s]
         /\ op[s].do # "select" => op[s].who \in slots[s]
         /\ Cardinality(slots[s]) <= MAX_CLIENTS
         /\ \A t \in Servers \ {s} : LinkedTo(s) \cap LinkedTo(t) = {}
    /\ stream \in [Clients -> Seq(Messages)]
    /\ \A c \in Clients : Len(stream[c]) <= 4
    /\ reply \in [Clients -> Answers \cup {None}]
    /\ reset \in [Clients -> BOOLEAN]
    /\ pc \in [Clients -> Places]
    /\ granted \in [Clients -> BOOLEAN]

(* write_locked is what the kernel knows: fcntl cannot tell the clients of *)
(* one server apart, so the flag must hold exactly for the records the     *)
(* process has write locks on, and a pull must not weaken one of them to a *)
(* read lock (server.c:305, 350). Read locks last for one pread only.      *)
LocksAgree ==
    \A s \in Servers :
      /\ write_locked[s] = wlock[s]
      /\ rlock[s] = IF op[s].do = "pread" THEN {op[s].at} ELSE {}
      /\ \A t \in Servers \ {s} : wlock[s] \cap (wlock[t] \cup rlock[t]) = {}

(* A reserved record belongs to exactly one connection of the server that  *)
(* locked it, and every post_id names a record that is locked, whatever    *)
(* was served, closed or killed since (post_req, release_write_lock,       *)
(* free_client).                                                           *)
ReservationsOwned ==
    \A s \in Servers :
      /\ \A r \in write_locked[s] :
           Cardinality({c \in slots[s] : post_id[c] = r}) = 1
      /\ \A c \in Clients : post_id[c] # None =>
           (c \in slots[s] <=> post_id[c] \in write_locked[s])

(* No reservation leaks: as long as a connection has a record, its client  *)
(* is about to learn it, is editing, or has sent what will make the server *)
(* give it back.                                                           *)
Ending == {"content", "data", "release", "eof"}
ReservationsEnd ==
    \A c \in Clients : post_id[c] # None =>
      \/ pc[c] \in {"editing", "sending"} \/ reply[c] = "grant"
      \/ \E k \in 1..Len(stream[c]) : stream[c][k].cmd \in Ending
      \/ \E s \in Servers : /\ op[s].who = c
                            /\ op[s].do \in {"recv", "write", "written"}

(* A client that was told it may post and whose connection still stands    *)
(* has a record all the time it edits, until the server has its post:      *)
(* nothing that other clients, other servers or crashes do takes it away,  *)
(* so that post_content never drops a post (server.c:321).                 *)
GrantHolds ==
    /\ \A s \in Servers, c \in Clients :
         pc[c] \in {"editing", "sending"} /\ c \in LinkedTo(s)
           => post_id[c] \in write_locked[s]
    /\ \A s \in Servers :
         op[s].do \in {"recv", "write", "written"}
           => post_id[op[s].who] \in write_locked[s]

(* Nobody sees half of a post: a record is whole unless it is write-locked *)
(* and what a pull has collected is whole, although a record is written in *)
(* place while other processes read the file.                              *)
WholePosts ==
    /\ \A r \in Records : (\A s \in Servers : r \notin wlock[s])
                            => file[r].from = file[r].content
    /\ \A s \in Servers : \A k \in 1..Len(op[s].seen) :
         op[s].seen[k].from = op[s].seen[k].content

(* The server does not handle SIGPIPE, so a second write to a client that  *)
(* is gone would kill it and every reservation with it. It never comes to  *)
(* that: a client has at most one question open (server.c:218).            *)
NoBrokenPipe ==
    \A s \in Servers : op[s].do \in {"pull", "pread", "post"}
                         => ~reset[op[s].who]

(* Client and server never lose step: what is under way to a client is the *)
(* answer to the question it is waiting with.                              *)
InStep ==
    \A c \in Clients : reply[c] # None =>
      \/ pc[c] = "pulling" /\ reply[c] = "posts"
      \/ pc[c] = "asking" /\ reply[c] \in {"grant", "refuse"}

(* The servers together are one board: records are reserved by one client  *)
(* each over all servers, only the owner's post replaces a record, and a   *)
(* pull leaves out no record that is not reserved (a read lock of another  *)
(* server's pull does not hide it) and shows the others as last posted.    *)
Holder(r) == IF \E c \in Clients : post_id[c] = r
             THEN CHOOSE c \in Clients : post_id[c] = r ELSE None
Collecting(s) == op[s].do \in {"pull", "pread"}

B == INSTANCE Board WITH
       owner <- [r \in Records |-> Holder(r)],
       board <- [r \in Records |-> file[r].from],
       turn  <- [s \in Servers |-> IF Collecting(s) THEN op[s].at ELSE 0],
       page  <- [s \in Servers |->
                   [k \in 1..Len(op[s].seen) |-> op[s].seen[k].content]]

OneBoard == B!Spec

(* Every question is answered, or the client learns that its connection is *)
(* gone, however many clients ask and whatever the other clients send.     *)
Waiting(c) == pc[c] \in {"pulling", "asking"}
Answered == \A c \in Clients : Waiting(c) ~> ~Waiting(c)

(* A client that dies does not keep its record: in the end the server sees *)
(* it and unlocks the record (server.c:181, 239), or dies itself.          *)
DeadRelease ==
    \A c \in Clients : (pc[c] = "off" /\ post_id[c] # None)
                         ~> (post_id[c] = None)

(* client.c:172 and server.c:315 say that a refused post means that the    *)
(* maximum number of posts is being written. The weakest reading: at least *)
(* one record is reserved when the server refuses.                         *)
RefusedMeansFull ==
    [][\A c \in Clients : reply[c] = None /\ reply'[c] = "refuse"
                            => \E s \in Servers : wlock[s] # {}]_vars

(* client.c:166: if no answer can be read, the client says so and returns  *)
(* to its menu; it asks for a post only after an answer of 1.              *)
PromptNeedsGrant ==
    [][\A c \in Clients : pc[c] = "asking" /\ pc'[c] = "editing"
                            => reply[c] = "grant"]_vars
=============================================================================
