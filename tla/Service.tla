------------------------------ MODULE Service ------------------------------
(***************************************************************************)
(* hw2: a tree of processes, each joined to its parent by two pipes        *)
(* (service.c). A process is sequential: its actions are the stretches     *)
(* between two calls that block or that others can see, and pc[p] is where *)
(* it stands. The frame is what spawn, find_kill, terminate and exchange   *)
(* keep in local variables. Messages are records instead of text, and the  *)
(* answers, which are bytes or KillMsg structs, are one kind of record.    *)
(* System calls succeed; the descriptors are in FdTable.                   *)
(*                                                                         *)
(* Operators with a suffix like _NoWait are faulty variants of the         *)
(* operator they precede; no action uses them.                             *)
(***************************************************************************)
EXTENDS Naturals, SequencesExt

CONSTANTS Services,  \* service names
          Manager,   \* the root, started by the user
          None       \* no value

ASSUME ServiceAssumption == Manager \in Services /\ None \notin Services

VARIABLES pc,      \* where each process stands; "none" if there is none
          kids,    \* childlist, by name
          secret,  \* what srand and rand gave the service p is named p
          frame,   \* local variables of the command under way
          down,    \* down[c]: the pipe to c from its parent
          up,      \* up[c]: the pipe from c to its parent
          fifo,    \* fifo[<<x, y>>]: content of x_to_y.fifo, None if no file
          log,     \* what was printed since the last line was read
          before   \* the tree before the command, and the command (history)

vars == <<pc, kids, secret, frame, down, up, fifo, log, before>>

Running  == {p \in Services : pc[p] \notin {"none", "zombie"}}
Pairs    == {e \in Services \X Services : e[1] # e[2]}
Idle     == [op |-> None]
Child(p) == kids[p][frame[p].k]
Peer(p)  == IF p = frame[p].a THEN frame[p].b ELSE frame[p].a

Msg(o, x, y, f) == [op |-> o, a |-> x, b |-> y, found |-> f]
KillAll == Msg("killall", None, None, 0)
Agreed  == Msg("agree", None, None, 0)

Goto(p, l)     == pc' = [pc EXCEPT ![p] = l]
Send(c, m)     == down' = [down EXCEPT ![c] = Append(@, m)]
Drain(pipe, c) == pipe' = [pipe EXCEPT ![c] = Tail(@)]
Reply(p, s, n) == up' = [up EXCEPT ![p] = Append(@, [status |-> s, n |-> n])]
Set(p, f)      == frame' = [frame EXCEPT ![p] = f]

(* The outcome: the Manager prints it, others tell their parent.           *)
Report(p, s, n, words) ==
    \/ p = Manager /\ log' = Append(log, words) /\ UNCHANGED up
    \/ p # Manager /\ Reply(p, s, n) /\ UNCHANGED log

(* Back to readInput in main's loop.                                       *)
Return(p) ==
    /\ Goto(p, "idle")
    /\ Set(p, Idle)
    /\ before' = IF p = Manager THEN None ELSE before

-----------------------------------------------------------------------------
Init ==
    /\ pc = [p \in Services |-> "none"]
    /\ kids = [p \in Services |-> <<>>]
    /\ secret = [p \in Services |-> None]
    /\ frame = [p \in Services |-> Idle]
    /\ down = [p \in Services |-> <<>>]
    /\ up = [p \in Services |-> <<>>]
    /\ fifo = [e \in Pairs |-> None]
    /\ log = <<>>
    /\ before = None

(* The user runs the program, when nothing is left of an earlier run but   *)
(* files.                                                                  *)
StartManager ==
    /\ \A p \in Services : pc[p] = "none"
    /\ Goto(Manager, "idle")
    /\ kids' = [p \in Services |-> <<>>]
    /\ secret' = [p \in Services |-> IF p = Manager THEN p ELSE None]
    /\ log' = <<<<"created", Manager>>>>
    /\ UNCHANGED <<frame, down, up, fifo, before>>

(* A command enters its function; a "kill" of p itself is terminate().     *)
Dispatch(p, m) ==
    /\ Goto(p, IF m.op = "spawn" /\ m.a = p THEN "fork" ELSE "loop")
    /\ Set(p, [op |-> IF m.op = "kill" /\ m.a = p THEN "killall" ELSE m.op,
               a |-> m.a, b |-> m.b, found |-> m.found, k |-> 1, hit |-> FALSE,
               n |-> IF m.op = "exchange" /\ p \in {m.a, m.b} THEN 1 ELSE 0,
               wait |-> <<>>, got |-> None])

Echo(p, m) == IF m.op = "killall" THEN <<>> ELSE <<<<"heard", p, m.op, m.a, m.b>>>>

ReadLine(cmd) ==
    LET m == Msg(cmd.op, cmd.a, cmd.b, 0)
    IN  /\ pc[Manager] = "idle"
        /\ Dispatch(Manager, m)
        /\ log' = Echo(Manager, m)
        /\ before' = [alive |-> Running, kids |-> kids, secret |-> secret, job |-> cmd]
        /\ UNCHANGED <<kids, secret, down, up, fifo>>

(* read() returns whatever the pipe holds; OneMessage says it is one       *)
(* message.                                                                *)
Receive(p) ==
    /\ p # Manager /\ pc[p] = "idle" /\ down[p] # <<>>
    /\ Dispatch(p, Head(down[p]))
    /\ Drain(down, p)
    /\ log' = log \o Echo(p, Head(down[p]))
    /\ UNCHANGED <<kids, secret, up, fifo, before>>

-----------------------------------------------------------------------------
(* spawn_child: pipes and a process; then the parent waits for its byte.   *)
Fork(p) ==
    LET c == frame[p].b
    IN  /\ pc[p] = "fork" /\ pc[c] = "none"
        /\ pc' = [pc EXCEPT ![p] = "spawning", ![c] = "start"]
        /\ secret' = [secret EXCEPT ![c] = c]
        /\ kids' = [kids EXCEPT ![c] = <<>>]
        /\ down' = [down EXCEPT ![c] = <<>>]
        /\ up' = [up EXCEPT ![c] = <<>>]
        /\ UNCHANGED <<frame, fifo, log, before>>

Started(c) ==
    /\ pc[c] = "start"
    /\ Goto(c, "idle")
    /\ log' = Append(log, <<"created", c>>)
    /\ Reply(c, 1, 0)
    /\ UNCHANGED <<kids, secret, frame, down, fifo, before>>

AddKid(p, c) == kids' = [kids EXCEPT ![p] = Append(@, c)]

Handshake_NoWait(p) ==
    LET c == frame[p].b
    IN  /\ pc[p] = "spawning"
        /\ AddKid(p, c)
        /\ Goto(p, "loop")
        /\ Set(p, [frame[p] EXCEPT !.hit = TRUE])
        /\ UNCHANGED <<secret, down, up, fifo, log, before>>

Handshake(p) ==
    LET c == frame[p].b
    IN  /\ pc[p] = "spawning" /\ up[c] # <<>>
        /\ Drain(up, c)
        /\ AddKid(p, c)
        /\ Goto(p, "loop")
        /\ Set(p, [frame[p] EXCEPT !.hit = TRUE])
        /\ UNCHANGED <<secret, down, fifo, log, before>>

-----------------------------------------------------------------------------
(* The loops over the children: a message, then the child's answer.        *)
MoreKids_NoEarlyStop(p) ==
    frame[p].k <= Len(kids[p]) /\ ~frame[p].hit

MoreKids(p) ==
    /\ frame[p].k <= Len(kids[p])
    /\ ~frame[p].hit
    /\ frame[p].op = "exchange" => frame[p].found + frame[p].n < 2

CallChild(p) ==
    LET f == frame[p]
    IN  /\ pc[p] = "loop" /\ MoreKids(p)
        /\ Send(Child(p), IF f.op = "killall" THEN KillAll
                          ELSE Msg(f.op, f.a, f.b, f.found + f.n))
        /\ Goto(p, "wait")
        /\ UNCHANGED <<kids, secret, frame, up, fifo, log, before>>

Answered(p, op) ==
    /\ pc[p] = "wait" /\ frame[p].op = op
    /\ up[Child(p)] # <<>>
    /\ Drain(up, Child(p))
    /\ UNCHANGED <<kids, secret, down, fifo, log, before>>

SpawnAnswered(p) ==
    /\ Answered(p, "spawn")
    /\ Goto(p, "loop")
    /\ Set(p, IF Head(up[Child(p)]).status = 1
              THEN [frame[p] EXCEPT !.hit = TRUE] ELSE [frame[p] EXCEPT !.k = @ + 1])

(* 0: not there, 1: killed below the child, 2: the child is the victim.    *)
KillAnswered(p) ==
    LET r == Head(up[Child(p)])
    IN  /\ Answered(p, "kill")
        /\ Goto(p, IF r.status = 2 THEN "suicide" ELSE "loop")
        /\ Set(p, IF r.status = 0 THEN [frame[p] EXCEPT !.k = @ + 1]
                  ELSE [frame[p] EXCEPT !.n = r.n, !.hit = TRUE])

TerminateAnswered(p) ==
    LET r == Head(up[Child(p)])
    IN  /\ Answered(p, "killall")
        /\ r.status = 2
        /\ Goto(p, "suicide")
        /\ Set(p, [frame[p] EXCEPT !.n = (@ + r.n + 1) % 256])

ExchangeAnswered_LastOnly(p) ==
    LET f == frame[p]
        s == Head(up[Child(p)]).status
    IN  /\ Answered(p, "exchange")
        /\ Goto(p, "loop")
        /\ Set(p, [f EXCEPT !.k = @ + 1,
                            !.n = IF s = 2 THEN 2 ELSE @ + s,
                            !.wait = IF s = 0 THEN @ ELSE <<Child(p)>>])

ExchangeAnswered(p) ==
    LET f == frame[p]
        s == Head(up[Child(p)]).status
    IN  /\ Answered(p, "exchange")
        /\ Goto(p, "loop")
        /\ Set(p, [f EXCEPT !.k = @ + 1,
                            !.n = IF s = 2 THEN 2 ELSE @ + s,
                            !.wait = IF s = 0 THEN @ ELSE Append(@, Child(p))])

(* let_child_suicide: the child may go, and is waited for.                 *)
LetChildSuicide(p) ==
    /\ pc[p] = "suicide"
    /\ Send(Child(p), Agreed)
    /\ Goto(p, "reap")
    /\ UNCHANGED <<kids, secret, frame, up, fifo, log, before>>

Reap(p) ==
    /\ pc[p] = "reap" /\ pc[Child(p)] = "zombie"
    /\ pc' = [pc EXCEPT ![p] = "loop", ![Child(p)] = "none"]
    /\ kids' = [kids EXCEPT ![p] = RemoveAt(@, frame[p].k)]
    /\ UNCHANGED <<secret, frame, down, up, fifo, log, before>>

-----------------------------------------------------------------------------
(* After the loops.                                                        *)
Ended(p, op) == pc[p] = "loop" /\ frame[p].op = op /\ ~MoreKids(p)

SpawnEnds(p) ==
    LET f == frame[p]
    IN  /\ Ended(p, "spawn")
        /\ IF f.hit THEN Report(p, 1, 0, <<"spawned", f.a, f.b>>)
                    ELSE Report(p, 0, 0, <<"missing", f.a>>)
        /\ Return(p)
        /\ UNCHANGED <<kids, secret, down, fifo>>

KillEnds(p) ==
    LET f == frame[p]
    IN  /\ Ended(p, "kill")
        /\ IF f.hit THEN Report(p, 1, f.n, <<"killed", f.a, f.n>>)
                    ELSE Report(p, 0, 0, <<"missing", f.a>>)
        /\ Return(p)
        /\ UNCHANGED <<kids, secret, down, fifo>>

TerminateEnds(p) ==
    /\ Ended(p, "killall")
    /\ Report(p, 2, frame[p].n, <<"killed", p, frame[p].n>>)
    /\ IF p = Manager
       THEN /\ Goto(p, "none") /\ Set(p, Idle)
            /\ secret' = [secret EXCEPT ![p] = None]
            /\ before' = None
       ELSE Goto(p, "agree") /\ UNCHANGED <<secret, frame, before>>
    /\ UNCHANGED <<kids, down, fifo>>

Suicide(p) ==
    /\ pc[p] = "agree" /\ down[p] # <<>>
    /\ Head(down[p]) = Agreed
    /\ Drain(down, p)
    /\ Goto(p, "zombie") /\ Set(p, Idle)
    /\ secret' = [secret EXCEPT ![p] = None]
    /\ UNCHANGED <<kids, up, fifo, log, before>>

(* The count goes up; then a service that is named talks to its peer, and  *)
(* one that has it below waits.                                            *)
ExchangeEnds(p) ==
    LET f == frame[p]
    IN  /\ Ended(p, "exchange")
        /\ IF p = Manager /\ f.found + f.n = 2 THEN UNCHANGED <<up, log>>
           ELSE Report(p, f.n, 0, <<"missing", f.a>>)
        /\ IF f.n = 0 THEN Return(p)
           ELSE /\ Goto(p, IF p \in {f.a, f.b} THEN "mkfifo" ELSE "gather")
                /\ UNCHANGED <<frame, before>>
        /\ UNCHANGED <<kids, secret, down, fifo>>

MakeFifos_ReadFirst(p) ==
    /\ pc[p] = "mkfifo"
    /\ fifo' = [e \in Pairs |->
                  IF fifo[e] = None /\ e \in {<<p, Peer(p)>>, <<Peer(p), p>>}
                  THEN <<>> ELSE fifo[e]]
    /\ Goto(p, "read_fifo")
    /\ UNCHANGED <<kids, secret, frame, down, up, log, before>>

MakeFifos(p) ==
    /\ pc[p] = "mkfifo"
    /\ fifo' = [e \in Pairs |->
                  IF fifo[e] = None /\ e \in {<<p, Peer(p)>>, <<Peer(p), p>>}
                  THEN <<>> ELSE fifo[e]]
    /\ Goto(p, IF p = frame[p].a THEN "read_fifo" ELSE "write_fifo")
    /\ UNCHANGED <<kids, secret, frame, down, up, log, before>>

(* open() for writing returns when the reader opens as well; service a     *)
(* writes last and then adopts what it has read.                           *)
WriteFifo_AdoptsFirst(p) ==
    LET e == <<p, Peer(p)>>
        s == IF p = frame[p].a THEN frame[p].got ELSE secret[p]
    IN  /\ pc[p] = "write_fifo"
        /\ fifo[e] # None /\ pc[Peer(p)] = "read_fifo"
        /\ fifo' = [fifo EXCEPT ![e] = Append(@, s)]
        /\ secret' = [secret EXCEPT ![p] = s]
        /\ Goto(p, IF p = frame[p].a THEN "gather" ELSE "read_fifo")
        /\ UNCHANGED <<kids, frame, down, up, log, before>>

WriteFifo(p) ==
    LET e == <<p, Peer(p)>>
    IN  /\ pc[p] = "write_fifo"
        /\ fifo[e] # None /\ pc[Peer(p)] = "read_fifo"
        /\ fifo' = [fifo EXCEPT ![e] = Append(@, secret[p])]
        /\ IF p = frame[p].a
           THEN Goto(p, "gather") /\ secret' = [secret EXCEPT ![p] = frame[p].got]
           ELSE Goto(p, "read_fifo") /\ UNCHANGED secret
        /\ UNCHANGED <<kids, frame, down, up, log, before>>

ReadFifo(p) ==
    LET e == <<Peer(p), p>>
        s == Head(fifo[e])
    IN  /\ pc[p] = "read_fifo"
        /\ fifo[e] \notin {None, <<>>}
        /\ log' = Append(log, <<"acquired", p, Peer(p), s>>)
        /\ fifo' = [fifo EXCEPT ![e] = None]
        /\ IF p = frame[p].a
           THEN /\ Goto(p, "write_fifo") /\ Set(p, [frame[p] EXCEPT !.got = s])
                /\ UNCHANGED secret
           ELSE /\ Goto(p, "gather") /\ secret' = [secret EXCEPT ![p] = s]
                /\ UNCHANGED frame
        /\ UNCHANGED <<kids, down, up, before>>

Gather(p) ==
    LET f == frame[p]
    IN  /\ pc[p] = "gather"
        /\ \/ /\ f.wait # <<>> /\ up[Head(f.wait)] # <<>>
              /\ Drain(up, Head(f.wait))
              /\ Set(p, [f EXCEPT !.wait = Tail(@)])
              /\ UNCHANGED <<pc, log, before>>
           \/ /\ f.wait = <<>>
              /\ Report(p, 0, 0, <<"exchanged", f.a, f.b>>)
              /\ Return(p)
        /\ UNCHANGED <<kids, secret, down, fifo>>

-----------------------------------------------------------------------------
(* The Manager leaves at the end of its input; another service, when it    *)
(* reads its pipe and nobody can write to it any more.                     *)
EndOfInput ==
    /\ pc[Manager] = "idle"
    /\ Goto(Manager, "none")
    /\ UNCHANGED <<kids, secret, frame, down, up, fifo, log, before>>

HasParent(p) ==
    \E q \in Running : Contains(kids[q], p) \/ (pc[q] = "spawning" /\ frame[q].b = p)

Orphaned(p) ==
    /\ p # Manager /\ pc[p] = "idle" /\ down[p] = <<>>
    /\ ~HasParent(p)
    /\ Goto(p, "none")
    /\ UNCHANGED <<kids, secret, frame, down, up, fifo, log, before>>

Tree == INSTANCE ServiceTree WITH
    alive  <- IF before = None THEN Running ELSE before.alive,
    kids   <- IF before = None THEN kids ELSE before.kids,
    secret <- IF before = None THEN secret ELSE before.secret,
    job    <- IF before = None THEN None ELSE before.job,
    said   <- IF before = None THEN log ELSE <<>>

Step(p) ==
    \/ Receive(p) \/ Fork(p) \/ Started(p) \/ Handshake(p) \/ CallChild(p)
    \/ SpawnAnswered(p) \/ KillAnswered(p) \/ TerminateAnswered(p) \/ ExchangeAnswered(p)
    \/ LetChildSuicide(p) \/ Reap(p)
    \/ SpawnEnds(p) \/ KillEnds(p) \/ TerminateEnds(p) \/ Suicide(p) \/ ExchangeEnds(p)
    \/ MakeFifos(p) \/ WriteFifo(p) \/ ReadFifo(p) \/ Gather(p) \/ Orphaned(p)

Next ==
    \/ StartManager \/ EndOfInput
    \/ \E cmd \in Tree!Commands(Running) : ReadLine(cmd)
    \/ \E p \in Services : Step(p)

Spec == Init /\ [][Next]_vars

(* Every process that can go on does so; nobody has to type.               *)
FairSpec == Spec /\ \A p \in Services : WF_vars(Step(p))

-----------------------------------------------------------------------------
Values == Services \cup {None}

TypeOK ==
    /\ pc \in [Services -> {"none", "start", "idle", "fork", "spawning", "loop", "wait",
                            "suicide", "reap", "agree", "zombie", "mkfifo", "read_fifo",
                            "write_fifo", "gather"}]
    /\ kids \in [Services -> Seq(Services \ {Manager})]
    /\ secret \in [Services -> Values]
    /\ down \in [Services -> Seq([op : {"spawn", "kill", "killall", "exchange", "agree"},
                                  a : Values, b : Values, found : {0, 1}])]
    /\ up \in [Services -> Seq([status : 0..2, n : 0..255])]
    /\ fifo \in [Pairs -> {None, <<>>} \cup {<<s>> : s \in Services}]

(* read(fd, inputbuf, 128) does not see where a message ends: a second     *)
(* command in the pipe would be taken for arguments of the first. No       *)
(* parent writes before its child has taken the last message.              *)
OneMessage == \A c \in Services : Len(down[c]) <= 1

(* When the Manager reads its next line, the last command has left nothing *)
(* behind: every service waits for a command, no answer is left in a pipe  *)
(* to be taken for the next one, no FIFO is left and no zombie.            *)
Quiet ==
    pc[Manager] = "idle" =>
        /\ \A p \in Services : /\ pc[p] \in {"none", "idle"}
                               /\ down[p] = <<>> /\ up[p] = <<>>
        /\ \A e \in Pairs : fifo[e] = None

(* Seen between commands, the processes are the tree of ServiceTree, which *)
(* each command changes at once, and print what it prints, in its order.   *)
ActsAsTree == Tree!Spec

(* And a command that was read is carried out; all leave after the Manager *)
(* has: no traversal, kill or pair of FIFO opens ever blocks for good.     *)
ActsAsFairTree == Tree!FairSpec
=============================================================================
