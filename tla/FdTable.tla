------------------------------ MODULE FdTable ------------------------------
(***************************************************************************)
(* hw2: the file descriptors of the services. A new service must read its  *)
(* parent from descriptor 3 and write to it on 4, whatever numbers the     *)
(* pipes got, and inherit nothing else but 0, 1 and 2 (spawn_child); a     *)
(* killed one must give its parent's two descriptors back                  *)
(* (let_child_suicide); and when the Manager ends, each pipe must lose its *)
(* last writer, or its reader waits for ever (readInput).                  *)
(*                                                                         *)
(* Service has what is said over the pipes; here a command is only its     *)
(* system calls, and one command runs at a time. A kill of a subtree is a  *)
(* kill of its leaves, one by one. A table maps an open descriptor to the  *)
(* end of a pipe it stands for and its close-on-exec flag. Operators with  *)
(* a suffix like _NoCloexec are faulty variants that no action uses.       *)
(***************************************************************************)
EXTENDS Integers, SequencesExt

CONSTANTS Services, Manager,
          MaxFd   \* bound: no process ever needs a higher descriptor

ASSUME FdAssumption ==
    /\ Manager \in Services /\ IsFiniteSet(Services)
    /\ MaxFd \in Nat /\ MaxFd >= 2 * Cardinality(Services) + 6

VARIABLES table,      \* table[p]: descriptor -> [end, cloexec]
          pc,         \* where p stands; "none" if there is no process
          childlist,  \* childlist[p]: Child structs, with the child's name
          p2cfd, c2pfd, new   \* locals of the spawn_child under way

vars == <<table, pc, childlist, p2cfd, c2pfd, new>>

PARENT_READ_FD  == 3
PARENT_WRITE_FD == 4

(* The ends of the two pipes of service c, and the standard streams.       *)
DownRead(c)  == <<c, "down", "r">>
DownWrite(c) == <<c, "down", "w">>
UpRead(c)    == <<c, "up", "r">>
UpWrite(c)   == <<c, "up", "w">>
Std          == <<Manager, "std", "rw">>

(* System calls, as functions of a table.                                  *)
Lowest(t) == CHOOSE fd \in 0..MaxFd :
                fd \notin DOMAIN t /\ \A g \in 0..(fd - 1) : g \in DOMAIN t
Open(t, fd, end, cx) == [g \in DOMAIN t \cup {fd} |->
                            IF g = fd THEN [end |-> end, cloexec |-> cx] ELSE t[g]]
Close(t, fds) == [g \in DOMAIN t \ fds |-> t[g]]
Dup(t, fd)    == Open(t, Lowest(t), t[fd].end, FALSE)
Dup2(t, fd, to) == Open(t, to, t[fd].end, FALSE)
Exec(t)       == Close(t, {g \in DOMAIN t : t[g].cloexec})

Pipe2_NoCloexec(t, r, w) ==
    LET t1 == Open(t, Lowest(t), r, FALSE) IN Open(t1, Lowest(t1), w, FALSE)

Pipe2(t, r, w) ==
    LET t1 == Open(t, Lowest(t), r, TRUE) IN Open(t1, Lowest(t1), w, TRUE)

FdOf(t, end) == CHOOSE fd \in DOMAIN t : t[fd].end = end

Running == {p \in Services : pc[p] # "none"}
Calm    == \A p \in Running : pc[p] = "idle"    \* no command under way

Init ==
    /\ table = [p \in Services |-> <<>>]
    /\ pc = [p \in Services |-> "none"]
    /\ childlist = [p \in Services |-> <<>>]
    /\ p2cfd = <<>> /\ c2pfd = <<>> /\ new = <<>>

StartManager ==
    /\ Running = {}
    /\ pc' = [pc EXCEPT ![Manager] = "idle"]
    /\ table' = [table EXCEPT ![Manager] =
                    [fd \in 0..2 |-> [end |-> Std, cloexec |-> FALSE]]]
    /\ childlist' = [p \in Services |-> <<>>]
    /\ UNCHANGED <<p2cfd, c2pfd, new>>

-----------------------------------------------------------------------------
Pipes(p, c) ==
    LET t == Pipe2(Pipe2(table[p], DownRead(c), DownWrite(c)), UpRead(c), UpWrite(c))
    IN  /\ Manager \in Running /\ Calm
        /\ pc[p] = "idle" /\ pc[c] = "none"
        /\ table' = [table EXCEPT ![p] = t]
        /\ p2cfd' = <<FdOf(t, DownRead(c)), FdOf(t, DownWrite(c))>>
        /\ c2pfd' = <<FdOf(t, UpRead(c)), FdOf(t, UpWrite(c))>>
        /\ new' = <<c>>
        /\ pc' = [pc EXCEPT ![p] = "fork"]
        /\ UNCHANGED childlist

Fork(p) ==
    LET c == Head(new)
    IN  /\ pc[p] = "fork"
        /\ table' = [table EXCEPT ![c] = table[p]]
        /\ childlist' = [childlist EXCEPT ![c] = <<>>]
        /\ pc' = [pc EXCEPT ![p] = "close", ![c] = "setup"]
        /\ UNCHANGED <<p2cfd, c2pfd, new>>

(* The new ends are first moved out of the way of 3 and 4.                 *)
Setup_NoTemporaries(t) ==
    Close(Dup2(Dup2(t, c2pfd[2], PARENT_WRITE_FD), p2cfd[1], PARENT_READ_FD),
          {p2cfd[1], p2cfd[2], c2pfd[1], c2pfd[2]})

Setup_WrongEnd(t) ==
    LET tmp_write_fd == Lowest(t)
        t1 == Dup(t, c2pfd[2])
        tmp_read_fd == Lowest(t1)
        t2 == Close(Dup(t1, p2cfd[2]), {p2cfd[1], p2cfd[2], c2pfd[1], c2pfd[2]})
        t3 == Dup2(Dup2(t2, tmp_write_fd, PARENT_WRITE_FD), tmp_read_fd, PARENT_READ_FD)
    IN  Close(t3, {tmp_read_fd, tmp_write_fd})

Setup(t) ==
    LET tmp_write_fd == Lowest(t)
        t1 == Dup(t, c2pfd[2])
        tmp_read_fd == Lowest(t1)
        t2 == Close(Dup(t1, p2cfd[1]), {p2cfd[1], p2cfd[2], c2pfd[1], c2pfd[2]})
        t3 == Dup2(Dup2(t2, tmp_write_fd, PARENT_WRITE_FD), tmp_read_fd, PARENT_READ_FD)
    IN  Close(t3, {tmp_read_fd, tmp_write_fd})

(* Child: descriptors, then the new program, which sends its byte.         *)
ChildExec(c) ==
    /\ pc[c] = "setup"
    /\ table' = [table EXCEPT ![c] = Exec(Setup(@))]
    /\ pc' = [pc EXCEPT ![c] = "idle"]
    /\ UNCHANGED <<childlist, p2cfd, c2pfd, new>>

ParentCloses(p) ==
    /\ pc[p] = "close"
    /\ table' = [table EXCEPT ![p] = Close(@, {c2pfd[2], p2cfd[1]})]
    /\ pc' = [pc EXCEPT ![p] = "await"]
    /\ UNCHANGED <<childlist, p2cfd, c2pfd, new>>

AppendChild(p) ==
    /\ pc[p] = "await" /\ pc[Head(new)] = "idle"
    /\ childlist' = [childlist EXCEPT ![p] = Append(@,
                        [name |-> Head(new), readfd |-> c2pfd[1], writefd |-> p2cfd[2]])]
    /\ pc' = [pc EXCEPT ![p] = "idle"]
    /\ p2cfd' = <<>> /\ c2pfd' = <<>> /\ new' = <<>>
    /\ UNCHANGED table

-----------------------------------------------------------------------------
Exits(p) ==
    /\ table' = [table EXCEPT ![p] = <<>>]
    /\ UNCHANGED <<childlist, p2cfd, c2pfd, new>>

(* A service without children is told to go, and its parent lets go of it. *)
Suicide(p, i) ==
    LET c == childlist[p][i].name
    IN  /\ Manager \in Running /\ Calm /\ pc[p] = "idle"
        /\ childlist[c] = <<>>
        /\ pc' = [pc EXCEPT ![c] = "none", ![p] = "reap"]
        /\ Exits(c)

Reap(p, i) ==
    LET c == childlist[p][i]
    IN  /\ pc[p] = "reap" /\ pc[c.name] = "none"
        /\ table' = [table EXCEPT ![p] = Close(@, {c.readfd, c.writefd})]
        /\ childlist' = [childlist EXCEPT ![p] = RemoveAt(@, i)]
        /\ pc' = [pc EXCEPT ![p] = "idle"]
        /\ UNCHANGED <<p2cfd, c2pfd, new>>

EndOfInput ==
    /\ pc[Manager] = "idle" /\ Calm
    /\ pc' = [pc EXCEPT ![Manager] = "none"]
    /\ Exits(Manager)

(* read() returns 0 when no process holds the other end.                   *)
Eof(c) ==
    \E d \in Services :
        /\ PARENT_READ_FD \in DOMAIN table[c]
        /\ table[c][PARENT_READ_FD].end = DownRead(d)
        /\ \A p \in Services : \A fd \in DOMAIN table[p] : table[p][fd].end # DownWrite(d)

ReadsEof(c) ==
    /\ c # Manager /\ pc[c] = "idle" /\ Eof(c)
    /\ pc' = [pc EXCEPT ![c] = "none"]
    /\ Exits(c)

Step(p) ==
    \/ Fork(p) \/ ChildExec(p) \/ ParentCloses(p) \/ AppendChild(p)
    \/ ReadsEof(p)
    \/ \E i \in DOMAIN childlist[p] : Reap(p, i)

Next ==
    \/ StartManager \/ EndOfInput
    \/ \E p, c \in Services : Pipes(p, c)
    \/ \E p \in Services : \E i \in DOMAIN childlist[p] : Suicide(p, i)
    \/ \E p \in Services : Step(p)

Spec == Init /\ [][Next]_vars

(* A service whose read can return goes on; that is all AllLeave needs.    *)
FairSpec == Spec /\ \A p \in Services : WF_vars(ReadsEof(p))

-----------------------------------------------------------------------------
(* Between commands a process has its standard streams, its two ends of    *)
(* the pipes to its parent on 3 and 4, two ends per child where childlist  *)
(* says, and nothing else: 3 descriptors (Manager) or 5, and two per child *)
(* (scripts/fd_check.py counts them). None leaks, none is shared.          *)
FdsExact ==
    Calm => \A p \in Running :
        LET t    == table[p]
            list == childlist[p]
            own  == IF p = Manager THEN {} ELSE {PARENT_READ_FD, PARENT_WRITE_FD}
            kid  == UNION {{list[i].readfd, list[i].writefd} : i \in DOMAIN list}
        IN  /\ DOMAIN t = 0..2 \cup own \cup kid
            /\ Cardinality(DOMAIN t) = 3 + Cardinality(own) + 2 * Len(list)
            /\ \A fd \in 0..2 : t[fd].end = Std
            /\ p # Manager => /\ t[PARENT_READ_FD].end = DownRead(p)
                              /\ t[PARENT_WRITE_FD].end = UpWrite(p)
            /\ \A i \in DOMAIN list : /\ t[list[i].readfd].end = UpRead(list[i].name)
                                      /\ t[list[i].writefd].end = DownWrite(list[i].name)

(* When the Manager has ended, every service below it ends: nobody holds a *)
(* copy of the write end that would keep a reader waiting.                 *)
AllLeave == (Manager \notin Running) ~> (Running = {})
=============================================================================
