------------------------- MODULE ServiceInvariant -------------------------
(***************************************************************************)
(* The invariant of hw2 (IInv), what every step of Service changes, and    *)
(* that every step keeps the local variables (Framed) and the tree (Tidy)  *)
(* in order. The rest of the invariant, and what follows from it, are in   *)
(* ServiceProofs.                                                          *)
(*                                                                         *)
(* The invariant says, for each pair of parent and child, what is between  *)
(* them from where the parent stands (Link). The tree is ranked, so that   *)
(* whatever is not at rest has a parent that is busy with it, up to the    *)
(* Manager. The FIFOs need the order in which the two services of an       *)
(* exchange go through it, and that neither is asked a second time, which  *)
(* is read off the log (Told).                                             *)
(***************************************************************************)
EXTENDS Service, InductionLemmas, SequenceTheorems, TLAPS

USE ServiceAssumption

-----------------------------------------------------------------------------
Working == {"fork", "spawning", "loop", "wait", "suicide", "reap"}
After   == {"mkfifo", "read_fifo", "write_fifo", "gather"}
Busy    == Working \cup After \cup {"agree"}
Ops     == {"spawn", "kill", "killall", "exchange"}

(* The children of q, and the one it is just making.                       *)
Elems(s)  == {s[i] : i \in 1..Len(s)}
Unique(s) == \A i, j \in 1..Len(s) : s[i] = s[j] => i = j

ParOf(l, f, list, c) == c \in Elems(list) \/ (l = "spawning" /\ f.b = c)
Par(q, c)            == ParOf(pc[q], frame[q], kids[q], c)

-----------------------------------------------------------------------------
(* Local variables.                                                        *)
Frames == [op : Ops, a : Values, b : Values, found : {0, 1}, k : Nat \ {0},
           hit : BOOLEAN, n : 0..255, wait : Seq(Services), got : Values]

Named(f) ==
    /\ f.op = "spawn" => f.a \in Services /\ f.b \in Services
    /\ f.op = "kill" => f.a \in Services
    /\ f.op = "exchange" => <<f.a, f.b>> \in Pairs

Counted(f) ==
    /\ f.op # "exchange" => f.wait = <<>> /\ f.found = 0
    /\ f.op = "spawn" => f.n = 0
    /\ f.op = "kill" /\ ~f.hit => f.n = 0
    /\ f.op = "killall" => ~f.hit /\ f.k = 1
    /\ f.op = "exchange" => ~f.hit /\ f.n <= 2 /\ (f.wait # <<>> => f.n >= 1)

(* The answers that are still awaited are of children already passed.      *)
Awaits(f, list) ==
    /\ Unique(f.wait)
    /\ \A i \in 1..Len(f.wait) : \E j \in 1..Len(list) : j < f.k /\ f.wait[i] = list[j]

(* What a process at place l, with f and children list, is up to.          *)
Stands(p, l, f, list) ==
    /\ l \in {"fork", "spawning"} => f.op = "spawn" /\ f.a = p /\ f.k = 1 /\ ~f.hit
    /\ l = "wait" => /\ f.k <= Len(list) /\ ~f.hit
                     /\ f.op = "exchange" => f.found + f.n < 2
    /\ l \in {"suicide", "reap"} => /\ f.k <= Len(list)
                                    /\ f.op = "killall" \/ (f.op = "kill" /\ f.hit)
    /\ l = "agree" => f.op = "killall" /\ list = <<>> /\ p # Manager
    /\ l \in After => f.op = "exchange"
    /\ l \in After \ {"gather"} => p \in {f.a, f.b}
    /\ l = "write_fifo" /\ p = f.a => f.got \in Services
    /\ f.op = "exchange" /\ p \in {f.a, f.b} => f.n >= 1

FrameOK(p, l, f, list) ==
    /\ f \in Frames
    /\ Named(f) /\ Counted(f) /\ Awaits(f, list) /\ Stands(p, l, f, list)

Framed == \A p \in Services : IF pc[p] \in Busy THEN FrameOK(p, pc[p], frame[p], kids[p])
                                                ELSE frame[p] = Idle

(* What is printed.                                                        *)
Entries ==
    {<<"created", c>> : c \in Services}
    \cup {<<"heard", x[1], x[2], x[3], x[4]>> : x \in Services \X Ops \X Values \X Values}
    \cup {<<"spawned", x, y>> : x \in Services, y \in Services}
    \cup {<<"killed", x, n>> : x \in Services, n \in 0..255}
    \cup {<<"exchanged", x, y>> : x \in Services, y \in Services}
    \cup {<<"missing", x>> : x \in Services}
    \cup {<<"acquired", x[1], x[2], x[3]>> : x \in Services \X Services \X Services}

Typed ==
    /\ TypeOK
    /\ frame = [p \in Services |-> frame[p]]
    /\ log \in Seq(Entries)

(* Whoever runs has a secret; nothing is in the pipes of who does not.     *)
Lives ==
    \A p \in Services :
      /\ pc[p] \notin {"none", "zombie"} => secret[p] \in Services
      /\ pc[p] = "none" \/ p = Manager => down[p] = <<>> /\ up[p] = <<>>

-----------------------------------------------------------------------------
(* The tree.                                                               *)
Family ==
    /\ \A q \in Running : /\ Unique(kids[q])
                          /\ ~Par(q, Manager)
                          /\ pc[q] = "spawning" => frame[q].b \notin Elems(kids[q])
    /\ \A q, r \in Running : \A c \in Services : Par(q, c) /\ Par(r, c) => q = r

Attached ==
    \A c \in Services \ {Manager} : pc[c] # "none" => \E q \in Running : Par(q, c)

Grows(rank) ==
    \A q \in Running : \A c \in Services : Par(q, c) => rank[q] < rank[c]

Ranked == \E rank \in [Services -> Nat] : Grows(rank)

-----------------------------------------------------------------------------
(* Between a parent at rel, with the local variables f, and its child at   *)
(* cp, with the command cop: what is in the pipes d to it and u from it.   *)
Order(f) == IF f.op = "killall" THEN KillAll ELSE Msg(f.op, f.a, f.b, f.found + f.n)

AtRest(cp, d, u) == cp = "idle" /\ d = <<>> /\ u = <<>>

Fits(op, s, cp) ==
    \/ s = 0 /\ cp = "idle" /\ op # "killall"
    \/ s = 1 /\ cp = "idle" /\ op \in {"spawn", "kill"}
    \/ s = 2 /\ cp = "agree" /\ op \in {"kill", "killall"}
    \/ s \in {1, 2} /\ cp \in After /\ op = "exchange"

Asked(f, cp, cop, d, u) ==
    \/ cp = "idle" /\ d = <<Order(f)>> /\ u = <<>>
    \/ cp \in Working /\ d = <<>> /\ u = <<>> /\ (cop = f.op \/ (f.op = "kill" /\ cop = "killall"))
    \/ d = <<>> /\ Len(u) = 1 /\ Fits(f.op, u[1].status, cp)
    \/ d = <<>> /\ Len(u) = 2 /\ cp = "idle" /\ f.op = "exchange" /\ u[1].status \in {1, 2}

Pending(cp, d, u) ==
    \/ cp \in After /\ d = <<>> /\ u = <<>>
    \/ cp = "idle" /\ d = <<>> /\ Len(u) = 1

Going(cp, d, u) ==
    \/ cp = "agree" /\ d = <<Agreed>> /\ u = <<>>
    \/ cp = "zombie" /\ d = <<>> /\ u = <<>>

Born(cp, d, u) ==
    \/ cp = "start" /\ d = <<>> /\ u = <<>>
    \/ cp = "idle" /\ d = <<>> /\ Len(u) = 1

Link(rel, f, cp, cop, d, u) ==
    /\ rel = "wait" => Asked(f, cp, cop, d, u)
    /\ rel = "suicide" => cp = "agree" /\ d = <<>> /\ u = <<>>
    /\ rel = "reap" => Going(cp, d, u)
    /\ rel = "spawning" => Born(cp, d, u)
    /\ rel = "pending" => Pending(cp, d, u)
    /\ rel = "rest" => AtRest(cp, d, u)

(* How a parent stands to its child c.                                     *)
Rel(l, f, list, c) ==
    IF l \in {"wait", "suicide", "reap"} /\ list[f.k] = c THEN l
    ELSE IF l = "spawning" /\ f.b = c THEN l
    ELSE IF l \in Busy /\ c \in Elems(f.wait) THEN "pending"
    ELSE "rest"

Linked(q, c) ==
    Link(Rel(pc[q], frame[q], kids[q], c), frame[q], pc[c], frame[c].op, down[c], up[c])

Links == \A q \in Running : \A c \in Services : Par(q, c) => Linked(q, c)

-----------------------------------------------------------------------------
(* All do the command that the Manager read.                               *)
Does(f) ==
    IF f.op = "killall" THEN before.job.op = "kill"
    ELSE f.op = before.job.op /\ f.a = before.job.a /\ f.b = before.job.b

Together == \A p \in Services : pc[p] \in Busy => Does(frame[p])

Exchanging == pc[Manager] \in Busy /\ before.job.op = "exchange"

(* Who has been asked to exchange secrets: no one before its parent, and   *)
(* the children one after the other.                                       *)
Heard(p) == \E i \in 1..Len(log) : log[i][1] = "heard" /\ log[i][2] = p

InTurn(q, i) ==
    i < frame[q].k \/ (i = frame[q].k /\ pc[q] = "wait" /\ down[kids[q][i]] = <<>>)

Told ==
    Exchanging =>
      /\ \A q \in Running : \A c \in Elems(kids[q]) : Heard(c) => Heard(q)
      /\ \A q \in Services : pc[q] \in Busy =>
           /\ Heard(q)
           /\ \A i \in 1..Len(kids[q]) : Heard(kids[q][i]) => InTurn(q, i)

(* How far the two have come, and what the FIFOs hold.                     *)
Opens    == {"read_fifo", "write_fifo"}
Early(p) == pc[p] \notin Opens /\ (Heard(p) => pc[p] \in {"loop", "wait", "mkfifo"})
Late(p)  == pc[p] \notin Opens \cup {"loop", "wait", "mkfifo"} /\ Heard(p)

Hold(a, b, x, y) == fifo[<<b, a>>] = x /\ fifo[<<a, b>>] = y

Swap(a, b) ==
    \/ Early(a) /\ Early(b) /\ Hold(a, b, None, None)
    \/ pc[a] = "read_fifo" /\ Early(b) /\ Hold(a, b, <<>>, <<>>)
    \/ Early(a) /\ pc[b] = "write_fifo" /\ Hold(a, b, <<>>, <<>>)
    \/ pc[a] = "read_fifo" /\ pc[b] = "write_fifo" /\ Hold(a, b, <<>>, <<>>)
    \/ pc[a] = "read_fifo" /\ pc[b] = "read_fifo" /\ \E s \in Services : Hold(a, b, <<s>>, <<>>)
    \/ pc[a] = "write_fifo" /\ pc[b] = "read_fifo" /\ Hold(a, b, None, <<>>)
    \/ Late(a) /\ pc[b] = "read_fifo" /\ \E s \in Services : Hold(a, b, None, <<s>>)
    \/ Late(a) /\ Late(b) /\ Hold(a, b, None, None)

Fifos ==
    IF Exchanging
    THEN LET a == before.job.a
             b == before.job.b
         IN  /\ Swap(a, b)
             /\ \A e \in Pairs \ {<<a, b>>, <<b, a>>} : fifo[e] = None
    ELSE \A e \in Pairs : fifo[e] = None

-----------------------------------------------------------------------------
(* After the Manager's end the others only leave.                          *)
Leaving ==
    /\ \A p \in Services : pc[p] \in {"none", "idle"} /\ down[p] = <<>> /\ up[p] = <<>>
    /\ \A e \in Pairs : fifo[e] = None

Alive ==
    /\ pc[Manager] \notin {"start", "agree", "zombie"}
    /\ Family /\ Attached /\ Ranked
    /\ Links /\ Together /\ Told /\ Fifos

IInv == Typed /\ Framed /\ Lives /\ IF pc[Manager] = "none" THEN Leaving ELSE Alive

-----------------------------------------------------------------------------
(* What a step of a child makes of the link to its parent.                 *)
Rels    == {"wait", "suicide", "reap", "spawning", "pending", "rest"}
Answers == [status : 0..2, n : 0..255]

(* Appending an answer and taking the first one.                           *)
LEMMA Answering ==
  ASSUME NEW u \in Seq(Answers), NEW r \in Answers
  PROVE  /\ Append(u, r) \in Seq(Answers) /\ Len(Append(u, r)) = Len(u) + 1
         /\ Len(u) = 0 <=> u = <<>>
         /\ Len(u) \in Nat
         /\ Len(u) = 0 => Append(u, r)[1] = r
         /\ Len(u) > 0 => Append(u, r)[1] = u[1]
         /\ u # <<>> => /\ Head(u) = u[1] /\ u[1] \in Answers
                        /\ Tail(u) \in Seq(Answers) /\ Len(Tail(u)) = Len(u) - 1
                        /\ Len(u) = 1 => Tail(u) = <<>>
<1>1. /\ Append(u, r) \in Seq(Answers) /\ Len(Append(u, r)) = Len(u) + 1
      /\ Len(u) = 0 <=> u = <<>>
      /\ Len(u) \in Nat
      /\ Len(u) = 0 => Append(u, r)[1] = r
      /\ Len(u) > 0 => Append(u, r)[1] = u[1]
  OBVIOUS
<1>2. ASSUME u # <<>>
      PROVE  /\ Head(u) = u[1] /\ u[1] \in Answers
             /\ Tail(u) \in Seq(Answers) /\ Len(Tail(u)) = Len(u) - 1
  BY <1>2
<1>3. ASSUME Len(u) = 1 PROVE Tail(u) = <<>>
  <2>1. u # <<>>
    BY <1>1, <1>3
  <2>2. Tail(u) \in Seq(Answers) /\ Len(Tail(u)) = 0
    BY <1>2, <1>3, <2>1
  <2> QED
    BY <2>2, EmptySeq
<1> QED
  BY <1>1, <1>2, <1>3

(* A child at work stays at work.                                          *)
LEMMA LinkWorking ==
  ASSUME NEW rel \in Rels, NEW f, NEW cp \in Working, NEW x \in Working,
         NEW cop, NEW d, NEW u,
         Link(rel, f, cp, cop, d, u)
  PROVE  Link(rel, f, x, cop, d, u)
BY DEF Link, Asked, AtRest, Fits, Pending, Going, Born, Working, After, Rels

(* It is at work only for a parent that waits.                             *)
LEMMA WorkingWaits ==
  ASSUME NEW rel \in Rels, NEW f, NEW cp \in Working, NEW cop, NEW d, NEW u,
         Link(rel, f, cp, cop, d, u)
  PROVE  /\ rel = "wait" /\ d = <<>> /\ u = <<>>
         /\ cop = f.op \/ (f.op = "kill" /\ cop = "killall")
BY DEF Link, Asked, AtRest, Fits, Pending, Going, Born, Working, After, Rels

(* A child answers spawn or kill.                                          *)
LEMMA LinkReturn ==
  ASSUME NEW rel \in Rels, NEW f, NEW cp \in Working, NEW cop, NEW d,
         NEW u \in Seq(Answers), NEW r \in Answers, NEW x,
         Link(rel, f, cp, cop, d, u), cop \in {"spawn", "kill"},
         r.status \in {0, 1}
  PROVE  Link(rel, f, "idle", x, d, Append(u, r))
<1>1. /\ rel = "wait" /\ d = <<>> /\ u = <<>>
      /\ cop = f.op \/ (f.op = "kill" /\ cop = "killall")
  BY WorkingWaits
<1>2. Len(Append(u, r)) = 1 /\ Append(u, r)[1] = r
  BY <1>1, Answering
<1>3. Fits(f.op, r.status, "idle")
  BY <1>1 DEF Fits
<1> QED
  BY <1>1, <1>2, <1>3 DEF Link, Asked

(* A child that is to die has killed what is below it.                     *)
LEMMA LinkTerminate ==
  ASSUME NEW rel \in Rels, NEW f, NEW cp \in Working, NEW cop, NEW d,
         NEW u \in Seq(Answers), NEW r \in Answers, NEW x,
         Link(rel, f, cp, cop, d, u), cop = "killall", r.status = 2
  PROVE  Link(rel, f, "agree", x, d, Append(u, r))
<1>1. /\ rel = "wait" /\ d = <<>> /\ u = <<>>
      /\ cop = f.op \/ (f.op = "kill" /\ cop = "killall")
  BY WorkingWaits
<1>2. Len(Append(u, r)) = 1 /\ Append(u, r)[1] = r
  BY <1>1, Answering
<1>3. Fits(f.op, r.status, "agree")
  BY <1>1 DEF Fits
<1> QED
  BY <1>1, <1>2, <1>3 DEF Link, Asked

(* A child has counted the names it found.                                 *)
LEMMA LinkCount ==
  ASSUME NEW rel \in Rels, NEW f, NEW cp \in Working, NEW cop, NEW d,
         NEW u \in Seq(Answers), NEW r \in Answers, NEW x, NEW y,
         Link(rel, f, cp, cop, d, u), cop = "exchange",
         \/ r.status = 0 /\ x = "idle"
         \/ r.status \in {1, 2} /\ x \in After
  PROVE  Link(rel, f, x, y, d, Append(u, r))
<1>1. /\ rel = "wait" /\ d = <<>> /\ u = <<>>
      /\ cop = f.op \/ (f.op = "kill" /\ cop = "killall")
  BY WorkingWaits
<1>2. Len(Append(u, r)) = 1 /\ Append(u, r)[1] = r
  BY <1>1, Answering
<1>3. Fits(f.op, r.status, x)
  BY <1>1 DEF Fits
<1> QED
  BY <1>1, <1>2, <1>3 DEF Link, Asked

(* A child goes on with the exchange.                                      *)
LEMMA LinkAfter ==
  ASSUME NEW rel \in Rels, NEW f, NEW cp \in After, NEW x \in After,
         NEW cop, NEW d, NEW u,
         Link(rel, f, cp, cop, d, u)
  PROVE  Link(rel, f, x, cop, d, u)
BY DEF Link, Asked, AtRest, Fits, Pending, Going, Born, Working, After, Rels

(* And is done with it.                                                    *)
LEMMA LinkDone ==
  ASSUME NEW rel \in Rels, NEW f, NEW cp \in After, NEW cop, NEW d,
         NEW u \in Seq(Answers), NEW r \in Answers, NEW x,
         Link(rel, f, cp, cop, d, u)
  PROVE  Link(rel, f, "idle", x, d, Append(u, r))
<1>1. \/ /\ rel = "wait" /\ d = <<>> /\ Len(u) = 1
         /\ f.op = "exchange" /\ u[1].status \in {1, 2}
      \/ rel = "pending" /\ d = <<>> /\ u = <<>>
  BY DEF Link, Asked, AtRest, Fits, Pending, Going, Born, Working, After, Rels
<1>2. /\ Len(Append(u, r)) = Len(u) + 1
      /\ Len(u) > 0 => Append(u, r)[1] = u[1]
  BY Answering
<1>3. CASE rel = "wait"
  <2>0. Len(u) = 1 /\ u[1].status \in {1, 2}
    BY <1>1, <1>3
  <2>1. Len(Append(u, r)) = 2 /\ Append(u, r)[1].status \in {1, 2}
    <3>1. Append(u, r)[1] = u[1]
      BY <1>2, <2>0
    <3> QED
      BY <1>2, <2>0, <3>1
  <2> QED
    BY <1>1, <1>3, <2>1 DEF Link, Asked
<1>4. CASE rel = "pending"
  <2>1. Len(Append(u, r)) = 1
    BY <1>1, <1>2, <1>4
  <2> QED
    BY <1>1, <1>4, <2>1 DEF Link, Pending
<1> QED
  BY <1>1, <1>3, <1>4

(* A child reads a command.                                                *)
LEMMA LinkReceive ==
  ASSUME NEW rel \in Rels, NEW f, NEW cop, NEW d, NEW u,
         Link(rel, f, "idle", cop, d, u), d # <<>>
  PROVE  /\ rel = "wait" /\ d = <<Order(f)>> /\ u = <<>>
         /\ Head(d) = Order(f) /\ Tail(d) = <<>> /\ Order(f).op = f.op
         /\ \A x \in Working : \A y :
              y = f.op \/ (f.op = "kill" /\ y = "killall") => Link(rel, f, x, y, <<>>, u)
<1>1. rel = "wait" /\ d = <<Order(f)>> /\ u = <<>>
  BY DEF Link, Asked, AtRest, Fits, Pending, Going, Born, Working, After, Rels
<1>2. Head(d) = Order(f) /\ Tail(d) = <<>>
  BY <1>1
<1>3. Order(f).op = f.op
  BY DEF Order, KillAll, Msg
<1>4. \A x \in Working : \A y :
        y = f.op \/ (f.op = "kill" /\ y = "killall") => Link(rel, f, x, y, <<>>, u)
  BY <1>1 DEF Link, Asked
<1> QED
  BY <1>1, <1>2, <1>3, <1>4

(* A new child says that it is there.                                      *)
LEMMA LinkStarted ==
  ASSUME NEW rel \in Rels, NEW f, NEW cop, NEW d,
         NEW u \in Seq(Answers), NEW r \in Answers,
         Link(rel, f, "start", cop, d, u)
  PROVE  rel = "spawning" /\ Link(rel, f, "idle", cop, d, Append(u, r))
<1>1. rel = "spawning" /\ d = <<>> /\ u = <<>>
  BY DEF Link, Asked, AtRest, Fits, Pending, Going, Born, Working, After, Rels
<1>2. Len(Append(u, r)) = 1
  BY <1>1, Answering
<1> QED
  BY <1>1, <1>2 DEF Link, Born

(* A child that was told it may go is gone.                                *)
LEMMA LinkSuicide ==
  ASSUME NEW rel \in Rels, NEW f, NEW cop, NEW d, NEW u, NEW x,
         Link(rel, f, "agree", cop, d, u), d # <<>>
  PROVE  rel = "reap" /\ Tail(d) = <<>> /\ Link(rel, f, "zombie", x, <<>>, u)
<1>1. rel = "reap" /\ d = <<Agreed>> /\ u = <<>>
  BY DEF Link, Asked, AtRest, Fits, Pending, Going, Born, Working, After, Rels
<1>2. Tail(d) = <<>>
  BY <1>1
<1> QED
  BY <1>1, <1>2 DEF Link, Going

(* No link is to a process that does not exist.                            *)
LEMMA LinkExists ==
  ASSUME NEW rel \in Rels, NEW f, NEW cop, NEW d, NEW u
  PROVE  ~Link(rel, f, "none", cop, d, u)
BY DEF Link, Asked, AtRest, Fits, Pending, Going, Born, Working, After, Rels

(* Never two messages on the way down.                                     *)
LEMMA LinkOne ==
  ASSUME NEW rel \in Rels, NEW f, NEW cp, NEW cop, NEW d, NEW u,
         Link(rel, f, cp, cop, d, u)
  PROVE  Len(d) <= 1
<1>1. d = <<>> \/ d = <<Order(f)>> \/ d = <<Agreed>>
  BY DEF Link, Asked, AtRest, Fits, Pending, Going, Born, Rels
<1>2. Len(<<>>) <= 1 /\ \A m : Len(<<m>>) <= 1
  OBVIOUS
<1> QED
  BY <1>1, <1>2

(* How a parent stands is one of six.                                      *)
LEMMA RelKind ==
  ASSUME NEW l, NEW f, NEW list, NEW c
  PROVE  /\ Rel(l, f, list, c) \in Rels
         /\ l \in {"idle", "start", "fork"} => Rel(l, f, list, c) = "rest" \/ l = "fork"
         /\ l \in {"idle", "start"} => Rel(l, f, list, c) = "rest"
BY DEF Rel, Rels, Busy, Working, After

-----------------------------------------------------------------------------
(* What the parent makes of its own links.                                 *)
LEMMA AnswerRead ==
  ASSUME NEW f, NEW cp, NEW cop, NEW d, NEW u \in Seq(Answers),
         Asked(f, cp, cop, d, u), u # <<>>
  PROVE  /\ d = <<>>
         /\ f.op = "spawn" => AtRest(cp, d, Tail(u))
         /\ f.op = "kill" => IF Head(u).status = 2 THEN cp = "agree" /\ Tail(u) = <<>>
                                                    ELSE AtRest(cp, d, Tail(u))
         /\ f.op = "killall" => cp = "agree" /\ Tail(u) = <<>>
         /\ f.op = "exchange" => IF Head(u).status = 0 THEN AtRest(cp, d, Tail(u))
                                                        ELSE Pending(cp, d, Tail(u))
<1>1. Head(u) = u[1] /\ (Len(u) = 1 => Tail(u) = <<>>) /\ Len(Tail(u)) = Len(u) - 1
  BY Answering
<1>2. CASE d = <<>> /\ Len(u) = 1 /\ Fits(f.op, u[1].status, cp)
  BY <1>1, <1>2 DEF Fits, AtRest, Pending
<1>3. CASE d = <<>> /\ Len(u) = 2 /\ cp = "idle" /\ f.op = "exchange" /\ u[1].status \in {1, 2}
  <2>1. Len(Tail(u)) = 1
    BY <1>1, <1>3
  <2> QED
    BY <1>1, <1>3, <2>1 DEF Pending
<1> QED
  BY <1>2, <1>3 DEF Asked

(* Whoever has a place in a command has a frame, and the Manager is there. *)
LEMMA BusyFacts ==
  ASSUME IInv, NEW p \in Services, pc[p] \in Busy
  PROVE  /\ pc[Manager] # "none" /\ Alive
         /\ FrameOK(p, pc[p], frame[p], kids[p]) /\ frame[p] \in Frames
         /\ p \in Running /\ Does(frame[p])
<1>1. p \in Running /\ pc[p] \notin {"none", "idle"}
  BY DEF Running, Busy, Working, After
<1>2. pc[Manager] # "none" /\ Alive
  BY <1>1 DEF IInv, Leaving
<1>3. FrameOK(p, pc[p], frame[p], kids[p])
  BY DEF IInv, Framed
<1> QED
  BY <1>1, <1>2, <1>3 DEF FrameOK, Alive, Together

(* Par, for a member of the list.                                          *)
LEMMA ListPar ==
  ASSUME IInv, Alive, NEW q \in Running, NEW i \in 1..Len(kids[q])
  PROVE  /\ kids[q][i] \in Services \ {Manager, q}
         /\ kids[q][i] \in Elems(kids[q])
         /\ Par(q, kids[q][i]) /\ Linked(q, kids[q][i])
         /\ pc[kids[q][i]] # "none"
         /\ \A r \in Running : Par(r, kids[q][i]) => r = q
<1> DEFINE c == kids[q][i]
<1>1. kids[q] \in Seq(Services \ {Manager}) /\ q \in Services
  BY DEF IInv, Typed, TypeOK, Running
<1>2. c \in Services \ {Manager} /\ c \in Elems(kids[q])
  BY <1>1 DEF Elems
<1>3. Par(q, c)
  BY <1>2 DEF Par, ParOf
<1>4. Linked(q, c)
  BY <1>2, <1>3 DEF Alive, Links
<1>5. c # q
  <2>1. PICK rank \in [Services -> Nat] : Grows(rank)
    BY DEF Alive, Ranked
  <2>2. rank[q] < rank[c]
    BY <1>2, <1>3, <2>1 DEF Grows
  <2> QED
    BY <1>1, <2>1, <2>2
<1>6. pc[c] # "none"
  BY <1>4, RelKind, LinkExists DEF Linked
<1>7. \A r \in Running : Par(r, c) => r = q
  BY <1>2, <1>3 DEF Alive, Family
<1> QED
  BY <1>2, <1>3, <1>4, <1>5, <1>6, <1>7

(* The child at the list pointer.                                          *)
LEMMA ChildFacts ==
  ASSUME IInv, NEW p \in Services, pc[p] \in Busy, frame[p].k <= Len(kids[p])
  PROVE  /\ frame[p].k \in 1..Len(kids[p])
         /\ Child(p) \in Services \ {Manager, p}
         /\ Par(p, Child(p)) /\ Linked(p, Child(p))
         /\ pc[Child(p)] # "none"
         /\ \A r \in Running : Par(r, Child(p)) => r = p
<1>1. frame[p] \in Frames /\ p \in Running /\ Alive
  BY BusyFacts
<1>2. kids[p] \in Seq(Services \ {Manager})
  BY DEF IInv, Typed, TypeOK
<1>3. Len(kids[p]) \in Nat /\ frame[p].k \in Nat \ {0}
  BY <1>1, <1>2 DEF Frames
<1>4. frame[p].k \in 1..Len(kids[p])
  BY <1>3
<1> QED
  BY <1>1, <1>4, ListPar DEF Child

(* Everyone but the Manager has a parent.                                  *)
LEMMA ParentFacts ==
  ASSUME IInv, Alive, NEW c \in Services \ {Manager}, pc[c] # "none"
  PROVE  \E q \in Running : q \in Services \ {c} /\ Par(q, c) /\ Linked(q, c)
<1>1. PICK q \in Running : Par(q, c)
  BY DEF Alive, Attached
<1>2. Linked(q, c)
  BY <1>1 DEF Alive, Links
<1>3. q # c
  <2>1. PICK rank \in [Services -> Nat] : Grows(rank)
    BY DEF Alive, Ranked
  <2>2. rank[q] < rank[c]
    BY <1>1, <2>1 DEF Grows
  <2> QED
    BY <2>1, <2>2
<1> QED
  BY <1>1, <1>2, <1>3 DEF Running

(* If the Manager is busy with nobody, everyone else is at rest.           *)
LEMMA AllStill ==
  ASSUME IInv, Alive,
         \A c \in Services : Par(Manager, c) => AtRest(pc[c], down[c], up[c])
  PROVE  \A c \in Services \ {Manager} :
            pc[c] = "none" \/ AtRest(pc[c], down[c], up[c])
<1> DEFINE U == {c \in Services \ {Manager} :
                    ~(pc[c] = "none" \/ AtRest(pc[c], down[c], up[c]))}
<1>1. PICK rank \in [Services -> Nat] : Grows(rank)
  BY DEF Alive, Ranked
<1> DEFINE T == {rank[c] : c \in U}
<1>2. SUFFICES ASSUME U # {} PROVE FALSE
  OBVIOUS
<1>3. T \in SUBSET Nat /\ T # {}
  BY <1>2
<1>4. PICK m \in T : \A n \in T : m <= n
  <2> HIDE DEF T
  <2> QED
    BY <1>3, LeastElement
<1>5. PICK c \in U : m = rank[c]
  BY <1>4
<1>6. PICK q \in Running : q \in Services \ {c} /\ Par(q, c) /\ Linked(q, c)
  BY <1>5, ParentFacts
<1>7. rank[q] < rank[c] /\ q # Manager
  BY <1>1, <1>5, <1>6 DEF Grows
<1>8. q \notin U
  <2>1. ASSUME q \in U PROVE FALSE
    <3>1. rank[q] \in T
      BY <2>1
    <3>2. rank[c] <= rank[q]
      BY <1>4, <1>5, <3>1
    <3> QED
      BY <1>1, <1>6, <1>7, <3>2
  <2> QED
    BY <2>1
<1>9. pc[q] = "idle"
  BY <1>6, <1>7, <1>8 DEF AtRest, Running
<1>10. AtRest(pc[c], down[c], up[c])
  <2>1. Rel(pc[q], frame[q], kids[q], c) = "rest"
    BY <1>9, RelKind
  <2> QED
    BY <1>6, <2>1 DEF Linked, Link
<1> QED
  BY <1>5, <1>10

-----------------------------------------------------------------------------
(* What each step changes, of the processes and the pipes.                 *)
Same(r)   == /\ pc'[r] = pc[r] /\ frame'[r] = frame[r] /\ kids'[r] = kids[r]
             /\ down'[r] = down[r] /\ up'[r] = up[r]
Others(P) == \A r \in Services \ P : Same(r)

At(r, l, f, list) == pc'[r] = l /\ frame'[r] = f /\ kids'[r] = list
Pipe(r, d, u)     == down'[r] = d /\ up'[r] = u

Replied(p, s, n) == IF p = Manager THEN up[p] ELSE Append(up[p], [status |-> s, n |-> n])

Place(p, m) == IF m.op = "spawn" /\ m.a = p THEN "fork" ELSE "loop"
Enter(p, m) == [op |-> IF m.op = "kill" /\ m.a = p THEN "killall" ELSE m.op,
                a |-> m.a, b |-> m.b, found |-> m.found, k |-> 1, hit |-> FALSE,
                n |-> IF m.op = "exchange" /\ p \in {m.a, m.b} THEN 1 ELSE 0,
                wait |-> <<>>, got |-> None]

(* The variables are functions on the services.                            *)
LEMMA Arrays ==
  ASSUME IInv
  PROVE  /\ pc = [p \in Services |-> pc[p]] /\ kids = [p \in Services |-> kids[p]]
         /\ frame = [p \in Services |-> frame[p]] /\ secret = [p \in Services |-> secret[p]]
         /\ down = [p \in Services |-> down[p]] /\ up = [p \in Services |-> up[p]]
         /\ fifo = [e \in Pairs |-> fifo[e]]
BY DEF IInv, Typed, TypeOK

(* A command is read from the pipe.                                        *)
LEMMA ReceiveDoes ==
  ASSUME IInv, NEW p \in Services, Receive(p)
  PROVE  /\ At(p, Place(p, Head(down[p])), Enter(p, Head(down[p])), kids[p])
         /\ Pipe(p, Tail(down[p]), up[p]) /\ Others({p})
BY Arrays DEF Receive, Dispatch, Goto, Set, Drain, At, Pipe, Others, Same, Place, Enter

(* The Manager reads a line.                                               *)
LEMMA ReadLineDoes ==
  ASSUME IInv, NEW cmd, ReadLine(cmd)
  PROVE  LET m == Msg(cmd.op, cmd.a, cmd.b, 0)
         IN  /\ At(Manager, Place(Manager, m), Enter(Manager, m), kids[Manager])
             /\ Pipe(Manager, down[Manager], up[Manager]) /\ Others({Manager})
BY Arrays DEF ReadLine, Dispatch, Goto, Set, At, Pipe, Others, Same, Place, Enter

(* A process forks its child.                                              *)
LEMMA ForkDoes ==
  ASSUME IInv, NEW p \in Services, Fork(p)
  PROVE  LET c == frame[p].b
         IN  /\ c \in Services \ {p}
             /\ At(p, "spawning", frame[p], kids[p]) /\ Pipe(p, down[p], up[p])
             /\ At(c, "start", frame[c], <<>>) /\ Pipe(c, <<>>, <<>>)
             /\ Others({p, c})
<1> DEFINE c == frame[p].b
<1>1. c \in Services
  <2>1. pc[p] \in Busy
    BY DEF Fork, Busy, Working
  <2> QED
    BY <2>1, BusyFacts DEF Fork, FrameOK, Stands, Named
<1>2. c # p
  BY DEF Fork
<1> QED
  BY <1>1, <1>2, Arrays DEF Fork, At, Pipe, Others, Same

(* The child says that it is there.                                        *)
LEMMA StartedDoes ==
  ASSUME IInv, NEW p \in Services, Started(p)
  PROVE  /\ At(p, "idle", frame[p], kids[p])
         /\ Pipe(p, down[p], Append(up[p], [status |-> 1, n |-> 0])) /\ Others({p})
BY Arrays DEF Started, Goto, Reply, At, Pipe, Others, Same

(* The parent takes the byte of its new child.                             *)
LEMMA HandshakeDoes ==
  ASSUME IInv, NEW p \in Services, Handshake(p), frame[p].b \in Services \ {p}
  PROVE  LET c == frame[p].b
         IN  /\ At(p, "loop", [frame[p] EXCEPT !.hit = TRUE], Append(kids[p], c))
             /\ Pipe(p, down[p], up[p])
             /\ At(c, pc[c], frame[c], kids[c]) /\ Pipe(c, down[c], Tail(up[c]))
             /\ Others({p, c})
BY Arrays DEF Handshake, Goto, Set, Drain, AddKid, At, Pipe, Others, Same

(* A message to a child.                                                   *)
LEMMA CallChildDoes ==
  ASSUME IInv, NEW p \in Services, CallChild(p), Child(p) \in Services \ {p}
  PROVE  LET c == Child(p)
         IN  /\ At(p, "wait", frame[p], kids[p]) /\ Pipe(p, down[p], up[p])
             /\ At(c, pc[c], frame[c], kids[c])
             /\ Pipe(c, Append(down[c], Order(frame[p])), up[c])
             /\ Others({p, c})
<1>1. down' = [down EXCEPT ![Child(p)] = Append(@, Order(frame[p]))]
  BY DEF CallChild, Send, Order
<1> QED
  BY <1>1, Arrays DEF CallChild, Goto, At, Pipe, Others, Same

(* After an answer.                                                        *)
AfterAnswer(p, r) ==
    LET f == frame[p]
    IN  CASE f.op = "spawn" -> IF r.status = 1 THEN [f EXCEPT !.hit = TRUE]
                                               ELSE [f EXCEPT !.k = @ + 1]
          [] f.op = "kill" -> IF r.status = 0 THEN [f EXCEPT !.k = @ + 1]
                                              ELSE [f EXCEPT !.n = r.n, !.hit = TRUE]
          [] f.op = "killall" -> [f EXCEPT !.n = (@ + r.n + 1) % 256]
          [] OTHER -> [f EXCEPT !.k = @ + 1,
                                !.n = IF r.status = 2 THEN 2 ELSE @ + r.status,
                                !.wait = IF r.status = 0 THEN @ ELSE Append(@, Child(p))]

AnswerPlace(p, r) ==
    IF frame[p].op = "killall" \/ (frame[p].op = "kill" /\ r.status = 2)
    THEN "suicide" ELSE "loop"

Answer(p) == SpawnAnswered(p) \/ KillAnswered(p) \/ TerminateAnswered(p) \/ ExchangeAnswered(p)

(* The answer of a child.                                                  *)
LEMMA AnswerDoes ==
  ASSUME IInv, NEW p \in Services, Answer(p), Child(p) \in Services \ {p}
  PROVE  LET c == Child(p)
             r == Head(up[c])
         IN  /\ pc[p] = "wait" /\ up[c] # <<>>
             /\ At(p, AnswerPlace(p, r), AfterAnswer(p, r), kids[p])
             /\ Pipe(p, down[p], up[p])
             /\ At(c, pc[c], frame[c], kids[c]) /\ Pipe(c, down[c], Tail(up[c]))
             /\ Others({p, c})
<1> DEFINE c == Child(p)
           r == Head(up[c])
<1>1. /\ pc[p] = "wait" /\ up[c] # <<>>
      /\ up' = [up EXCEPT ![c] = Tail(@)] /\ kids' = kids /\ down' = down
  BY DEF Answer, SpawnAnswered, KillAnswered, TerminateAnswered, ExchangeAnswered,
         Answered, Drain
<1>2. /\ pc' = [pc EXCEPT ![p] = AnswerPlace(p, r)]
      /\ frame' = [frame EXCEPT ![p] = AfterAnswer(p, r)]
  <2>1. CASE SpawnAnswered(p)
    BY <2>1 DEF SpawnAnswered, Answered, Goto, Set, AnswerPlace, AfterAnswer
  <2>2. CASE KillAnswered(p)
    BY <2>2 DEF KillAnswered, Answered, Goto, Set, AnswerPlace, AfterAnswer
  <2>3. CASE TerminateAnswered(p)
    BY <2>3 DEF TerminateAnswered, Answered, Goto, Set, AnswerPlace, AfterAnswer
  <2>4. CASE ExchangeAnswered(p)
    BY <2>4 DEF ExchangeAnswered, Answered, Goto, Set, AnswerPlace, AfterAnswer
  <2> QED
    BY <2>1, <2>2, <2>3, <2>4 DEF Answer
<1> HIDE DEF r
<1>3. Child(p) \in Services \ {p}
  OBVIOUS
<1> HIDE DEF c
<1>4. /\ At(p, AnswerPlace(p, r), AfterAnswer(p, r), kids[p])
      /\ Pipe(p, down[p], up[p])
      /\ At(c, pc[c], frame[c], kids[c]) /\ Pipe(c, down[c], Tail(up[c]))
      /\ Others({p, c})
  BY <1>1, <1>2, <1>3, Arrays DEF At, Pipe, Others, Same, c
<1> QED
  BY <1>1, <1>4 DEF c, r

(* The child may go.                                                       *)
LEMMA LetChildSuicideDoes ==
  ASSUME IInv, NEW p \in Services, LetChildSuicide(p), Child(p) \in Services \ {p}
  PROVE  LET c == Child(p)
         IN  /\ At(p, "reap", frame[p], kids[p]) /\ Pipe(p, down[p], up[p])
             /\ At(c, pc[c], frame[c], kids[c])
             /\ Pipe(c, Append(down[c], Agreed), up[c])
             /\ Others({p, c})
BY Arrays DEF LetChildSuicide, Goto, Send, At, Pipe, Others, Same

(* The child is waited for.                                                *)
LEMMA ReapDoes ==
  ASSUME IInv, NEW p \in Services, Reap(p), Child(p) \in Services \ {p}
  PROVE  LET c == Child(p)
         IN  /\ At(p, "loop", frame[p], RemoveAt(kids[p], frame[p].k))
             /\ Pipe(p, down[p], up[p])
             /\ At(c, "none", frame[c], kids[c]) /\ Pipe(c, down[c], up[c])
             /\ Others({p, c})
BY Arrays DEF Reap, At, Pipe, Others, Same

(* spawn and kill come to an end.                                          *)
ReturnEnds(p) == SpawnEnds(p) \/ KillEnds(p)

(* What they leave behind.                                                 *)
LEMMA ReturnDoes ==
  ASSUME IInv, NEW p \in Services, ReturnEnds(p)
  PROVE  \E s \in {0, 1} :
           /\ pc[p] = "loop" /\ frame[p].op \in {"spawn", "kill"}
           /\ At(p, "idle", Idle, kids[p])
           /\ Pipe(p, down[p], Replied(p, s, IF s = 1 /\ frame[p].op = "kill"
                                             THEN frame[p].n ELSE 0))
           /\ Others({p})
<1> DEFINE s == IF frame[p].hit THEN 1 ELSE 0
           n == IF s = 1 /\ frame[p].op = "kill" THEN frame[p].n ELSE 0
<1>1. /\ pc[p] = "loop" /\ frame[p].op \in {"spawn", "kill"}
      /\ pc' = [pc EXCEPT ![p] = "idle"] /\ frame' = [frame EXCEPT ![p] = Idle]
      /\ kids' = kids /\ down' = down
      /\ \/ p = Manager /\ up' = up
         \/ p # Manager /\ up' = [up EXCEPT ![p] = Append(@, [status |-> s, n |-> n])]
  BY DEF ReturnEnds, SpawnEnds, KillEnds, Ended, Report, Return, Goto, Set, Reply
<1>2. s \in {0, 1}
  OBVIOUS
<1> HIDE DEF n, s
<1>3. /\ At(p, "idle", Idle, kids[p])
      /\ Pipe(p, down[p], Replied(p, s, n))
      /\ Others({p})
  BY <1>1, Arrays DEF At, Pipe, Others, Same, Replied
<1> QED
  BY <1>1, <1>2, <1>3 DEF n

(* All below are gone, the process is to follow.                           *)
LEMMA TerminateDoes ==
  ASSUME IInv, NEW p \in Services, TerminateEnds(p)
  PROVE  /\ pc[p] = "loop" /\ frame[p].op = "killall" /\ ~MoreKids(p)
         /\ IF p = Manager THEN At(p, "none", Idle, kids[p])
                           ELSE At(p, "agree", frame[p], kids[p])
         /\ Pipe(p, down[p], Replied(p, 2, frame[p].n)) /\ Others({p})
<1>1. CASE p = Manager
  BY <1>1, Arrays DEF TerminateEnds, Ended, Report, Goto, Set, Reply, At, Pipe, Others,
                      Same, Replied
<1>2. CASE p # Manager
  BY <1>2, Arrays DEF TerminateEnds, Ended, Report, Goto, Set, Reply, At, Pipe, Others,
                      Same, Replied
<1> QED
  BY <1>1, <1>2

(* It does.                                                                *)
LEMMA SuicideDoes ==
  ASSUME IInv, NEW p \in Services, Suicide(p)
  PROVE  /\ pc[p] = "agree" /\ down[p] # <<>>
         /\ At(p, "zombie", Idle, kids[p]) /\ Pipe(p, Tail(down[p]), up[p])
         /\ Others({p})
BY Arrays DEF Suicide, Goto, Set, Drain, At, Pipe, Others, Same

CountPlace(p) == IF p \in {frame[p].a, frame[p].b} THEN "mkfifo" ELSE "gather"

(* The names found so far are reported.                                    *)
LEMMA CountDoes ==
  ASSUME IInv, NEW p \in Services, ExchangeEnds(p)
  PROVE  /\ pc[p] = "loop" /\ frame[p].op = "exchange"
         /\ IF frame[p].n = 0 THEN At(p, "idle", Idle, kids[p])
                              ELSE At(p, CountPlace(p), frame[p], kids[p])
         /\ Pipe(p, down[p], Replied(p, frame[p].n, 0)) /\ Others({p})
<1>1. /\ pc[p] = "loop" /\ frame[p].op = "exchange" /\ kids' = kids /\ down' = down
  BY DEF ExchangeEnds, Ended
<1>2. \/ p = Manager /\ up' = up
      \/ p # Manager /\ up' = [up EXCEPT ![p] = Append(@, [status |-> frame[p].n, n |-> 0])]
  BY DEF ExchangeEnds, Report, Reply
<1>3. Pipe(p, down[p], Replied(p, frame[p].n, 0))
      /\ \A r \in Services \ {p} : up'[r] = up[r] /\ down'[r] = down[r]
  BY <1>1, <1>2, Arrays DEF Pipe, Replied
<1>4. CASE frame[p].n = 0
  <2>1. pc' = [pc EXCEPT ![p] = "idle"] /\ frame' = [frame EXCEPT ![p] = Idle]
    BY <1>4 DEF ExchangeEnds, Return, Goto, Set
  <2> QED
    BY <1>1, <1>3, <1>4, <2>1, Arrays DEF At, Others, Same
<1>5. CASE frame[p].n # 0
  <2>1. pc' = [pc EXCEPT ![p] = CountPlace(p)] /\ frame' = frame
    BY <1>5 DEF ExchangeEnds, Goto, CountPlace
  <2> QED
    BY <1>1, <1>3, <1>5, <2>1, Arrays DEF At, Others, Same
<1> QED
  BY <1>4, <1>5

(* The steps between the count and the last answer.                        *)
Talks(p) == MakeFifos(p) \/ WriteFifo(p) \/ ReadFifo(p)

(* What they change.                                                       *)
LEMMA TalkDoes ==
  ASSUME IInv, NEW p \in Services, Talks(p)
  PROVE  \E x \in After \ {"mkfifo"} :
           /\ pc[p] \in After \ {"gather"}
           /\ \E g \in {frame[p], [frame[p] EXCEPT !.got = Head(fifo[<<Peer(p), p>>])]} :
                 At(p, x, g, kids[p])
           /\ Pipe(p, down[p], up[p]) /\ Others({p})
<1>1. CASE MakeFifos(p)
  <2>1. PICK x \in After \ {"mkfifo"} : pc' = [pc EXCEPT ![p] = x]
    BY <1>1 DEF MakeFifos, Goto, After
  <2>2. At(p, x, frame[p], kids[p]) /\ Pipe(p, down[p], up[p]) /\ Others({p})
    BY <1>1, <2>1, Arrays DEF MakeFifos, At, Pipe, Others, Same
  <2> QED
    BY <1>1, <2>2 DEF MakeFifos, After
<1>2. CASE WriteFifo(p)
  <2>1. PICK x \in After \ {"mkfifo"} : pc' = [pc EXCEPT ![p] = x]
    BY <1>2 DEF WriteFifo, Goto, After
  <2>2. At(p, x, frame[p], kids[p]) /\ Pipe(p, down[p], up[p]) /\ Others({p})
    BY <1>2, <2>1, Arrays DEF WriteFifo, At, Pipe, Others, Same
  <2> QED
    BY <1>2, <2>2 DEF WriteFifo, After
<1>3. CASE ReadFifo(p)
  <2>1. PICK x \in After \ {"mkfifo"},
             g \in {frame[p], [frame[p] EXCEPT !.got = Head(fifo[<<Peer(p), p>>])]} :
          pc' = [pc EXCEPT ![p] = x] /\ frame' = [frame EXCEPT ![p] = g]
    <3>1. CASE p = frame[p].a
      BY <1>3, <3>1 DEF ReadFifo, Goto, Set, After
    <3>2. CASE p # frame[p].a
      <4>1. frame' = [frame EXCEPT ![p] = frame[p]]
        BY <1>3, <3>2, Arrays DEF ReadFifo
      <4> QED
        BY <1>3, <3>2, <4>1 DEF ReadFifo, Goto, After
    <3> QED
      BY <3>1, <3>2
  <2>2. At(p, x, g, kids[p]) /\ Pipe(p, down[p], up[p]) /\ Others({p})
    BY <1>3, <2>1, Arrays DEF ReadFifo, At, Pipe, Others, Same
  <2> QED
    BY <1>3, <2>2 DEF ReadFifo, After
<1> QED
  BY <1>1, <1>2, <1>3 DEF Talks

(* The second answers of an exchange are collected.                        *)
GatherOne(p) == Gather(p) /\ frame[p].wait # <<>>
GatherEnds(p) == Gather(p) /\ frame[p].wait = <<>>

(* One answer is taken.                                                    *)
LEMMA GatherOneDoes ==
  ASSUME IInv, NEW p \in Services, GatherOne(p), Head(frame[p].wait) \in Services \ {p}
  PROVE  LET c == Head(frame[p].wait)
         IN  /\ pc[p] = "gather" /\ up[c] # <<>>
             /\ At(p, "gather", [frame[p] EXCEPT !.wait = Tail(@)], kids[p])
             /\ Pipe(p, down[p], up[p])
             /\ At(c, pc[c], frame[c], kids[c]) /\ Pipe(c, down[c], Tail(up[c]))
             /\ Others({p, c})
BY Arrays DEF GatherOne, Gather, Set, Drain, At, Pipe, Others, Same

(* There is none left.                                                     *)
LEMMA GatherEndsDoes ==
  ASSUME IInv, NEW p \in Services, GatherEnds(p)
  PROVE  /\ pc[p] = "gather" /\ At(p, "idle", Idle, kids[p])
         /\ Pipe(p, down[p], Replied(p, 0, 0)) /\ Others({p})
<1>1. /\ pc[p] = "gather"
      /\ pc' = [pc EXCEPT ![p] = "idle"] /\ frame' = [frame EXCEPT ![p] = Idle]
      /\ kids' = kids /\ down' = down
      /\ \/ p = Manager /\ up' = up
         \/ p # Manager /\ up' = [up EXCEPT ![p] = Append(@, [status |-> 0, n |-> 0])]
  BY DEF GatherEnds, Gather, Report, Return, Goto, Set, Reply
<1> QED
  BY <1>1, Arrays DEF At, Pipe, Others, Same, Replied

-----------------------------------------------------------------------------
(* Local variables, step by step.                                          *)
GoodOrder(m) ==
    /\ m \in [op : Ops, a : Values, b : Values, found : {0, 1}]
    /\ Named(m) /\ (m.op # "exchange" => m.found = 0)

(* What a waiting parent has sent is a command.                            *)
LEMMA OrderGood ==
  ASSUME NEW p, NEW f, NEW list, FrameOK(p, "wait", f, list)
  PROVE  GoodOrder(Order(f)) /\ Order(f).op = f.op
<1>1. f \in Frames /\ Named(f) /\ Counted(f) /\ ~f.hit
      /\ (f.op = "exchange" => f.found + f.n < 2)
  BY DEF FrameOK, Stands
<1>2. f.found \in {0, 1} /\ f.n \in 0..255 /\ f.op \in Ops /\ f.a \in Values /\ f.b \in Values
  BY <1>1 DEF Frames
<1>3. CASE f.op = "killall"
  BY <1>3 DEF Order, KillAll, Msg, GoodOrder, Named, Values, Ops
<1>4. CASE f.op # "killall"
  <2>1. f.found + f.n \in {0, 1} /\ (f.op # "exchange" => f.found + f.n = 0)
    <3>1. CASE f.op = "exchange"
      BY <1>1, <1>2, <3>1
    <3>2. CASE f.op # "exchange"
      <4>1. f.found = 0 /\ f.n = 0
        BY <1>1, <1>2, <1>4, <3>2 DEF Counted, Ops
      <4> QED
        BY <3>2, <4>1
    <3> QED
      BY <3>1, <3>2
  <2> QED
    BY <1>1, <1>2, <1>4, <2>1 DEF Order, Msg, GoodOrder, Named
<1> QED
  BY <1>3, <1>4

(* The local variables at the beginning of a command.                      *)
LEMMA EnterOK ==
  ASSUME NEW p \in Services, NEW m, GoodOrder(m), NEW list
  PROVE  FrameOK(p, Place(p, m), Enter(p, m), list) /\ Place(p, m) \in Working
<1> DEFINE f == Enter(p, m)
<1>1. /\ m.op \in Ops /\ m.a \in Values /\ m.b \in Values /\ m.found \in {0, 1}
      /\ (m.op # "exchange" => m.found = 0)
  BY DEF GoodOrder
<1>2. /\ f.op = (IF m.op = "kill" /\ m.a = p THEN "killall" ELSE m.op)
      /\ f.a = m.a /\ f.b = m.b /\ f.found = m.found /\ f.k = 1 /\ f.hit = FALSE
      /\ f.n = (IF m.op = "exchange" /\ p \in {m.a, m.b} THEN 1 ELSE 0)
      /\ f.wait = <<>> /\ f.got = None
  BY DEF Enter
<1>3. f \in Frames
  <2>1. /\ (IF m.op = "kill" /\ m.a = p THEN "killall" ELSE m.op) \in Ops
        /\ (IF m.op = "exchange" /\ p \in {m.a, m.b} THEN 1 ELSE 0) \in 0..255
        /\ <<>> \in Seq(Services) /\ None \in Values /\ 1 \in Nat \ {0} /\ FALSE \in BOOLEAN
    BY <1>1 DEF Ops, Values
  <2> QED
    BY <1>1, <2>1 DEF Enter, Frames
<1> HIDE DEF f
<1>4. Named(f)
  BY <1>2 DEF GoodOrder, Named
<1>5. Counted(f)
  BY <1>1, <1>2 DEF Counted
<1>6. Awaits(f, list)
  BY <1>2 DEF Awaits, Unique
<1>7. Stands(p, Place(p, m), f, list)
  BY <1>1, <1>2 DEF Stands, Place, After
<1>8. Place(p, m) \in Working
  BY DEF Place, Working
<1> QED
  BY <1>3, <1>4, <1>5, <1>6, <1>7, <1>8 DEF FrameOK, f

(* The same after the child was made.                                      *)
LEMMA MadeOK ==
  ASSUME NEW p \in Services, NEW f, NEW list \in Seq(Services), NEW c \in Services,
         FrameOK(p, "spawning", f, list)
  PROVE  FrameOK(p, "loop", [f EXCEPT !.hit = TRUE], Append(list, c))
<1> DEFINE g == [f EXCEPT !.hit = TRUE]
<1>1. /\ f \in Frames /\ Named(f) /\ Counted(f) /\ Awaits(f, list)
      /\ f.op = "spawn"
  BY DEF FrameOK, Stands
<1>2. /\ g \in Frames /\ g.op = f.op /\ g.a = f.a /\ g.b = f.b /\ g.found = f.found
      /\ g.k = f.k /\ g.n = f.n /\ g.wait = f.wait
  BY <1>1 DEF Frames
<1> HIDE DEF g
<1>3. Named(g) /\ Counted(g)
  BY <1>1, <1>2 DEF Named, Counted
<1>4. Awaits(g, Append(list, c)) /\ Stands(p, "loop", g, Append(list, c))
  BY <1>1, <1>2 DEF Awaits, Stands, Counted, After, Unique
<1> QED
  BY <1>2, <1>3, <1>4 DEF FrameOK, g

(* From place to place with the same variables.                            *)
LEMMA PlaceOK ==
  ASSUME NEW p \in Services, NEW f, NEW list, NEW l, NEW m, FrameOK(p, l, f, list)
  PROVE  /\ l = "fork" /\ m = "spawning" => FrameOK(p, m, f, list)
         /\ l = "suicide" /\ m = "reap" => FrameOK(p, m, f, list)
         /\ l = "loop" /\ m = "wait" /\ f.k <= Len(list) /\ ~f.hit
              /\ (f.op = "exchange" => f.found + f.n < 2) => FrameOK(p, m, f, list)
         /\ l = "loop" /\ m = "agree" /\ f.op = "killall" /\ list = <<>> /\ p # Manager
              => FrameOK(p, m, f, list)
         /\ l = "loop" /\ m = "mkfifo" /\ f.op = "exchange" /\ p \in {f.a, f.b}
              => FrameOK(p, m, f, list)
         /\ l = "loop" /\ m = "gather" /\ f.op = "exchange" => FrameOK(p, m, f, list)
         /\ l \in After \ {"gather"} /\ m \in After \ {"write_fifo"} => FrameOK(p, m, f, list)
         /\ l \in After \ {"gather"} /\ m = "write_fifo" /\ p # f.a => FrameOK(p, m, f, list)
BY DEF FrameOK, Stands, After

(* The same after the child was taken from the list.                       *)
LEMMA ReapOK ==
  ASSUME NEW p \in Services, NEW f, NEW list, NEW shorter, FrameOK(p, "reap", f, list)
  PROVE  FrameOK(p, "loop", f, shorter)
<1>1. f.op \in {"kill", "killall"} /\ f.wait = <<>>
  BY DEF FrameOK, Stands, Counted
<1> QED
  BY <1>1 DEF FrameOK, Stands, Awaits, After, Unique

(* The same after the peer's secret was read.                              *)
LEMMA GotOK ==
  ASSUME NEW p \in Services, NEW f, NEW list, NEW s \in Services,
         FrameOK(p, "read_fifo", f, list)
  PROVE  FrameOK(p, "write_fifo", [f EXCEPT !.got = s], list)
<1> DEFINE g == [f EXCEPT !.got = s]
<1>1. f \in Frames
  BY DEF FrameOK
<1>2. /\ g \in Frames /\ g.op = f.op /\ g.a = f.a /\ g.b = f.b /\ g.found = f.found
      /\ g.k = f.k /\ g.n = f.n /\ g.wait = f.wait /\ g.hit = f.hit /\ g.got = s
  BY <1>1 DEF Frames, Values
<1> HIDE DEF g
<1>3. Named(g) /\ Counted(g) /\ Awaits(g, list) /\ Stands(p, "write_fifo", g, list)
  BY <1>2 DEF FrameOK, Named, Counted, Awaits, Stands, After
<1> QED
  BY <1>2, <1>3 DEF FrameOK, g

(* A sequence without its first element.                                   *)
LEMMA TailFacts ==
  ASSUME NEW S, NEW s \in Seq(S), s # <<>>
  PROVE  /\ Tail(s) \in Seq(S) /\ Len(Tail(s)) = Len(s) - 1 /\ Len(s) \in Nat \ {0}
         /\ Head(s) = s[1] /\ s[1] \in S
         /\ \A i \in 1..Len(Tail(s)) : i + 1 \in 1..Len(s) /\ Tail(s)[i] = s[i + 1]
         /\ Elems(Tail(s)) \subseteq Elems(s)
         /\ Unique(s) => Unique(Tail(s)) /\ Elems(Tail(s)) = Elems(s) \ {s[1]}
<1>1. /\ Tail(s) \in Seq(S) /\ Len(Tail(s)) = Len(s) - 1 /\ Len(s) \in Nat \ {0}
      /\ Head(s) = s[1] /\ s[1] \in S
      /\ \A i \in 1..Len(Tail(s)) : i + 1 \in 1..Len(s) /\ Tail(s)[i] = s[i + 1]
  OBVIOUS
<1> DEFINE t == Tail(s)
<1> HIDE DEF t
<1>2. Elems(t) \subseteq Elems(s)
  BY <1>1 DEF Elems, t
<1>3. ASSUME Unique(s) PROVE Unique(t) /\ Elems(t) = Elems(s) \ {s[1]}
  <2>1. ASSUME NEW i \in 1..Len(t), NEW j \in 1..Len(t), t[i] = t[j] PROVE i = j
    <3>1. s[i + 1] = s[j + 1] /\ i + 1 \in 1..Len(s) /\ j + 1 \in 1..Len(s)
      BY <1>1, <2>1 DEF t
    <3>2. i + 1 = j + 1
      BY <1>3, <3>1 DEF Unique
    <3> QED
      BY <3>2
  <2>2. ASSUME NEW x \in Elems(t) PROVE x \in Elems(s) \ {s[1]}
    <3>1. PICK i \in 1..Len(t) : x = t[i]
      BY <2>2 DEF Elems
    <3>2. x = s[i + 1] /\ i + 1 \in 1..Len(s) /\ i + 1 # 1
      BY <1>1, <3>1 DEF t
    <3> QED
      BY <1>1, <1>3, <3>2 DEF Elems, Unique
  <2>3. ASSUME NEW x \in Elems(s) \ {s[1]} PROVE x \in Elems(t)
    <3>1. PICK i \in 1..Len(s) : x = s[i]
      BY <2>3 DEF Elems
    <3>2. i # 1 /\ i - 1 \in 1..Len(t) /\ (i - 1) + 1 = i
      BY <1>1, <2>3, <3>1 DEF t
    <3>3. t[i - 1] = s[i]
      BY <1>1, <3>2 DEF t
    <3> QED
      BY <3>1, <3>2, <3>3 DEF Elems
  <2> QED
    BY <2>1, <2>2, <2>3 DEF Unique
<1> QED
  BY <1>1, <1>2, <1>3 DEF t

(* The same with one answer less to wait for.                              *)
LEMMA LessOK ==
  ASSUME NEW p \in Services, NEW f, NEW list, FrameOK(p, "gather", f, list),
         f.wait # <<>>
  PROVE  FrameOK(p, "gather", [f EXCEPT !.wait = Tail(@)], list)
<1> DEFINE g == [f EXCEPT !.wait = Tail(@)]
           w == f.wait
           t == Tail(w)
<1>1. f \in Frames /\ w \in Seq(Services)
  BY DEF FrameOK, Frames
<1>2. /\ t \in Seq(Services) /\ Len(t) = Len(w) - 1
      /\ \A i \in 1..Len(t) : i + 1 \in 1..Len(w) /\ t[i] = w[i + 1]
      /\ Unique(w) => Unique(t)
  BY <1>1, TailFacts
<1>3. /\ g \in Frames /\ g.op = f.op /\ g.a = f.a /\ g.b = f.b /\ g.found = f.found
      /\ g.k = f.k /\ g.n = f.n /\ g.wait = t /\ g.hit = f.hit
  BY <1>1, <1>2 DEF Frames
<1> HIDE DEF g, t
<1>4. Named(g) /\ Counted(g) /\ Stands(p, "gather", g, list)
  BY <1>3 DEF FrameOK, Named, Counted, Stands, After
<1>5. Awaits(g, list)
  <2>1. Awaits(f, list)
    BY DEF FrameOK
  <2>2. Unique(g.wait)
    BY <1>2, <1>3, <2>1 DEF Awaits
  <2>3. ASSUME NEW i \in 1..Len(g.wait)
        PROVE  \E j \in 1..Len(list) : j < g.k /\ g.wait[i] = list[j]
    BY <1>2, <1>3, <2>1 DEF Awaits
  <2> QED
    BY <2>2, <2>3 DEF Awaits
<1> QED
  BY <1>3, <1>4, <1>5 DEF FrameOK, g

(* After an answer that fits the command.                                  *)
LEMMA FoundOK ==
  ASSUME NEW p \in Services, NEW f, NEW list, NEW n \in 0..255,
         FrameOK(p, "wait", f, list), f.op \in {"spawn", "kill"}
  PROVE  /\ FrameOK(p, "loop", [f EXCEPT !.k = @ + 1], list)
         /\ f.op = "spawn" => FrameOK(p, "loop", [f EXCEPT !.hit = TRUE], list)
         /\ f.op = "kill" => /\ FrameOK(p, "loop", [f EXCEPT !.n = n, !.hit = TRUE], list)
                             /\ FrameOK(p, "suicide", [f EXCEPT !.n = n, !.hit = TRUE], list)
<1>1. /\ f \in Frames /\ Named(f) /\ Counted(f) /\ Stands(p, "wait", f, list)
      /\ f.wait = <<>> /\ f.k \in Nat \ {0} /\ f.k <= Len(list) /\ ~f.hit
  BY DEF FrameOK, Counted, Stands, Frames
<1>2. FrameOK(p, "loop", [f EXCEPT !.k = @ + 1], list)
  <2> DEFINE g == [f EXCEPT !.k = @ + 1]
  <2>0. f.k + 1 \in Nat \ {0}
    BY <1>1
  <2>1. /\ g \in Frames /\ g.op = f.op /\ g.a = f.a /\ g.b = f.b /\ g.found = f.found
        /\ g.n = f.n /\ g.wait = f.wait /\ g.hit = f.hit
    BY <1>1, <2>0 DEF Frames
  <2> HIDE DEF g
  <2>2. Named(g) /\ Counted(g) /\ Awaits(g, list) /\ Stands(p, "loop", g, list)
    BY <1>1, <2>1 DEF Named, Counted, Awaits, Stands, After, Unique
  <2> QED
    BY <2>1, <2>2 DEF FrameOK, g
<1>3. f.op = "spawn" => FrameOK(p, "loop", [f EXCEPT !.hit = TRUE], list)
  <2> DEFINE g == [f EXCEPT !.hit = TRUE]
  <2>1. /\ g \in Frames /\ g.op = f.op /\ g.a = f.a /\ g.b = f.b /\ g.found = f.found
        /\ g.n = f.n /\ g.wait = f.wait /\ g.k = f.k
    BY <1>1 DEF Frames
  <2> HIDE DEF g
  <2>2. f.op = "spawn" => Named(g) /\ Counted(g) /\ Awaits(g, list) /\ Stands(p, "loop", g, list)
    BY <1>1, <2>1 DEF Named, Counted, Awaits, Stands, After, Unique
  <2> QED
    BY <2>1, <2>2 DEF FrameOK, g
<1>4. f.op = "kill" => /\ FrameOK(p, "loop", [f EXCEPT !.n = n, !.hit = TRUE], list)
                       /\ FrameOK(p, "suicide", [f EXCEPT !.n = n, !.hit = TRUE], list)
  <2> DEFINE g == [f EXCEPT !.n = n, !.hit = TRUE]
  <2>1. /\ g \in Frames /\ g.op = f.op /\ g.a = f.a /\ g.b = f.b /\ g.found = f.found
        /\ g.hit = TRUE /\ g.wait = f.wait /\ g.k = f.k
    BY <1>1 DEF Frames
  <2> HIDE DEF g
  <2>2. f.op = "kill" => /\ Named(g) /\ Counted(g) /\ Awaits(g, list)
                         /\ Stands(p, "loop", g, list) /\ Stands(p, "suicide", g, list)
    BY <1>1, <2>1 DEF Named, Counted, Awaits, Stands, After, Unique
  <2> QED
    BY <2>1, <2>2 DEF FrameOK, g
<1> QED
  BY <1>2, <1>3, <1>4

(* The same after a child below was killed with all of its own.            *)
LEMMA KilledOK ==
  ASSUME NEW p \in Services, NEW f, NEW list, NEW n \in 0..255,
         FrameOK(p, "wait", f, list), f.op = "killall"
  PROVE  FrameOK(p, "suicide", [f EXCEPT !.n = n], list)
<1> DEFINE g == [f EXCEPT !.n = n]
<1>1. /\ f \in Frames /\ Named(f) /\ Counted(f) /\ Stands(p, "wait", f, list)
      /\ f.wait = <<>> /\ f.k <= Len(list) /\ ~f.hit
  BY DEF FrameOK, Counted, Stands
<1>2. /\ g \in Frames /\ g.op = f.op /\ g.a = f.a /\ g.b = f.b /\ g.found = f.found
      /\ g.hit = f.hit /\ g.wait = f.wait /\ g.k = f.k
  BY <1>1 DEF Frames
<1> HIDE DEF g
<1>3. Named(g) /\ Counted(g) /\ Awaits(g, list) /\ Stands(p, "suicide", g, list)
  BY <1>1, <1>2 DEF Named, Counted, Awaits, Stands, After, Unique
<1> QED
  BY <1>2, <1>3 DEF FrameOK, g

(* A count from below, and who gave it.                                    *)
LEMMA CountedOK ==
  ASSUME NEW p \in Services, NEW f, NEW list \in Seq(Services), NEW s \in 0..2,
         FrameOK(p, "wait", f, list), f.op = "exchange", Unique(list)
  PROVE  FrameOK(p, "loop", [f EXCEPT !.k = @ + 1,
                                      !.n = IF s = 2 THEN 2 ELSE @ + s,
                                      !.wait = IF s = 0 THEN @ ELSE Append(@, list[f.k])], list)
<1> DEFINE n == IF s = 2 THEN 2 ELSE f.n + s
           w == IF s = 0 THEN f.wait ELSE Append(f.wait, list[f.k])
           g == [f EXCEPT !.k = @ + 1, !.n = n, !.wait = w]
<1>1. /\ f \in Frames /\ Named(f) /\ Counted(f) /\ Awaits(f, list) /\ Stands(p, "wait", f, list)
  BY DEF FrameOK
<1>2. /\ f.k \in Nat \ {0} /\ f.k <= Len(list) /\ ~f.hit /\ f.n \in 0..255 /\ f.found \in {0, 1}
      /\ f.wait \in Seq(Services) /\ f.found + f.n < 2 /\ f.n <= 2
  BY <1>1 DEF Frames, Stands, Counted
<1>3. f.k \in 1..Len(list) /\ list[f.k] \in Services /\ f.k + 1 \in Nat \ {0}
  BY <1>2
<1> DEFINE Exceed == f.n >= 1 => n >= 1
<1>4. n \in 0..2 /\ Exceed /\ n \in 0..255 /\ (s # 0 => n >= 1)
  <2>0. \A x \in {0, 1}, y \in 0..255 : x + y < 2 => y \in {0, 1}
    OBVIOUS
  <2>1. f.n \in {0, 1} /\ s \in {0, 1, 2}
    <3>1. f.found \in {0, 1} /\ f.n \in 0..255 /\ f.found + f.n < 2
      BY <1>2
    <3>2. f.n \in {0, 1}
      BY <2>0, <3>1, Zenon
    <3> QED
      BY <3>2
  <2> QED
    BY <2>1
<1>5. /\ w \in Seq(Services)
      /\ s = 0 => w = f.wait
      /\ s # 0 => /\ Len(w) = Len(f.wait) + 1 /\ w[Len(w)] = list[f.k]
                  /\ \A i \in 1..Len(f.wait) : w[i] = f.wait[i]
  BY <1>2, <1>3
<1>6. /\ g \in Frames /\ g.op = f.op /\ g.a = f.a /\ g.b = f.b /\ g.found = f.found
      /\ g.hit = f.hit /\ g.wait = w /\ g.k = f.k + 1 /\ g.n = n
  <2>0. f.k + 1 \in Nat \ {0} /\ n \in 0..255 /\ w \in Seq(Services)
    BY <1>3, <1>4, <1>5
  <2> HIDE DEF n, w
  <2> QED
    BY <1>1, <2>0 DEF Frames
<1> HIDE DEF g, w, n
<1>7. Named(g)
  BY <1>1, <1>6 DEF Named
<1>8. Counted(g)
  <2>1. w # <<>> => n >= 1
    <3>1. CASE s = 0
      <4>1. w # <<>> => f.n >= 1
        BY <1>1, <1>5, <3>1 DEF Counted
      <4> QED
        BY <1>4, <4>1
    <3>2. CASE s # 0
      BY <1>4, <3>2
    <3> QED
      BY <3>1, <3>2
  <2>2. n <= 2
    BY <1>4
  <2> QED
    BY <1>2, <1>6, <2>1, <2>2 DEF Counted
<1>9. Awaits(g, list)
  <2>1. CASE s = 0
    BY <1>1, <1>2, <1>5, <1>6, <2>1 DEF Awaits
  <2>2. CASE s # 0
    <3>1. Len(w) = Len(f.wait) + 1 /\ Len(f.wait) \in Nat
      BY <1>2, <1>5, <2>2
    <3>2. ASSUME NEW i \in 1..Len(f.wait)
          PROVE  \E j \in 1..Len(list) : j < f.k /\ w[i] = list[j]
      BY <1>1, <1>5, <2>2, <3>2 DEF Awaits
    <3>3. ASSUME NEW i \in 1..Len(f.wait) PROVE w[i] # list[f.k]
      BY <1>3, <3>2, <3>3 DEF Unique
    <3>4. ASSUME NEW i \in 1..Len(w)
          PROVE  \E j \in 1..Len(list) : j < f.k + 1 /\ w[i] = list[j]
      <4>1. CASE i = Len(w)
        BY <1>2, <1>3, <1>5, <2>2, <4>1
      <4>2. CASE i # Len(w)
        <5>1. i \in 1..Len(f.wait)
          BY <3>1, <4>2
        <5>2. PICK j \in 1..Len(list) : j < f.k /\ w[i] = list[j]
          BY <3>2, <5>1
        <5> QED
          BY <1>2, <5>2
      <4> QED
        BY <4>1, <4>2
    <3>5. ASSUME NEW i \in 1..Len(w), NEW j \in 1..Len(w), w[i] = w[j] PROVE i = j
      <4>1. CASE i # Len(w) /\ j # Len(w)
        <5>1. i \in 1..Len(f.wait) /\ j \in 1..Len(f.wait)
          BY <3>1, <4>1
        <5>2. f.wait[i] = f.wait[j]
          BY <1>5, <2>2, <3>5, <5>1
        <5> QED
          BY <1>1, <5>1, <5>2 DEF Awaits, Unique
      <4>2. CASE i = Len(w) /\ j # Len(w)
        <5>1. j \in 1..Len(f.wait)
          BY <3>1, <4>2
        <5> QED
          BY <1>5, <2>2, <3>3, <3>5, <4>2, <5>1
      <4>3. CASE i # Len(w) /\ j = Len(w)
        <5>1. i \in 1..Len(f.wait)
          BY <3>1, <4>3
        <5> QED
          BY <1>5, <2>2, <3>3, <3>5, <4>3, <5>1
      <4> QED
        BY <4>1, <4>2, <4>3
    <3> QED
      BY <1>6, <3>4, <3>5 DEF Awaits, Unique
  <2> QED
    BY <2>1, <2>2
<1>10. Stands(p, "loop", g, list)
  <2>1. p \in {f.a, f.b} => n >= 1
    <3>1. p \in {f.a, f.b} => f.n >= 1
      BY <1>1 DEF Stands
    <3> QED
      BY <1>4, <3>1
  <2> QED
    BY <1>6, <2>1 DEF Stands, After
<1> QED
  BY <1>6, <1>7, <1>8, <1>9, <1>10 DEF FrameOK, g, w, n

(* What a service that answers has to say is an answer.                    *)
LEMMA HeadAnswer ==
  ASSUME IInv, NEW c \in Services, up[c] # <<>>
  PROVE  /\ Head(up[c]) \in Answers /\ Head(up[c]).status \in 0..2 /\ Head(up[c]).n \in 0..255
         /\ up[c] \in Seq(Answers) /\ Tail(up[c]) \in Seq(Answers)
<1>1. up[c] \in Seq(Answers)
  BY DEF IInv, Typed, TypeOK, Answers
<1>2. Head(up[c]) \in Answers /\ Tail(up[c]) \in Seq(Answers)
  BY <1>1, TailFacts
<1> QED
  BY <1>1, <1>2 DEF Answers

(* The same after any answer.                                              *)
LEMMA AnswerOK ==
  ASSUME IInv, NEW p \in Services, Answer(p)
  PROVE  LET r == Head(up[Child(p)])
         IN  /\ pc[p] = "wait" /\ Child(p) \in Services \ {Manager, p} /\ up[Child(p)] # <<>>
             /\ FrameOK(p, AnswerPlace(p, r), AfterAnswer(p, r), kids[p])
<1> DEFINE f == frame[p]
           c == Child(p)
           r == Head(up[c])
<1>1. pc[p] = "wait" /\ up[c] # <<>>
  BY DEF Answer, SpawnAnswered, KillAnswered, TerminateAnswered, ExchangeAnswered,
         Answered, Drain
<1>2. pc[p] \in Busy
  BY <1>1 DEF Busy, Working
<1>3. FrameOK(p, "wait", f, kids[p]) /\ f \in Frames /\ f.k <= Len(kids[p]) /\ p \in Running
  BY <1>1, <1>2, BusyFacts DEF FrameOK, Stands
<1>4. c \in Services \ {Manager, p}
  BY <1>2, <1>3, ChildFacts
<1>5. r \in Answers /\ r.status \in 0..2 /\ r.n \in 0..255
  BY <1>1, <1>4, HeadAnswer
<1>6. f.op \in Ops
  BY <1>3 DEF Frames
<1> HIDE DEF r
<1> SUFFICES FrameOK(p, AnswerPlace(p, r), AfterAnswer(p, r), kids[p])
  BY <1>1, <1>4 DEF r
<1>7. CASE f.op = "spawn"
  <2>1. /\ AnswerPlace(p, r) = "loop"
        /\ AfterAnswer(p, r) \in {[f EXCEPT !.hit = TRUE], [f EXCEPT !.k = @ + 1]}
    BY <1>7 DEF AnswerPlace, AfterAnswer
  <2>2. /\ FrameOK(p, "loop", [f EXCEPT !.k = @ + 1], kids[p])
        /\ FrameOK(p, "loop", [f EXCEPT !.hit = TRUE], kids[p])
    <3>1. f.op \in {"spawn", "kill"} /\ FrameOK(p, "wait", f, kids[p]) /\ 0 \in 0..255
      BY <1>3, <1>7
    <3> HIDE DEF f
    <3> QED
      BY ZenonT(60), <1>7, <3>1, FoundOK
  <2> HIDE DEF f
  <2> QED
    BY <2>1, <2>2
<1>8. CASE f.op = "kill"
  <2>1. \/ AnswerPlace(p, r) = "loop" /\ AfterAnswer(p, r) = [f EXCEPT !.k = @ + 1]
        \/ /\ AnswerPlace(p, r) \in {"loop", "suicide"}
           /\ AfterAnswer(p, r) = [f EXCEPT !.n = r.n, !.hit = TRUE]
    BY <1>8 DEF AnswerPlace, AfterAnswer
  <2> DEFINE n == r.n
  <2>2. /\ FrameOK(p, "loop", [f EXCEPT !.k = @ + 1], kids[p])
        /\ FrameOK(p, "loop", [f EXCEPT !.n = n, !.hit = TRUE], kids[p])
        /\ FrameOK(p, "suicide", [f EXCEPT !.n = n, !.hit = TRUE], kids[p])
    <3>1. n \in 0..255 /\ f.op \in {"spawn", "kill"} /\ FrameOK(p, "wait", f, kids[p])
      BY <1>3, <1>5, <1>8
    <3> HIDE DEF f, n
    <3> QED
      BY ZenonT(60), <1>8, <3>1, FoundOK
  <2> HIDE DEF f
  <2> QED
    BY <2>1, <2>2
<1>9. CASE f.op = "killall"
  <2> DEFINE n == (f.n + r.n + 1) % 256
  <2>1. n \in 0..255
    <3>1. f.n \in 0..255
      BY <1>3 DEF Frames
    <3>2. \A x, y \in 0..255 : (x + y + 1) % 256 \in 0..255
      OBVIOUS
    <3> HIDE DEF f
    <3> QED
      BY <1>5, <3>1, <3>2
  <2>2. AfterAnswer(p, r) = [f EXCEPT !.n = n] /\ AnswerPlace(p, r) = "suicide"
    BY <1>9 DEF AnswerPlace, AfterAnswer
  <2>3. FrameOK(p, "suicide", [f EXCEPT !.n = n], kids[p])
    <3> HIDE DEF f, n
    <3> QED
      BY <1>3, <1>9, <2>1, KilledOK
  <2> HIDE DEF f, n
  <2> QED
    BY <2>2, <2>3
<1>10. CASE f.op = "exchange"
  <2>1. kids[p] \in Seq(Services) /\ Unique(kids[p])
    <3>1. kids[p] \in Seq(Services \ {Manager})
      BY DEF IInv, Typed, TypeOK
    <3>2. Unique(kids[p])
      BY <1>2, <1>3, BusyFacts DEF Alive, Family
    <3> QED
      BY <3>1, <3>2
  <2>2. /\ AnswerPlace(p, r) = "loop"
        /\ AfterAnswer(p, r) = [f EXCEPT !.k = @ + 1,
                                  !.n = IF r.status = 2 THEN 2 ELSE @ + r.status,
                                  !.wait = IF r.status = 0 THEN @ ELSE Append(@, kids[p][f.k])]
    BY <1>10 DEF AnswerPlace, AfterAnswer, Child
  <2> DEFINE s == r.status
  <2>3. FrameOK(p, "loop", [f EXCEPT !.k = @ + 1,
                                     !.n = IF s = 2 THEN 2 ELSE @ + s,
                                     !.wait = IF s = 0 THEN @ ELSE Append(@, kids[p][f.k])],
                kids[p])
    <3>1. s \in 0..2
      BY <1>5
    <3> HIDE DEF f, s
    <3> QED
      BY <1>3, <1>10, <2>1, <3>1, CountedOK
  <2> HIDE DEF f
  <2> QED
    BY <2>2, <2>3
<1> QED
  BY <1>6, <1>7, <1>8, <1>9, <1>10 DEF Ops

-----------------------------------------------------------------------------
(* What a service reads is the order of its parent, which waits for it.    *)
LEMMA ReceiveOrder ==
  ASSUME IInv, NEW p \in Services, Receive(p)
  PROVE  /\ Alive /\ pc[Manager] # "none" /\ p # Manager /\ p \in Running
         /\ \E q \in Running \ {p} :
              /\ Par(q, p) /\ pc[q] = "wait" /\ kids[q][frame[q].k] = p
              /\ Rel(pc[q], frame[q], kids[q], p) = "wait"
              /\ down[p] = <<Order(frame[q])>> /\ up[p] = <<>>
              /\ Head(down[p]) = Order(frame[q]) /\ Tail(down[p]) = <<>>
              /\ GoodOrder(Order(frame[q])) /\ Order(frame[q]).op = frame[q].op
              /\ Does(frame[q])
<1>1. p # Manager /\ pc[p] = "idle" /\ down[p] # <<>>
  BY DEF Receive
<1>2. Alive /\ pc[Manager] # "none"
  BY <1>1 DEF IInv, Leaving
<1>3. PICK q \in Running : q \in Services \ {p} /\ Par(q, p) /\ Linked(q, p)
  BY <1>1, <1>2, ParentFacts
<1> DEFINE rel == Rel(pc[q], frame[q], kids[q], p)
<1>4. rel \in Rels /\ Link(rel, frame[q], "idle", frame[p].op, down[p], up[p])
  BY <1>1, <1>3, RelKind DEF Linked
<1>5. /\ rel = "wait" /\ down[p] = <<Order(frame[q])>> /\ up[p] = <<>>
      /\ Head(down[p]) = Order(frame[q]) /\ Tail(down[p]) = <<>>
      /\ Order(frame[q]).op = frame[q].op
  <2> HIDE DEF rel
  <2> QED
    BY <1>1, <1>4, LinkReceive
<1>6. pc[q] = "wait" /\ kids[q][frame[q].k] = p
  BY <1>5 DEF Rel, Busy, Working, After
<1>7. FrameOK(q, "wait", frame[q], kids[q]) /\ Does(frame[q])
  BY <1>3, <1>6, BusyFacts DEF Busy, Working
<1>8. GoodOrder(Order(frame[q]))
  BY <1>7, OrderGood
<1>9. p \in Running
  BY <1>1 DEF Running
<1> QED
  BY <1>1, <1>2, <1>3, <1>5, <1>6, <1>7, <1>8, <1>9

(* What the Manager reads is a command, when all others are at rest.       *)
LEMMA ReadLineFacts ==
  ASSUME IInv, NEW cmd \in Tree!Commands(Running), ReadLine(cmd)
  PROVE  /\ pc[Manager] = "idle" /\ Alive /\ Manager \in Running /\ Manager \in Services
         /\ cmd.op \in Ops \ {"killall"}
         /\ GoodOrder(Msg(cmd.op, cmd.a, cmd.b, 0))
         /\ \A c \in Services \ {Manager} : pc[c] = "none" \/ AtRest(pc[c], down[c], up[c])
<1>1. pc[Manager] = "idle" /\ Alive /\ Manager \in Running /\ Manager \in Services
  BY DEF ReadLine, IInv, Running
<1>2. /\ cmd.op \in Ops \ {"killall"} /\ cmd.a \in Services /\ cmd.b \in Values
      /\ cmd.op = "spawn" => cmd.b \in Services
      /\ cmd.op = "exchange" => <<cmd.a, cmd.b>> \in Pairs
  BY DEF Tree!Commands, Tree!Pairs, Pairs, Ops, Values
<1>3. GoodOrder(Msg(cmd.op, cmd.a, cmd.b, 0))
  BY <1>2 DEF GoodOrder, Msg, Named, Values
<1>4. \A c \in Services : Par(Manager, c) => AtRest(pc[c], down[c], up[c])
  <2> SUFFICES ASSUME NEW c \in Services, Par(Manager, c)
               PROVE  AtRest(pc[c], down[c], up[c])
    OBVIOUS
  <2>1. Linked(Manager, c)
    BY <1>1 DEF Alive, Links
  <2>2. Rel(pc[Manager], frame[Manager], kids[Manager], c) = "rest"
    BY <1>1, RelKind
  <2> QED
    BY <2>1, <2>2 DEF Linked, Link
<1> QED
  BY <1>1, <1>2, <1>3, <1>4, AllStill

(* Local variables of one process change, those of others do not.          *)
LEMMA FramedKept ==
  ASSUME IInv, NEW p \in Services, NEW P, Others(P),
         IF pc'[p] \in Busy THEN FrameOK(p, pc'[p], frame'[p], kids'[p])
                            ELSE frame'[p] = Idle,
         \A r \in (P \cap Services) \ {p} :
            /\ frame'[r] = frame[r]
            /\ \/ pc'[r] = pc[r] /\ kids'[r] = kids[r]
               \/ pc[r] \notin Busy /\ pc'[r] \notin Busy
  PROVE  Framed'
<1> SUFFICES ASSUME NEW r \in Services
             PROVE  IF pc'[r] \in Busy THEN FrameOK(r, pc'[r], frame'[r], kids'[r])
                                       ELSE frame'[r] = Idle
  BY DEF Framed
<1>1. IF pc[r] \in Busy THEN FrameOK(r, pc[r], frame[r], kids[r]) ELSE frame[r] = Idle
  BY DEF IInv, Framed
<1>2. CASE r = p
  BY <1>2
<1>3. CASE r \notin P
  BY <1>1, <1>3 DEF Others, Same
<1>4. CASE r # p /\ r \in P
  BY <1>1, <1>4
<1> QED
  BY <1>2, <1>3, <1>4

(* A FIFO that was written holds a secret.                                 *)
LEMMA FifoHolds ==
  ASSUME IInv, NEW e \in Pairs, fifo[e] \notin {None, <<>>}
  PROVE  Head(fifo[e]) \in Services /\ fifo[e] = <<Head(fifo[e])>>
<1>1. PICK s \in Services : fifo[e] = <<s>>
  BY DEF IInv, Typed, TypeOK
<1> QED
  BY <1>1

(* The two of an exchange.                                                 *)
LEMMA PeerFacts ==
  ASSUME IInv, NEW p \in Services, pc[p] \in After \ {"gather"}
  PROVE  /\ frame[p].op = "exchange" /\ p \in {frame[p].a, frame[p].b}
         /\ <<frame[p].a, frame[p].b>> \in Pairs
         /\ frame[p].a \in Services /\ frame[p].b \in Services /\ frame[p].a # frame[p].b
         /\ Peer(p) \in Services \ {p} /\ {p, Peer(p)} = {frame[p].a, frame[p].b}
         /\ <<p, Peer(p)>> \in Pairs /\ <<Peer(p), p>> \in Pairs
<1>1. pc[p] \in Busy
  BY DEF Busy
<1>2. frame[p].op = "exchange" /\ p \in {frame[p].a, frame[p].b} /\ <<frame[p].a, frame[p].b>> \in Pairs
  BY <1>1, BusyFacts DEF FrameOK, Stands, Named
<1>3. frame[p].a \in Services /\ frame[p].b \in Services /\ frame[p].a # frame[p].b
  BY <1>2 DEF Pairs
<1>4. Peer(p) \in Services \ {p} /\ {p, Peer(p)} = {frame[p].a, frame[p].b}
  BY <1>2, <1>3 DEF Peer
<1>5. <<p, Peer(p)>> \in Pairs /\ <<Peer(p), p>> \in Pairs
  BY <1>4 DEF Pairs
<1> QED
  BY <1>2, <1>3, <1>4, <1>5

(* The steps of a process, sorted.                                         *)
LEMMA StepKinds ==
  ASSUME NEW p \in Services, Step(p)
  PROVE  \/ Receive(p) \/ Fork(p) \/ Started(p) \/ Handshake(p) \/ CallChild(p)
         \/ Answer(p) \/ LetChildSuicide(p) \/ Reap(p) \/ ReturnEnds(p)
         \/ TerminateEnds(p) \/ Suicide(p) \/ ExchangeEnds(p) \/ Talks(p)
         \/ GatherOne(p) \/ GatherEnds(p) \/ Orphaned(p)
BY DEF Step, Answer, ReturnEnds, Talks, GatherOne, GatherEnds, Gather

(* The child of a spawn, of a call and of the end of a child.              *)
LEMMA MadeChild ==
  ASSUME IInv, NEW p \in Services, pc[p] = "spawning"
  PROVE  /\ frame[p].b \in Services \ {Manager, p} /\ Par(p, frame[p].b)
         /\ Linked(p, frame[p].b) /\ p \in Running /\ Alive
         /\ frame[p].op = "spawn" /\ frame[p].a = p /\ frame[p].wait = <<>>
         /\ frame[p].b \notin Elems(kids[p])
         /\ \A r \in Running : Par(r, frame[p].b) => r = p
<1> DEFINE c == frame[p].b
<1>1. pc[p] \in Busy
  BY DEF Busy, Working
<1>2. /\ frame[p].op = "spawn" /\ frame[p].a = p /\ frame[p].wait = <<>> /\ c \in Services
      /\ p \in Running /\ Alive
  BY <1>1, BusyFacts DEF FrameOK, Stands, Named, Counted
<1>3. Par(p, c)
  BY DEF Par, ParOf
<1>4. c # Manager
  BY <1>2, <1>3 DEF Alive, Family
<1>5. c # p
  <2>1. PICK rank \in [Services -> Nat] : Grows(rank)
    BY <1>2 DEF Alive, Ranked
  <2>2. rank[p] < rank[c]
    BY <1>2, <1>3, <2>1 DEF Grows
  <2> QED
    BY <1>2, <2>1, <2>2
<1>6. Linked(p, c) /\ c \notin Elems(kids[p]) /\ \A r \in Running : Par(r, c) => r = p
  BY <1>2, <1>3 DEF Alive, Links, Family
<1> QED
  BY <1>2, <1>3, <1>4, <1>5, <1>6

(* The child that is called, let go or waited for.                         *)
LEMMA CalledChild ==
  ASSUME IInv, NEW p \in Services, CallChild(p) \/ LetChildSuicide(p) \/ Reap(p)
  PROVE  /\ pc[p] \in Busy /\ frame[p].k \in 1..Len(kids[p])
         /\ Child(p) \in Services \ {Manager, p}
<1>1. pc[p] \in {"loop", "suicide", "reap"}
  BY DEF CallChild, LetChildSuicide, Reap
<1>2. pc[p] \in Busy
  BY <1>1 DEF Busy, Working
<1>3. frame[p].k <= Len(kids[p])
  <2>1. CASE CallChild(p)
    BY <2>1 DEF CallChild, MoreKids
  <2>2. CASE LetChildSuicide(p) \/ Reap(p)
    BY <1>2, <2>2, BusyFacts DEF LetChildSuicide, Reap, FrameOK, Stands
  <2> QED
    BY <2>1, <2>2
<1> QED
  BY <1>2, <1>3, ChildFacts

(* The child whose second answer is taken.                                 *)
LEMMA GatheredChild ==
  ASSUME IInv, NEW p \in Services, GatherOne(p)
  PROVE  LET c == Head(frame[p].wait)
         IN  /\ pc[p] = "gather" /\ pc[p] \in Busy /\ p \in Running /\ Alive
             /\ frame[p].wait \in Seq(Services) /\ Unique(frame[p].wait)
             /\ c = frame[p].wait[1] /\ c \in Elems(frame[p].wait)
             /\ c \in Services \ {Manager, p} /\ Par(p, c) /\ Linked(p, c)
             /\ up[c] # <<>>
             /\ \A r \in Running : Par(r, c) => r = p
<1> DEFINE w == frame[p].wait
           c == Head(w)
<1>1. pc[p] = "gather" /\ up[c] # <<>> /\ w # <<>>
  BY DEF GatherOne, Gather
<1>2. pc[p] \in Busy
  BY <1>1 DEF Busy, After
<1>3. p \in Running /\ Alive /\ w \in Seq(Services) /\ Awaits(frame[p], kids[p])
  BY <1>2, BusyFacts DEF FrameOK, Frames
<1>4. c = w[1] /\ Len(w) \in Nat \ {0}
  BY <1>1, <1>3, TailFacts
<1>5. c \in Elems(w)
  <2>1. 1 \in 1..Len(w)
    BY <1>4
  <2> QED
    BY <1>4, <2>1 DEF Elems
<1>6. PICK j \in 1..Len(kids[p]) : c = kids[p][j]
  <2>1. 1 \in 1..Len(w)
    BY <1>4
  <2> QED
    BY <1>3, <1>4, <2>1 DEF Awaits
<1>7. c \in Services \ {Manager, p} /\ Par(p, c) /\ Linked(p, c)
      /\ \A r \in Running : Par(r, c) => r = p
  BY <1>3, <1>6, ListPar
<1> QED
  BY <1>1, <1>2, <1>3, <1>4, <1>5, <1>7 DEF Awaits

(* Every step keeps the local variables in order.                          *)
LEMMA FramedStep ==
  ASSUME IInv, [Next]_vars
  PROVE  Framed'
<1>1. ASSUME NEW p \in Services, Receive(p) PROVE Framed'
  <2>1. GoodOrder(Head(down[p]))
    BY <1>1, ReceiveOrder
  <2>2. FrameOK(p, Place(p, Head(down[p])), Enter(p, Head(down[p])), kids[p])
        /\ Place(p, Head(down[p])) \in Busy
    BY <2>1, EnterOK DEF Busy
  <2>3. /\ At(p, Place(p, Head(down[p])), Enter(p, Head(down[p])), kids[p]) /\ Others({p})
    BY <1>1, ReceiveDoes
  <2> QED
    BY <2>2, <2>3, FramedKept DEF At
<1>2. ASSUME NEW p \in Services, Fork(p) PROVE Framed'
  <2> DEFINE c == frame[p].b
  <2>1. /\ c \in Services \ {p} /\ At(p, "spawning", frame[p], kids[p])
        /\ At(c, "start", frame[c], <<>>) /\ Others({p, c})
    BY <1>2, ForkDoes
  <2>2. pc[p] = "fork" /\ pc[c] = "none"
    BY <1>2 DEF Fork
  <2>3. FrameOK(p, "fork", frame[p], kids[p])
    BY <2>2, BusyFacts DEF Busy, Working
  <2>4. FrameOK(p, "spawning", frame[p], kids[p])
    BY <2>3, PlaceOK
  <2>5. "start" \notin Busy /\ "none" \notin Busy /\ "spawning" \in Busy
    BY DEF Busy, Working, After
  <2> HIDE DEF c
  <2> QED
    BY <2>1, <2>2, <2>4, <2>5, FramedKept DEF At
<1>3. ASSUME NEW p \in Services, Started(p) PROVE Framed'
  <2>1. At(p, "idle", frame[p], kids[p]) /\ Others({p}) /\ pc[p] = "start"
    BY <1>3, StartedDoes DEF Started
  <2>2. "start" \notin Busy /\ "idle" \notin Busy
    BY DEF Busy, Working, After
  <2>3. frame[p] = Idle
    BY <2>1, <2>2 DEF IInv, Framed
  <2> QED
    BY <2>1, <2>2, <2>3, FramedKept DEF At
<1>4. ASSUME NEW p \in Services, Handshake(p) PROVE Framed'
  <2> DEFINE c == frame[p].b
  <2>1. pc[p] = "spawning"
    BY <1>4 DEF Handshake
  <2>2. c \in Services \ {p} /\ frame[p].b = c
    BY <2>1, MadeChild
  <2>3. /\ At(p, "loop", [frame[p] EXCEPT !.hit = TRUE], Append(kids[p], c))
        /\ At(c, pc[c], frame[c], kids[c]) /\ Others({p, c})
    BY <1>4, <2>2, HandshakeDoes
  <2>4. FrameOK(p, "loop", [frame[p] EXCEPT !.hit = TRUE], Append(kids[p], c))
    <3>1. FrameOK(p, "spawning", frame[p], kids[p])
      BY <2>1, BusyFacts DEF Busy, Working
    <3>2. kids[p] \in Seq(Services)
      BY DEF IInv, Typed, TypeOK
    <3> HIDE DEF c
    <3> QED
      BY <2>2, <3>1, <3>2, MadeOK
  <2> DEFINE g == [frame[p] EXCEPT !.hit = TRUE]
             list == Append(kids[p], c)
  <2>5. "loop" \in Busy
    BY DEF Busy, Working
  <2>6. /\ At(p, "loop", g, list) /\ FrameOK(p, "loop", g, list)
        /\ At(c, pc[c], frame[c], kids[c]) /\ Others({p, c})
    BY <2>3, <2>4
  <2> HIDE DEF c, g, list
  <2> QED
    BY <2>2, <2>5, <2>6, FramedKept DEF At
<1>5. ASSUME NEW p \in Services, CallChild(p) PROVE Framed'
  <2> DEFINE c == Child(p)
  <2>1. c \in Services \ {p}
    BY <1>5, CalledChild
  <2>2. At(p, "wait", frame[p], kids[p]) /\ At(c, pc[c], frame[c], kids[c]) /\ Others({p, c})
    BY <1>5, <2>1, CallChildDoes
  <2>3. FrameOK(p, "loop", frame[p], kids[p]) /\ MoreKids(p)
    BY <1>5, BusyFacts DEF CallChild, Busy, Working
  <2>4. FrameOK(p, "wait", frame[p], kids[p]) /\ "wait" \in Busy
    BY <2>3, PlaceOK DEF MoreKids, Busy, Working
  <2> HIDE DEF c
  <2> QED
    BY <2>1, <2>2, <2>4, FramedKept DEF At
<1>6. ASSUME NEW p \in Services, Answer(p) PROVE Framed'
  <2> DEFINE c == Child(p)
             r == Head(up[c])
  <2>1. c \in Services \ {p} /\ FrameOK(p, AnswerPlace(p, r), AfterAnswer(p, r), kids[p])
    BY <1>6, AnswerOK
  <2>2. /\ At(p, AnswerPlace(p, r), AfterAnswer(p, r), kids[p])
        /\ At(c, pc[c], frame[c], kids[c]) /\ Others({p, c})
    BY <1>6, <2>1, AnswerDoes
  <2>3. AnswerPlace(p, r) \in Busy
    BY DEF AnswerPlace, Busy, Working
  <2> HIDE DEF c, r
  <2> QED
    BY <2>1, <2>2, <2>3, FramedKept DEF At
<1>7. ASSUME NEW p \in Services, LetChildSuicide(p) PROVE Framed'
  <2> DEFINE c == Child(p)
  <2>1. c \in Services \ {p}
    BY <1>7, CalledChild
  <2>2. At(p, "reap", frame[p], kids[p]) /\ At(c, pc[c], frame[c], kids[c]) /\ Others({p, c})
    BY <1>7, <2>1, LetChildSuicideDoes
  <2>3. FrameOK(p, "suicide", frame[p], kids[p])
    BY <1>7, BusyFacts DEF LetChildSuicide, Busy, Working
  <2>4. FrameOK(p, "reap", frame[p], kids[p]) /\ "reap" \in Busy
    BY <2>3, PlaceOK DEF Busy, Working
  <2> HIDE DEF c
  <2> QED
    BY <2>1, <2>2, <2>4, FramedKept DEF At
<1>8. ASSUME NEW p \in Services, Reap(p) PROVE Framed'
  <2> DEFINE c == Child(p)
             list == RemoveAt(kids[p], frame[p].k)
  <2>1. c \in Services \ {p} /\ pc[c] = "zombie" /\ pc[p] = "reap"
    BY <1>8, CalledChild DEF Reap
  <2>2. At(p, "loop", frame[p], list) /\ At(c, "none", frame[c], kids[c]) /\ Others({p, c})
    BY <1>8, <2>1, ReapDoes
  <2>3. FrameOK(p, "reap", frame[p], kids[p])
    BY <2>1, BusyFacts DEF Busy, Working
  <2> HIDE DEF list
  <2>4. FrameOK(p, "loop", frame[p], list) /\ "loop" \in Busy
    BY <2>3, ReapOK DEF Busy, Working
  <2>5. "zombie" \notin Busy /\ "none" \notin Busy
    BY DEF Busy, Working, After
  <2> HIDE DEF c
  <2> QED
    BY <2>1, <2>2, <2>4, <2>5, FramedKept DEF At
<1>9. ASSUME NEW p \in Services, ReturnEnds(p) PROVE Framed'
  <2>1. At(p, "idle", Idle, kids[p]) /\ Others({p})
    BY <1>9, ReturnDoes
  <2>2. "idle" \notin Busy
    BY DEF Busy, Working, After
  <2> QED
    BY <2>1, <2>2, FramedKept DEF At
<1>10. ASSUME NEW p \in Services, TerminateEnds(p) PROVE Framed'
  <2>1. /\ pc[p] = "loop" /\ frame[p].op = "killall" /\ ~MoreKids(p)
        /\ IF p = Manager THEN At(p, "none", Idle, kids[p]) ELSE At(p, "agree", frame[p], kids[p])
        /\ Others({p})
    BY <1>10, TerminateDoes
  <2>2. "none" \notin Busy /\ "agree" \in Busy
    BY DEF Busy, Working, After
  <2>3. FrameOK(p, "loop", frame[p], kids[p])
    BY <2>1, BusyFacts DEF Busy, Working
  <2>4. kids[p] = <<>>
    <3>1. kids[p] \in Seq(Services \ {Manager}) /\ frame[p].k = 1 /\ ~frame[p].hit
      BY <2>1, <2>3 DEF IInv, Typed, TypeOK, FrameOK, Counted
    <3>2. ~(1 <= Len(kids[p]))
      BY <2>1, <3>1 DEF MoreKids
    <3> QED
      BY <3>1, <3>2
  <2>5. p # Manager => FrameOK(p, "agree", frame[p], kids[p])
    BY <2>1, <2>3, <2>4, PlaceOK
  <2> QED
    BY <2>1, <2>2, <2>5, FramedKept DEF At
<1>11. ASSUME NEW p \in Services, Suicide(p) PROVE Framed'
  <2>1. At(p, "zombie", Idle, kids[p]) /\ Others({p})
    BY <1>11, SuicideDoes
  <2>2. "zombie" \notin Busy
    BY DEF Busy, Working, After
  <2> QED
    BY <2>1, <2>2, FramedKept DEF At
<1>12. ASSUME NEW p \in Services, ExchangeEnds(p) PROVE Framed'
  <2>1. /\ pc[p] = "loop" /\ frame[p].op = "exchange"
        /\ IF frame[p].n = 0 THEN At(p, "idle", Idle, kids[p])
                             ELSE At(p, CountPlace(p), frame[p], kids[p])
        /\ Others({p})
    BY <1>12, CountDoes
  <2>2. FrameOK(p, "loop", frame[p], kids[p])
    BY <2>1, BusyFacts DEF Busy, Working
  <2>3. FrameOK(p, CountPlace(p), frame[p], kids[p])
    BY <2>1, <2>2, PlaceOK DEF CountPlace
  <2>4. CountPlace(p) \in Busy /\ "idle" \notin Busy
    BY DEF CountPlace, Busy, Working, After
  <2> QED
    BY <2>1, <2>3, <2>4, FramedKept DEF At
<1>13. ASSUME NEW p \in Services, Talks(p) PROVE Framed'
  <2>1. /\ kids' = kids /\ Others({p}) /\ pc[p] \in After \ {"gather"}
    BY <1>13, TalkDoes DEF Talks, MakeFifos, WriteFifo, ReadFifo
  <2>2. FrameOK(p, pc[p], frame[p], kids[p]) /\ After \subseteq Busy
    BY <2>1, BusyFacts DEF Busy
  <2>3. frame[p].op = "exchange" /\ p \in {frame[p].a, frame[p].b} /\ frame[p].a # frame[p].b
        /\ <<Peer(p), p>> \in Pairs
    BY <2>1, PeerFacts
  <2>4. pc'[p] \in After /\ FrameOK(p, pc'[p], frame'[p], kids'[p])
    <3>1. CASE MakeFifos(p)
      <4>1. /\ pc'[p] = IF p = frame[p].a THEN "read_fifo" ELSE "write_fifo"
            /\ frame'[p] = frame[p]
        BY <3>1, Arrays DEF MakeFifos, Goto
      <4> QED
        BY <2>1, <2>2, <4>1, PlaceOK DEF After
    <3>2. CASE WriteFifo(p)
      <4>1. /\ pc'[p] = IF p = frame[p].a THEN "gather" ELSE "read_fifo"
            /\ frame'[p] = frame[p]
        BY <3>2, Arrays DEF WriteFifo, Goto
      <4> QED
        BY <2>1, <2>2, <4>1, PlaceOK DEF After
    <3>3. CASE ReadFifo(p)
      <4>1. pc[p] = "read_fifo" /\ Head(fifo[<<Peer(p), p>>]) \in Services
        BY <2>3, <3>3, FifoHolds DEF ReadFifo
      <4>2. CASE p = frame[p].a
        <5>1. /\ pc'[p] = "write_fifo"
              /\ frame'[p] = [frame[p] EXCEPT !.got = Head(fifo[<<Peer(p), p>>])]
          BY <3>3, <4>2, Arrays DEF ReadFifo, Goto, Set
        <5> QED
          BY <2>1, <2>2, <4>1, <5>1, GotOK DEF After
      <4>3. CASE p # frame[p].a
        <5>1. pc'[p] = "gather" /\ frame'[p] = frame[p]
          BY <3>3, <4>3, Arrays DEF ReadFifo, Goto
        <5> QED
          BY <2>1, <2>2, <5>1, PlaceOK DEF After
      <4> QED
        BY <4>2, <4>3
    <3> QED
      BY <1>13, <3>1, <3>2, <3>3 DEF Talks
  <2> QED
    BY <2>1, <2>2, <2>4, FramedKept
<1>14. ASSUME NEW p \in Services, GatherOne(p) PROVE Framed'
  <2> DEFINE c == Head(frame[p].wait)
  <2>1. c \in Services \ {p} /\ pc[p] = "gather" /\ pc[p] \in Busy
    BY <1>14, GatheredChild
  <2>2. /\ At(p, "gather", [frame[p] EXCEPT !.wait = Tail(@)], kids[p])
        /\ At(c, pc[c], frame[c], kids[c]) /\ Others({p, c})
    BY <1>14, <2>1, GatherOneDoes
  <2>3. FrameOK(p, "gather", frame[p], kids[p]) /\ frame[p].wait # <<>>
    BY <1>14, <2>1, BusyFacts DEF GatherOne
  <2>4. FrameOK(p, "gather", [frame[p] EXCEPT !.wait = Tail(@)], kids[p])
    BY <2>3, LessOK
  <2> HIDE DEF c
  <2> QED
    BY <2>1, <2>2, <2>4, FramedKept DEF At
<1>15. ASSUME NEW p \in Services, GatherEnds(p) PROVE Framed'
  <2>1. At(p, "idle", Idle, kids[p]) /\ Others({p})
    BY <1>15, GatherEndsDoes
  <2>2. "idle" \notin Busy
    BY DEF Busy, Working, After
  <2> QED
    BY <2>1, <2>2, FramedKept DEF At
<1>16. ASSUME NEW cmd \in Tree!Commands(Running), ReadLine(cmd) PROVE Framed'
  <2> DEFINE m == Msg(cmd.op, cmd.a, cmd.b, 0)
  <2>1. /\ At(Manager, Place(Manager, m), Enter(Manager, m), kids[Manager]) /\ Others({Manager})
    BY <1>16, ReadLineDoes
  <2>2. GoodOrder(m)
    BY <1>16, ReadLineFacts
  <2>3. FrameOK(Manager, Place(Manager, m), Enter(Manager, m), kids[Manager])
        /\ Place(Manager, m) \in Busy
    BY <2>2, EnterOK DEF Busy
  <2> HIDE DEF m
  <2> QED
    BY <2>1, <2>3, FramedKept DEF At
<1>17. ASSUME NEW p \in Services, pc[p] \notin Busy, \E l \in {"none", "idle"} : Goto(p, l),
              frame' = frame, kids' = kids \/ \A r \in Services : pc[r] = "none"
       PROVE  Framed'
  <2>1. pc'[p] \notin Busy
    BY <1>17, Arrays DEF Goto, Busy, Working, After
  <2>2. ASSUME NEW r \in Services
        PROVE  IF pc'[r] \in Busy THEN FrameOK(r, pc'[r], frame'[r], kids'[r])
                                  ELSE frame'[r] = Idle
    <3>1. CASE r = p
      BY <1>17, <2>1, <3>1 DEF IInv, Framed
    <3>2. CASE r # p
      <4>1. pc'[r] = pc[r] /\ frame'[r] = frame[r]
        BY <1>17, <3>2, Arrays DEF Goto
      <4>2. "none" \notin Busy
        BY DEF Busy, Working, After
      <4>3. IF pc[r] \in Busy THEN FrameOK(r, pc[r], frame[r], kids[r])
                              ELSE frame[r] = Idle
        BY DEF IInv, Framed
      <4> QED
        BY <1>17, <4>1, <4>2, <4>3
    <3> QED
      BY <3>1, <3>2
  <2> QED
    BY <2>2 DEF Framed
<1>18. ASSUME vars' = vars PROVE Framed'
  BY <1>18 DEF IInv, Framed, vars
<1>19. "none" \notin Busy /\ "idle" \notin Busy
  BY DEF Busy, Working, After
<1>20. ASSUME StartManager PROVE Framed'
  BY <1>17, <1>19, <1>20 DEF StartManager
<1>21. ASSUME EndOfInput PROVE Framed'
  BY <1>17, <1>19, <1>21 DEF EndOfInput
<1>22. ASSUME NEW p \in Services, Orphaned(p) PROVE Framed'
  BY <1>17, <1>19, <1>22 DEF Orphaned
<1>23. ASSUME NEW p \in Services, Step(p) PROVE Framed'
  BY <1>1, <1>2, <1>3, <1>4, <1>5, <1>6, <1>7, <1>8, <1>9, <1>10, <1>11, <1>12, <1>13,
     <1>14, <1>15, <1>22, <1>23, StepKinds
<1> QED
  BY <1>16, <1>18, <1>20, <1>21, <1>23 DEF Next
-----------------------------------------------------------------------------
(* The tree.                                                               *)
Tidy == Family /\ Attached /\ Ranked

(* Who runs is the one thing that decides who is in the tree.              *)
LEMMA RunningIs ==
  ASSUME NEW r
  PROVE  /\ r \in Running <=> r \in Services /\ pc[r] \notin {"none", "zombie"}
         /\ r \in Running' <=> r \in Services /\ pc'[r] \notin {"none", "zombie"}
BY DEF Running

(* A tree from which something may have been taken, nothing added.         *)
LEMMA TreeLess ==
  ASSUME Tidy,
         \A q \in Running' : /\ q \in Running
                             /\ \A c \in Services : Par(q, c)' => Par(q, c)
                             /\ Unique(kids'[q])
                             /\ pc'[q] = "spawning" => frame'[q].b \notin Elems(kids'[q]),
         \A c \in Services \ {Manager} :
            pc'[c] # "none" =>
              /\ pc[c] # "none"
              /\ \A q \in Running : Par(q, c) => q \in Running' /\ Par(q, c)'
  PROVE  Tidy'
<1>1. Family'
  BY DEF Tidy, Family
<1>2. Attached'
  BY DEF Tidy, Attached
<1>3. Ranked'
  <2>1. PICK rank \in [Services -> Nat] : Grows(rank)
    BY DEF Tidy, Ranked
  <2>2. Grows(rank)'
    BY <2>1 DEF Grows
  <2> QED
    BY <2>2 DEF Ranked
<1> QED
  BY <1>1, <1>2, <1>3 DEF Tidy

(* A tree that is as it was.                                               *)
LEMMA TreeSame ==
  ASSUME Tidy,
         \A r \in Services :
            /\ kids'[r] = kids[r]
            /\ r \in Running' <=> r \in Running
            /\ pc'[r] = "none" <=> pc[r] = "none"
            /\ pc'[r] = "spawning" <=> pc[r] = "spawning"
            /\ pc[r] = "spawning" => frame'[r] = frame[r]
  PROVE  Tidy'
<1>1. ASSUME NEW q \in Services, NEW c \in Services PROVE Par(q, c)' <=> Par(q, c)
  BY DEF Par, ParOf
<1>2. ASSUME NEW q \in Running'
      PROVE  /\ q \in Running
             /\ \A c \in Services : Par(q, c)' => Par(q, c)
             /\ Unique(kids'[q])
             /\ pc'[q] = "spawning" => frame'[q].b \notin Elems(kids'[q])
  <2>1. q \in Services /\ q \in Running
    BY RunningIs
  <2>2. Unique(kids[q]) /\ (pc[q] = "spawning" => frame[q].b \notin Elems(kids[q]))
    BY <2>1 DEF Tidy, Family
  <2> QED
    BY <1>1, <2>1, <2>2
<1>3. \A c \in Services \ {Manager} :
            pc'[c] # "none" =>
              /\ pc[c] # "none"
              /\ \A q \in Running : Par(q, c) => q \in Running' /\ Par(q, c)'
  BY <1>1, RunningIs
<1> QED
  BY <1>2, <1>3, TreeLess

(* A process that moves and has the tree as it was.                        *)
LEMMA TreeMove ==
  ASSUME Tidy, NEW p \in Services, NEW P, Others(P),
         pc[p] \notin {"none", "zombie", "spawning"},
         pc'[p] \notin {"none", "zombie", "spawning"}, kids'[p] = kids[p],
         \A r \in (P \cap Services) \ {p} : pc'[r] = pc[r] /\ frame'[r] = frame[r] /\ kids'[r] = kids[r]
  PROVE  Tidy'
<1> SUFFICES ASSUME NEW r \in Services
             PROVE  /\ kids'[r] = kids[r]
                    /\ r \in Running' <=> r \in Running
                    /\ pc'[r] = "none" <=> pc[r] = "none"
                    /\ pc'[r] = "spawning" <=> pc[r] = "spawning"
                    /\ pc[r] = "spawning" => frame'[r] = frame[r]
  BY TreeSame
<1>1. CASE r = p
  BY <1>1, RunningIs
<1>2. CASE r # p
  <2>1. pc'[r] = pc[r] /\ frame'[r] = frame[r] /\ kids'[r] = kids[r]
    BY <1>2 DEF Others, Same
  <2> QED
    BY <2>1, RunningIs
<1> QED
  BY <1>1, <1>2

(* A list with one more, or with one taken out.                            *)
LEMMA Longer ==
  ASSUME NEW S, NEW s \in Seq(S), NEW x \in S
  PROVE  /\ Append(s, x) \in Seq(S) /\ Elems(Append(s, x)) = Elems(s) \cup {x}
         /\ Unique(s) /\ x \notin Elems(s) => Unique(Append(s, x))
<1> DEFINE t == Append(s, x)
<1>1. /\ t \in Seq(S) /\ Len(t) = Len(s) + 1 /\ Len(s) \in Nat /\ t[Len(t)] = x
      /\ \A i \in 1..Len(s) : t[i] = s[i]
  OBVIOUS
<1> HIDE DEF t
<1>2. Elems(t) = Elems(s) \cup {x}
  <2>1. \A i \in 1..Len(t) : i \in 1..Len(s) \/ i = Len(t)
    BY <1>1
  <2>2. \A i \in 1..Len(s) : i \in 1..Len(t)
    BY <1>1
  <2>3. Len(t) \in 1..Len(t)
    BY <1>1
  <2> QED
    BY <1>1, <2>1, <2>2, <2>3 DEF Elems
<1>3. ASSUME Unique(s), x \notin Elems(s), NEW i \in 1..Len(t), NEW j \in 1..Len(t), t[i] = t[j]
      PROVE  i = j
  <2>1. \A n \in 1..Len(s) : s[n] # x
    BY <1>3 DEF Elems
  <2>2. i \in 1..Len(s) \/ i = Len(t)
    BY <1>1
  <2>3. j \in 1..Len(s) \/ j = Len(t)
    BY <1>1
  <2> QED
    BY <1>1, <1>3, <2>1, <2>2, <2>3 DEF Unique
<1> QED
  BY <1>1, <1>2, <1>3 DEF Unique, t

(* The list without its k-th element.                                      *)
LEMMA Shorter ==
  ASSUME NEW S, NEW s \in Seq(S), NEW k \in 1..Len(s), Unique(s)
  PROVE  /\ RemoveAt(s, k) \in Seq(S) /\ Unique(RemoveAt(s, k))
         /\ Elems(RemoveAt(s, k)) = Elems(s) \ {s[k]}
         /\ Len(RemoveAt(s, k)) = Len(s) - 1
<1> DEFINE t == RemoveAt(s, k)
           n == Len(s)
           a == SubSeq(s, 1, k - 1)
           b == SubSeq(s, k + 1, n)
<1>0. n \in Nat /\ k \in Nat /\ 1 <= k /\ k <= n
  OBVIOUS
<1>1. a \in Seq(S) /\ Len(a) = k - 1 /\ \A i \in 1..(k - 1) : a[i] = s[i]
  OBVIOUS
<1>2. b \in Seq(S) /\ Len(b) = n - k /\ \A i \in 1..(n - k) : b[i] = s[k + i]
  OBVIOUS
<1>3. t = a \o b
  BY DEF RemoveAt
<1> HIDE DEF a, b, t
<1>4. /\ t \in Seq(S) /\ Len(t) = n - 1
      /\ \A i \in 1..(n - 1) : t[i] = IF i < k THEN s[i] ELSE s[i + 1]
  <2>1. t \in Seq(S) /\ Len(t) = (k - 1) + (n - k)
    <3>1. a \o b \in Seq(S) /\ Len(a \o b) = Len(a) + Len(b)
      BY <1>1, <1>2, ConcatProperties
    <3> QED
      BY <1>1, <1>2, <1>3, <3>1
  <2>2. Len(t) = n - 1
    BY <1>0, <2>1
  <2>3. ASSUME NEW i \in 1..(n - 1) PROVE t[i] = IF i < k THEN s[i] ELSE s[i + 1]
    <3>1. CASE i < k
      <4>1. i \in 1..(k - 1)
        BY <1>0, <3>1
      <4>2. t[i] = a[i]
        BY <1>1, <1>2, <1>3, <4>1
      <4> QED
        BY <1>1, <3>1, <4>1, <4>2
    <3>2. CASE ~(i < k)
      <4>1. i - Len(a) \in 1..(n - k) /\ i - Len(a) = i - (k - 1) /\ i \in 1..(Len(a) + Len(b))
            /\ i > Len(a)
        BY <1>0, <1>1, <1>2, <3>2
      <4>2. t[i] = b[i - Len(a)]
        BY <1>1, <1>2, <1>3, <4>1
      <4>3. b[i - Len(a)] = s[k + (i - Len(a))] /\ k + (i - Len(a)) = i + 1
        BY <1>0, <1>2, <4>1
      <4> QED
        BY <3>2, <4>2, <4>3
    <3> QED
      BY <3>1, <3>2
  <2> QED
    BY <2>1, <2>2, <2>3
<1>5. Elems(t) = Elems(s) \ {s[k]}
  <2>1. ASSUME NEW x \in Elems(t) PROVE x \in Elems(s) \ {s[k]}
    <3>1. PICK i \in 1..(n - 1) : x = t[i]
      BY <1>4, <2>1 DEF Elems
    <3>2. PICK j \in 1..n : x = s[j] /\ j # k
      <4>1. CASE i < k
        BY <1>0, <1>4, <3>1, <4>1
      <4>2. CASE ~(i < k)
        BY <1>0, <1>4, <3>1, <4>2
      <4> QED
        BY <4>1, <4>2
    <3> QED
      BY <3>2 DEF Elems, Unique
  <2>2. ASSUME NEW x \in Elems(s) \ {s[k]} PROVE x \in Elems(t)
    <3>1. PICK j \in 1..n : x = s[j] /\ j # k
      BY <2>2 DEF Elems
    <3>2. CASE j < k
      <4>1. j \in 1..(n - 1) /\ t[j] = x
        BY <1>0, <1>4, <3>1, <3>2
      <4> QED
        BY <1>4, <4>1 DEF Elems
    <3>3. CASE ~(j < k)
      <4>1. j - 1 \in 1..(n - 1) /\ ~(j - 1 < k) /\ (j - 1) + 1 = j
        BY <1>0, <3>1, <3>3
      <4>2. t[j - 1] = x
        BY <1>4, <3>1, <4>1
      <4> QED
        BY <1>4, <4>1, <4>2 DEF Elems
    <3> QED
      BY <3>2, <3>3
  <2> QED
    BY <2>1, <2>2
<1>6. Unique(t)
  <2> SUFFICES ASSUME NEW i \in 1..(n - 1), NEW j \in 1..(n - 1), t[i] = t[j] PROVE i = j
    BY <1>4 DEF Unique
  <2> DEFINE x == IF i < k THEN i ELSE i + 1
             y == IF j < k THEN j ELSE j + 1
  <2>1. x \in 1..n /\ y \in 1..n /\ t[i] = s[x] /\ t[j] = s[y]
    BY <1>0, <1>4
  <2>2. x = y
    BY <2>1 DEF Unique
  <2> QED
    BY <1>0, <2>2
<1> QED
  BY <1>4, <1>5, <1>6 DEF t

(* Nothing is in an empty list.                                            *)
LEMMA EmptyElems ==
  Elems(<<>>) = {} /\ Unique(<<>>)
BY DEF Elems, Unique

(* Every step but the first of a Manager keeps the tree in order.          *)
LEMMA TidyStep ==
  ASSUME IInv, Alive, pc[Manager] # "none", [Next]_vars, pc'[Manager] # "none"
  PROVE  Tidy'
<1>0. Tidy
  BY DEF Alive, Tidy
<1>1. ASSUME NEW p \in Services, Receive(p) PROVE Tidy'
  <2>1. /\ At(p, Place(p, Head(down[p])), Enter(p, Head(down[p])), kids[p]) /\ Others({p})
    BY <1>1, ReceiveDoes
  <2>2. pc[p] = "idle" /\ pc'[p] \in {"fork", "loop"} /\ kids'[p] = kids[p]
    BY <1>1, <2>1 DEF Receive, At, Place
  <2> QED
    BY <1>0, <2>1, <2>2, TreeMove
<1>2. ASSUME NEW p \in Services, Fork(p) PROVE Tidy'
  <2>0. PICK c : c = frame[p].b
    OBVIOUS
  <2>1. /\ c \in Services \ {p} /\ pc'[p] = "spawning" /\ frame'[p] = frame[p] /\ kids'[p] = kids[p]
        /\ pc'[c] = "start" /\ kids'[c] = <<>>
        /\ \A r \in Services \ {p, c} : Same(r)
    BY <1>2, <2>0, ForkDoes DEF At, Others
  <2>2. pc[p] = "fork" /\ pc[c] = "none"
    BY <1>2, <2>0 DEF Fork
  <2>3. \A r \in Services : r \in Running' <=> r \in Running \/ r = c
    BY <2>1, <2>2, RunningIs DEF Same
  <2>4. c # Manager
    BY <2>2
  <2>5. p \in Running /\ c \notin Running
    BY <2>2, RunningIs
  <2>6. \A x : ~Par(c, x)'
    <3>1. Elems(kids'[c]) = {} /\ pc'[c] # "spawning"
      BY <2>1, EmptyElems
    <3> QED
      BY <3>1 DEF Par, ParOf
  <2>7. \A x : Par(p, x)' <=> Par(p, x) \/ x = c
    BY <2>0, <2>1, <2>2 DEF Par, ParOf
  <2>8. \A q \in Services \ {p, c}, x \in Services : Par(q, x)' <=> Par(q, x)
    BY <2>1 DEF Same, Par, ParOf
  <2>9. \A q \in Running : ~Par(q, c)
    <3> SUFFICES ASSUME NEW q \in Running, Par(q, c) PROVE FALSE
      OBVIOUS
    <3>1. Linked(q, c)
      BY <2>1 DEF Alive, Links
    <3> QED
      BY <2>2, <3>1, RelKind, LinkExists DEF Linked
  <2>10. Family'
    <3>1. ASSUME NEW q \in Running'
          PROVE  /\ Unique(kids'[q]) /\ ~Par(q, Manager)'
                 /\ pc'[q] = "spawning" => frame'[q].b \notin Elems(kids'[q])
      <4>1. CASE q = c
        BY <2>1, <2>6, <4>1, EmptyElems
      <4>2. CASE q = p
        <5>1. c \notin Elems(kids[p])
          BY <2>5, <2>9 DEF Par, ParOf
        <5> QED
          BY <1>0, <2>0, <2>1, <2>4, <2>5, <2>7, <4>2, <5>1 DEF Tidy, Family
      <4>3. CASE q \notin {p, c}
        <5>1. q \in Running /\ q \in Services /\ Same(q)
          BY <2>1, <2>3, <4>3, RunningIs
        <5> QED
          BY <1>0, <2>8, <4>3, <5>1 DEF Tidy, Family, Same
      <4> QED
        BY <4>1, <4>2, <4>3
    <3>2. ASSUME NEW q \in Running', NEW r \in Running', NEW x \in Services, Par(q, x)', Par(r, x)'
          PROVE  q = r
      <4>0. q # c /\ r # c
        <5>1. \A y : Par(y, x)' => y # c
          BY <2>6
        <5> QED
          BY <3>2, <5>1
      <4>1. q # c /\ r # c /\ q \in Running /\ r \in Running /\ q \in Services /\ r \in Services
        BY <2>3, <3>2, <4>0, RunningIs
      <4>2. (Par(q, x) \/ (q = p /\ x = c)) /\ (Par(r, x) \/ (r = p /\ x = c))
        BY <2>7, <2>8, <3>2, <4>1
      <4> QED
        BY <1>0, <2>9, <4>1, <4>2 DEF Tidy, Family
    <3> QED
      BY <3>1, <3>2 DEF Family
  <2>11. Attached'
    <3> SUFFICES ASSUME NEW x \in Services \ {Manager}, pc'[x] # "none"
                 PROVE  \E q \in Running' : Par(q, x)'
      BY DEF Attached
    <3>1. CASE x = c
      BY <2>3, <2>5, <2>7, <3>1, RunningIs
    <3>2. CASE x # c
      <4>1. pc[x] # "none"
        BY <2>1, <2>2, <3>2 DEF Same
      <4>2. PICK q \in Running : Par(q, x)
        BY <1>0, <4>1 DEF Tidy, Attached
      <4>3. q # c /\ q \in Services
        BY <2>5, <4>2, RunningIs
      <4> QED
        BY <2>3, <2>7, <2>8, <4>2, <4>3
    <3> QED
      BY <3>1, <3>2
  <2>12. Ranked'
    <3>1. PICK rank \in [Services -> Nat] : Grows(rank)
      BY <1>0 DEF Tidy, Ranked
    <3>2. PICK high \in [Services -> Nat] :
             high[c] = rank[p] + 1 /\ \A x \in Services \ {c} : high[x] = rank[x]
      <4>1. [rank EXCEPT ![c] = rank[p] + 1] \in [Services -> Nat]
        BY <2>1, <3>1
      <4> QED
        BY <2>1, <3>1, <4>1
    <3>3. ASSUME NEW q \in Running', NEW x \in Services, Par(q, x)'
          PROVE  high[q] < high[x]
      <4>0. q # c
        <5>1. \A y : Par(y, x)' => y # c
          BY <2>6
        <5> QED
          BY <3>3, <5>1
      <4>1. q # c /\ q \in Running /\ q \in Services
        BY <2>3, <3>3, <4>0, RunningIs
      <4>2. CASE q = p /\ x = c
        BY <2>1, <3>1, <3>2, <4>1, <4>2
      <4>3. CASE ~(q = p /\ x = c)
        <5>1. Par(q, x)
          BY <2>7, <2>8, <3>3, <4>1, <4>3
        <5>2. x # c
          BY <2>9, <4>1, <5>1
        <5>3. rank[q] < rank[x]
          BY <3>1, <4>1, <5>1 DEF Grows
        <5> QED
          BY <3>2, <4>1, <5>2, <5>3
      <4> QED
        BY <4>2, <4>3
    <3>4. Grows(high)'
      BY <3>3 DEF Grows
    <3> QED
      BY <3>2, <3>4 DEF Ranked
  <2> QED
    BY <2>10, <2>11, <2>12 DEF Tidy
<1>3. ASSUME NEW p \in Services, Started(p) PROVE Tidy'
  <2>1. At(p, "idle", frame[p], kids[p]) /\ Others({p}) /\ pc[p] = "start"
    BY <1>3, StartedDoes DEF Started
  <2>2. pc'[p] = "idle" /\ kids'[p] = kids[p]
    BY <2>1 DEF At
  <2> QED
    BY <1>0, <2>1, <2>2, TreeMove
<1>4. ASSUME NEW p \in Services, Handshake(p) PROVE Tidy'
  <2> DEFINE c == frame[p].b
             list == Append(kids[p], c)
  <2>1. pc[p] = "spawning" /\ p \in Running
    BY <1>4, RunningIs DEF Handshake
  <2>2. c \in Services \ {Manager, p} /\ c \notin Elems(kids[p])
    BY <2>1, MadeChild
  <2>3. /\ At(p, "loop", [frame[p] EXCEPT !.hit = TRUE], list)
        /\ At(c, pc[c], frame[c], kids[c]) /\ Others({p, c})
    BY <1>4, <2>2, HandshakeDoes
  <2>4. /\ pc'[p] = "loop" /\ kids'[p] = list
        /\ \A r \in Services \ {p} : pc'[r] = pc[r] /\ frame'[r] = frame[r] /\ kids'[r] = kids[r]
    BY <2>3 DEF At, Others, Same
  <2>5. Elems(list) = Elems(kids[p]) \cup {c} /\ Unique(list)
    <3>1. kids[p] \in Seq(Services \ {Manager}) /\ Unique(kids[p])
      BY <1>0, <2>1 DEF IInv, Typed, TypeOK, Tidy, Family
    <3> QED
      BY <2>2, <3>1, Longer
  <2>6. \A x : Par(p, x)' <=> Par(p, x)
    BY <2>1, <2>4, <2>5 DEF Par, ParOf
  <2>7. \A q \in Services \ {p} : \A x : Par(q, x)' <=> Par(q, x)
    BY <2>4 DEF Par, ParOf
  <2> HIDE DEF c, list
  <2>8. \A q \in Services : q \in Running' <=> q \in Running
    BY <2>1, <2>4, RunningIs
  <2>9. ASSUME NEW q \in Running'
        PROVE  /\ q \in Running
               /\ \A x \in Services : Par(q, x)' => Par(q, x)
               /\ Unique(kids'[q])
               /\ pc'[q] = "spawning" => frame'[q].b \notin Elems(kids'[q])
    <3>1. q \in Services /\ q \in Running
      BY <2>8, RunningIs
    <3>2. \A x \in Services : Par(q, x)' => Par(q, x)
      BY <2>6, <2>7, <3>1
    <3>3. Unique(kids'[q]) /\ (pc'[q] = "spawning" => frame'[q].b \notin Elems(kids'[q]))
      <4>1. CASE q = p
        BY <2>4, <2>5, <4>1
      <4>2. CASE q # p
        BY <1>0, <2>4, <3>1, <4>2 DEF Tidy, Family
      <4> QED
        BY <4>1, <4>2
    <3> QED
      BY <3>1, <3>2, <3>3
  <2>10. ASSUME NEW x \in Services \ {Manager}, pc'[x] # "none"
         PROVE  /\ pc[x] # "none"
                /\ \A q \in Running : Par(q, x) => q \in Running' /\ Par(q, x)'
    BY <2>1, <2>4, <2>6, <2>7, <2>8, <2>10, RunningIs
  <2> QED
    BY <1>0, <2>9, <2>10, TreeLess
<1>5. ASSUME NEW p \in Services, CallChild(p) PROVE Tidy'
  <2> DEFINE c == Child(p)
  <2>1. c \in Services \ {p} /\ pc[p] = "loop"
    BY <1>5, CalledChild DEF CallChild
  <2>2. At(p, "wait", frame[p], kids[p]) /\ At(c, pc[c], frame[c], kids[c]) /\ Others({p, c})
    BY <1>5, <2>1, CallChildDoes
  <2> HIDE DEF c
  <2> QED
    BY <1>0, <2>1, <2>2, TreeMove DEF At
<1>6. ASSUME NEW p \in Services, Answer(p) PROVE Tidy'
  <2> DEFINE c == Child(p)
             r == Head(up[c])
  <2>1. c \in Services \ {p} /\ pc[p] = "wait"
    BY <1>6, AnswerOK
  <2>2. /\ At(p, AnswerPlace(p, r), AfterAnswer(p, r), kids[p])
        /\ At(c, pc[c], frame[c], kids[c]) /\ Others({p, c})
    BY <1>6, <2>1, AnswerDoes
  <2>3. pc'[p] \in {"loop", "suicide"} /\ kids'[p] = kids[p]
    BY <2>2 DEF At, AnswerPlace
  <2>4. pc'[c] = pc[c] /\ frame'[c] = frame[c] /\ kids'[c] = kids[c]
    BY <2>2 DEF At
  <2> HIDE DEF c, r
  <2> QED
    BY <1>0, <2>1, <2>2, <2>3, <2>4, TreeMove
<1>7. ASSUME NEW p \in Services, LetChildSuicide(p) PROVE Tidy'
  <2> DEFINE c == Child(p)
  <2>1. c \in Services \ {p} /\ pc[p] = "suicide"
    BY <1>7, CalledChild DEF LetChildSuicide
  <2>2. At(p, "reap", frame[p], kids[p]) /\ At(c, pc[c], frame[c], kids[c]) /\ Others({p, c})
    BY <1>7, <2>1, LetChildSuicideDoes
  <2> HIDE DEF c
  <2> QED
    BY <1>0, <2>1, <2>2, TreeMove DEF At
<1>8. ASSUME NEW p \in Services, Reap(p) PROVE Tidy'
  <2> DEFINE c == Child(p)
             list == RemoveAt(kids[p], frame[p].k)
  <2>1. c \in Services \ {Manager, p} /\ pc[c] = "zombie" /\ pc[p] = "reap"
        /\ frame[p].k \in 1..Len(kids[p]) /\ p \in Running
    BY <1>8, CalledChild, RunningIs DEF Reap
  <2>2. At(p, "loop", frame[p], list) /\ At(c, "none", frame[c], kids[c]) /\ Others({p, c})
    BY <1>8, <2>1, ReapDoes
  <2>3. Elems(list) = Elems(kids[p]) \ {c} /\ Unique(list)
    <3>1. kids[p] \in Seq(Services \ {Manager}) /\ Unique(kids[p])
      BY <1>0, <2>1 DEF IInv, Typed, TypeOK, Tidy, Family
    <3> QED
      BY <2>1, <3>1, Shorter DEF Child
  <2> HIDE DEF list, c
  <2>4. /\ pc'[p] = "loop" /\ kids'[p] = list /\ pc'[c] = "none"
        /\ \A r \in Services \ {p, c} : pc'[r] = pc[r]
        /\ \A r \in Services \ {p} : frame'[r] = frame[r] /\ kids'[r] = kids[r]
    BY <2>2 DEF At, Others, Same
  <2>5. \A x : Par(p, x)' <=> Par(p, x) /\ x # c
    BY <2>1, <2>3, <2>4 DEF Par, ParOf
  <2>6. \A q \in Services \ {p, c} : \A x : Par(q, x)' <=> Par(q, x)
    BY <2>4 DEF Par, ParOf
  <2>7. \A q \in Services : q \in Running' <=> q \in Running
    BY <2>1, <2>4, RunningIs
  <2>8. c \notin Running
    BY <2>1, RunningIs
  <2>9. ASSUME NEW q \in Running'
        PROVE  /\ q \in Running
               /\ \A x \in Services : Par(q, x)' => Par(q, x)
               /\ Unique(kids'[q])
               /\ pc'[q] = "spawning" => frame'[q].b \notin Elems(kids'[q])
    <3>1. q \in Services \ {c} /\ q \in Running
      BY <2>7, <2>8, RunningIs
    <3>2. \A x \in Services : Par(q, x)' => Par(q, x)
      BY <2>5, <2>6, <3>1
    <3>3. Unique(kids'[q]) /\ (pc'[q] = "spawning" => frame'[q].b \notin Elems(kids'[q]))
      <4>1. CASE q = p
        BY <2>3, <2>4, <4>1
      <4>2. CASE q # p
        BY <1>0, <2>4, <3>1, <4>2 DEF Tidy, Family
      <4> QED
        BY <4>1, <4>2
    <3> QED
      BY <3>1, <3>2, <3>3
  <2>10. ASSUME NEW x \in Services \ {Manager}, pc'[x] # "none"
         PROVE  /\ pc[x] # "none"
                /\ \A q \in Running : Par(q, x) => q \in Running' /\ Par(q, x)'
    <3>1. x # c
      BY <2>4, <2>10
    <3>2. pc[x] # "none"
      BY <2>1, <2>4, <2>10, <3>1
    <3>3. ASSUME NEW q \in Running, Par(q, x) PROVE q \in Running' /\ Par(q, x)'
      BY <2>5, <2>6, <2>7, <2>8, <3>1, <3>3, RunningIs
    <3> QED
      BY <3>2, <3>3
  <2> QED
    BY <1>0, <2>9, <2>10, TreeLess
<1>9. ASSUME NEW p \in Services, ReturnEnds(p) \/ GatherEnds(p) PROVE Tidy'
  <2>1. /\ At(p, "idle", Idle, kids[p]) /\ Others({p}) /\ pc[p] \in {"loop", "gather"}
    BY <1>9, ReturnDoes, GatherEndsDoes
  <2>2. pc'[p] = "idle" /\ kids'[p] = kids[p]
    BY <2>1 DEF At
  <2> QED
    BY <1>0, <2>1, <2>2, TreeMove
<1>10. ASSUME NEW p \in Services, TerminateEnds(p) PROVE Tidy'
  <2>1. /\ IF p = Manager THEN At(p, "none", Idle, kids[p]) ELSE At(p, "agree", frame[p], kids[p])
        /\ Others({p}) /\ pc[p] = "loop"
    BY <1>10, TerminateDoes
  <2>2. pc'[p] = "agree" /\ kids'[p] = kids[p]
    BY <2>1 DEF At
  <2> QED
    BY <1>0, <2>1, <2>2, TreeMove
<1>11. ASSUME NEW p \in Services, Suicide(p) PROVE Tidy'
  <2>1. At(p, "zombie", Idle, kids[p]) /\ Others({p}) /\ pc[p] = "agree"
    BY <1>11, SuicideDoes
  <2>2. kids[p] = <<>>
    BY <2>1, BusyFacts DEF FrameOK, Stands, Busy
  <2>3. /\ pc'[p] = "zombie"
        /\ \A r \in Services \ {p} : pc'[r] = pc[r] /\ frame'[r] = frame[r] /\ kids'[r] = kids[r]
    BY <2>1 DEF At, Others, Same
  <2>4. \A x : ~Par(p, x)
    BY <2>1, <2>2 DEF Par, ParOf, Elems
  <2>5. \A q \in Services \ {p} : \A x : Par(q, x)' <=> Par(q, x)
    BY <2>3 DEF Par, ParOf
  <2>6. \A q \in Services : q \in Running' <=> q \in Running /\ q # p
    BY <2>1, <2>3, RunningIs
  <2>7. ASSUME NEW q \in Running'
        PROVE  /\ q \in Running
               /\ \A x \in Services : Par(q, x)' => Par(q, x)
               /\ Unique(kids'[q])
               /\ pc'[q] = "spawning" => frame'[q].b \notin Elems(kids'[q])
    <3>1. q \in Services \ {p} /\ q \in Running
      BY <2>6, RunningIs
    <3> QED
      BY <1>0, <2>3, <2>5, <3>1 DEF Tidy, Family
  <2>8. ASSUME NEW x \in Services \ {Manager}, pc'[x] # "none"
        PROVE  /\ pc[x] # "none"
               /\ \A q \in Running : Par(q, x) => q \in Running' /\ Par(q, x)'
    <3>1. pc[x] # "none"
      BY <2>1, <2>3, <2>8
    <3>2. ASSUME NEW q \in Running, Par(q, x) PROVE q \in Running' /\ Par(q, x)'
      BY <2>4, <2>5, <2>6, <3>2, RunningIs
    <3> QED
      BY <3>1, <3>2
  <2> QED
    BY <1>0, <2>7, <2>8, TreeLess
<1>12. ASSUME NEW p \in Services, ExchangeEnds(p) PROVE Tidy'
  <2>1. /\ pc[p] = "loop"
        /\ IF frame[p].n = 0 THEN At(p, "idle", Idle, kids[p])
                             ELSE At(p, CountPlace(p), frame[p], kids[p])
        /\ Others({p})
    BY <1>12, CountDoes
  <2>2. pc'[p] \in {"idle", "mkfifo", "gather"} /\ kids'[p] = kids[p]
    BY <2>1 DEF At, CountPlace
  <2> QED
    BY <1>0, <2>1, <2>2, TreeMove
<1>13. ASSUME NEW p \in Services, Talks(p) PROVE Tidy'
  <2>1. pc'[p] \in After /\ pc[p] \in After /\ kids'[p] = kids[p] /\ Others({p})
    BY <1>13, TalkDoes DEF At
  <2> QED
    BY <1>0, <2>1, TreeMove DEF After
<1>14. ASSUME NEW p \in Services, GatherOne(p) PROVE Tidy'
  <2> DEFINE c == Head(frame[p].wait)
  <2>1. c \in Services \ {p} /\ pc[p] = "gather"
    BY <1>14, GatheredChild
  <2>2. /\ At(p, "gather", [frame[p] EXCEPT !.wait = Tail(@)], kids[p])
        /\ At(c, pc[c], frame[c], kids[c]) /\ Others({p, c})
    BY <1>14, <2>1, GatherOneDoes
  <2>3. pc'[p] = "gather" /\ kids'[p] = kids[p]
        /\ pc'[c] = pc[c] /\ frame'[c] = frame[c] /\ kids'[c] = kids[c]
    BY <2>2 DEF At
  <2> HIDE DEF c
  <2> QED
    BY <1>0, <2>1, <2>2, <2>3, TreeMove
<1>15. ASSUME NEW cmd \in Tree!Commands(Running), ReadLine(cmd) PROVE Tidy'
  <2> DEFINE m == Msg(cmd.op, cmd.a, cmd.b, 0)
  <2>1. /\ At(Manager, Place(Manager, m), Enter(Manager, m), kids[Manager]) /\ Others({Manager})
    BY <1>15, ReadLineDoes
  <2>2. pc[Manager] = "idle" /\ pc'[Manager] \in {"fork", "loop"}
        /\ kids'[Manager] = kids[Manager]
    BY <1>15, <2>1 DEF ReadLine, At, Place
  <2> HIDE DEF m
  <2> QED
    BY <1>0, <2>1, <2>2, TreeMove
<1>16. ASSUME NEW p \in Services, Orphaned(p) PROVE Tidy'
  <2>1. p # Manager /\ pc[p] # "none" /\ ~HasParent(p)
    BY <1>16 DEF Orphaned
  <2>2. PICK q \in Running : Par(q, p)
    BY <1>0, <2>1 DEF Tidy, Attached
  <2>3. HasParent(p)
    BY <2>2 DEF HasParent, Par, ParOf, Elems, Contains
  <2> QED
    BY <2>1, <2>3
<1>17. ~StartManager
  BY DEF StartManager
<1>18. ~EndOfInput
  BY Arrays DEF EndOfInput, Goto
<1>19. ASSUME vars' = vars PROVE Tidy'
  <2>1. /\ kids' = kids /\ pc' = pc /\ frame' = frame
    BY <1>19 DEF vars
  <2> QED
    BY <1>0, <2>1, RunningIs, TreeSame
<1>20. ASSUME NEW p \in Services, Step(p) PROVE Tidy'
  BY <1>1, <1>2, <1>3, <1>4, <1>5, <1>6, <1>7, <1>8, <1>9, <1>10, <1>11, <1>12, <1>13,
     <1>14, <1>16, <1>20, StepKinds
<1> QED
  BY <1>15, <1>17, <1>18, <1>19, <1>20 DEF Next
=============================================================================
