--------------------------- MODULE ServiceProofs ---------------------------
(***************************************************************************)
(* For any set of services and any sequence of commands: no pipe of hw2    *)
(* ever holds two commands, the variables keep their types, and when the   *)
(* Manager reads its next line nothing is left of the last one. The        *)
(* invariant they follow from is that of ServiceInvariant; this module     *)
(* takes its parts one after the other.                                    *)
(***************************************************************************)
EXTENDS ServiceInvariant

USE ServiceAssumption

-----------------------------------------------------------------------------
(* The links.                                                              *)
Waits(f, c) == IF c \in Elems(f.wait) THEN "pending" ELSE "rest"

(* How a parent stands to a child, by place.                               *)
LEMMA RelAt ==
  ASSUME NEW l, NEW f, NEW list, NEW c
  PROVE  /\ l \in {"idle", "start"} => Rel(l, f, list, c) = "rest"
         /\ l \in {"fork", "loop", "agree"} \cup After => Rel(l, f, list, c) = Waits(f, c)
         /\ l \in {"wait", "suicide", "reap"} =>
              Rel(l, f, list, c) = IF list[f.k] = c THEN l ELSE Waits(f, c)
         /\ l = "spawning" => Rel(l, f, list, c) = IF f.b = c THEN l ELSE Waits(f, c)
BY DEF Rel, Waits, Busy, Working, After

(* Only a parent that waits has local variables that matter to a link.     *)
LEMMA LinkFrame ==
  ASSUME NEW rel, NEW f, NEW g, NEW cp, NEW cop, NEW d, NEW u,
         Link(rel, f, cp, cop, d, u), rel # "wait"
  PROVE  Link(rel, g, cp, cop, d, u)
BY DEF Link

(* What a step of p leaves of the link to its parent.                      *)
UpKept(p) ==
    \A q \in Running \ {p} : Par(q, p) /\ Linked(q, p) =>
       Link(Rel(pc[q], frame[q], kids[q], p), frame[q], pc'[p], frame'[p].op, down'[p], up'[p])

(* The other processes it changes are its children.                        *)
Touched(p, r) ==
    /\ Par(p, r) \/ pc[r] = "none"
    /\ \/ pc'[r] = pc[r] /\ frame'[r] = frame[r] /\ kids'[r] = kids[r]
       \/ pc'[r] = "none"
       \/ pc'[r] = "start" /\ kids'[r] = <<>>

(* The children it does not change have the same link.                     *)
Untouched(p, x) ==
    Par(p, x)' =>
      /\ Par(p, x)
      /\ Rel(pc'[p], frame'[p], kids'[p], x) = Rel(pc[p], frame[p], kids[p], x)
      /\ Rel(pc[p], frame[p], kids[p], x) # "wait"

(* A step that keeps the links of the process that takes it keeps all.     *)
LEMMA LinksKept ==
  ASSUME IInv, Alive, Tidy', NEW p \in Running, NEW P, p \in P, Others(P),
         UpKept(p),
         \A r \in (P \cap Services) \ {p} : Touched(p, r) /\ (Par(p, r)' => Linked(p, r)'),
         p \in Running' => \A x \in Services \ P : Untouched(p, x)
  PROVE  Links'
<1> SUFFICES ASSUME NEW q \in Running', NEW x \in Services, Par(q, x)'
             PROVE  Linked(q, x)'
  BY DEF Links
<1>0. p \in Services /\ q \in Services
  BY RunningIs
<1>1. CASE q = p
  <2>1. x # p
    <3>1. PICK rank \in [Services -> Nat] : Grows(rank)'
      BY DEF Tidy, Ranked
    <3>2. rank[q] < rank[x]
      BY <3>1 DEF Grows
    <3> QED
      BY <1>0, <1>1, <3>1, <3>2
  <2>2. CASE x \in P
    BY <1>1, <2>1, <2>2
  <2>3. CASE x \notin P
    <3>1. Untouched(p, x) /\ Same(x)
      BY <1>1, <2>3 DEF Others
    <3>2. Linked(p, x)
      BY <1>1, <3>1 DEF Untouched, Alive, Links
    <3> QED
      BY <1>1, <3>1, <3>2, LinkFrame DEF Untouched, Linked, Same
  <2> QED
    BY <2>2, <2>3
<1>2. CASE q # p
  <2>1. pc'[q] = pc[q] /\ frame'[q] = frame[q] /\ kids'[q] = kids[q]
    <3>1. CASE q \notin P
      BY <1>0, <3>1 DEF Others, Same
    <3>2. CASE q \in P
      <4>1. Touched(p, q) /\ pc'[q] # "none"
        BY <1>0, <1>2, <3>2, RunningIs
      <4>2. ~(pc'[q] = "start" /\ kids'[q] = <<>>)
        BY EmptyElems DEF Par, ParOf
      <4> QED
        BY <4>1, <4>2 DEF Touched
    <3> QED
      BY <3>1, <3>2
  <2>2. q \in Running /\ Par(q, x)
    BY <1>0, <2>1, RunningIs DEF Par, ParOf
  <2>3. Linked(q, x)
    BY <2>2 DEF Alive, Links
  <2>4. CASE x = p
    BY <1>2, <2>1, <2>2, <2>3, <2>4 DEF UpKept, Linked
  <2>5. CASE x # p /\ x \in P
    <3>1. Par(p, x) \/ pc[x] = "none"
      BY <2>5 DEF Touched
    <3>2. pc[x] # "none"
      BY <2>3, RelKind, LinkExists DEF Linked
    <3>3. q = p
      BY <2>2, <3>1, <3>2 DEF Alive, Family
    <3> QED
      BY <1>2, <3>3
  <2>6. CASE x \notin P
    <3>1. Same(x)
      BY <2>6 DEF Others
    <3> QED
      BY <2>1, <2>3, <3>1 DEF Linked, Same
  <2> QED
    BY <2>4, <2>5, <2>6
<1> QED
  BY <1>1, <1>2

(* Steps that leave a process at work, or in the exchange.                 *)
LEMMA UpWorking ==
  ASSUME NEW p \in Services, pc[p] \in Working, pc'[p] \in Working,
         frame'[p].op = frame[p].op, Pipe(p, down[p], up[p])
  PROVE  UpKept(p)
BY RelKind, LinkWorking DEF UpKept, Linked, Pipe

(* The same for one that goes on with the exchange.                        *)
LEMMA UpAfter ==
  ASSUME NEW p \in Services, pc[p] \in After, pc'[p] \in After,
         frame'[p].op = frame[p].op, Pipe(p, down[p], up[p])
  PROVE  UpKept(p)
BY RelKind, LinkAfter DEF UpKept, Linked, Pipe

(* What is said of one child holds as well when p has no other in a step.  *)
LEMMA Alone ==
  ASSUME IInv, Alive, Tidy', NEW p \in Running, Others({p}), UpKept(p),
         p \in Running' => \A x \in Services \ {p} : Untouched(p, x)
  PROVE  Links'
BY LinksKept

(* The same when one other process is changed, c.                          *)
LEMMA WithOne ==
  ASSUME IInv, Alive, Tidy', NEW p \in Running, NEW c, Others({p, c}), UpKept(p),
         c \in Services => Touched(p, c) /\ (Par(p, c)' => Linked(p, c)'),
         p \in Running' => \A x \in Services \ {p, c} : Untouched(p, x)
  PROVE  Links'
BY LinksKept

(* An answer does not change what is asked, and what is kept of others.    *)
LEMMA AnswerKeeps ==
  ASSUME NEW p, NEW r, frame[p] \in Frames, NEW S, frame[p].wait \in Seq(S), Child(p) \in S
  PROVE  LET g == AfterAnswer(p, r)
             f == frame[p]
         IN  /\ g.op = f.op /\ g.a = f.a /\ g.b = f.b
             /\ f.op # "exchange" \/ r.status = 0 => g.wait = f.wait
             /\ f.op = "exchange" /\ r.status # 0 => Elems(g.wait) = Elems(f.wait) \cup {Child(p)}
<1> DEFINE f == frame[p]
           g == AfterAnswer(p, r)
<1>1. CASE f.op \in {"spawn", "kill", "killall"}
  BY <1>1 DEF AfterAnswer, Frames
<1>2. CASE f.op = "exchange"
  <2>1. g = [f EXCEPT !.k = @ + 1,
                      !.n = IF r.status = 2 THEN 2 ELSE @ + r.status,
                      !.wait = IF r.status = 0 THEN @ ELSE Append(@, Child(p))]
    BY <1>2 DEF AfterAnswer
  <2>2. /\ g.op = f.op /\ g.a = f.a /\ g.b = f.b
        /\ g.wait = IF r.status = 0 THEN f.wait ELSE Append(f.wait, Child(p))
    BY <2>1 DEF Frames
  <2>3. Elems(Append(f.wait, Child(p))) = Elems(f.wait) \cup {Child(p)}
    BY Longer
  <2> QED
    BY <1>2, <2>2, <2>3
<1> QED
  BY <1>1, <1>2 DEF Frames, Ops

(* A command is taken up.                                                  *)
LEMMA TakenUp ==
  ASSUME IInv, Alive, Tidy', NEW p \in Running, pc[p] = "idle", NEW m, Others({p}),
         At(p, Place(p, m), Enter(p, m), kids[p]), UpKept(p)
  PROVE  Links'
<1>1. pc'[p] \in {"fork", "loop"} /\ kids'[p] = kids[p] /\ frame'[p].wait = <<>>
  BY DEF At, Place, Enter
<1>2. ASSUME NEW x \in Services PROVE Untouched(p, x)
  <2>1. Rel(pc'[p], frame'[p], kids'[p], x) = "rest"
    BY <1>1, RelAt, EmptyElems DEF Waits
  <2>2. Rel(pc[p], frame[p], kids[p], x) = "rest"
    BY RelAt
  <2> QED
    BY <1>1, <2>1, <2>2 DEF Untouched, Par, ParOf
<1> QED
  BY <1>2, Alone

(* Every step keeps the links: a command is read from the pipe.            *)
LEMMA LinksReceive ==
  ASSUME IInv, Tidy', NEW p \in Services, Receive(p)
  PROVE  Links'
<1> DEFINE m == Head(down[p])
<1>1. /\ At(p, Place(p, m), Enter(p, m), kids[p]) /\ Pipe(p, Tail(down[p]), up[p])
      /\ Others({p})
  BY ReceiveDoes
<1>2. pc[p] = "idle" /\ down[p] # <<>>
  BY DEF Receive
<1>3. Alive /\ p \in Running
  BY ReceiveOrder
<1>4. UpKept(p)
  <2> SUFFICES ASSUME NEW q \in Running, Par(q, p), Linked(q, p)
               PROVE  Link(Rel(pc[q], frame[q], kids[q], p), frame[q], pc'[p], frame'[p].op,
                           down'[p], up'[p])
    BY DEF UpKept
  <2> DEFINE rel == Rel(pc[q], frame[q], kids[q], p)
             f == frame[q]
  <2>0. rel \in Rels
    BY RelKind
  <2>1. /\ Head(down[p]) = Order(f) /\ Tail(down[p]) = <<>> /\ Order(f).op = f.op
        /\ \A x \in Working : \A y :
              y = f.op \/ (f.op = "kill" /\ y = "killall") => Link(rel, f, x, y, <<>>, up[p])
    <3>1. Link(rel, f, "idle", frame[p].op, down[p], up[p])
      BY <1>2 DEF Linked
    <3> HIDE DEF rel, f
    <3> QED
      BY <1>2, <2>0, <3>1, LinkReceive
  <2>2. pc'[p] = Place(p, m) /\ Place(p, m) \in Working
    BY <1>1 DEF At, Place, Working
  <2>3. m.op = f.op
    BY <2>1
  <2>4. frame'[p].op = f.op \/ (f.op = "kill" /\ frame'[p].op = "killall")
    BY <1>1, <2>3 DEF At, Enter
  <2> HIDE DEF rel, f, m
  <2>5. down'[p] = <<>> /\ up'[p] = up[p]
    BY <1>1, <2>1 DEF Pipe
  <2> QED
    BY <2>1, <2>2, <2>4, <2>5 DEF rel, f
<1> HIDE DEF m
<1> QED
  BY <1>1, <1>2, <1>3, <1>4, TakenUp

(* The Manager reads a line.                                               *)
LEMMA LinksReadLine ==
  ASSUME IInv, Tidy', NEW cmd \in Tree!Commands(Running), ReadLine(cmd)
  PROVE  Links'
<1> DEFINE m == Msg(cmd.op, cmd.a, cmd.b, 0)
<1>1. At(Manager, Place(Manager, m), Enter(Manager, m), kids[Manager]) /\ Others({Manager})
  BY ReadLineDoes
<1>2. Alive /\ Manager \in Running /\ pc[Manager] = "idle"
  BY ReadLineFacts
<1>3. UpKept(Manager)
  BY <1>2 DEF UpKept, Alive, Family
<1> HIDE DEF m
<1> QED
  BY <1>1, <1>2, <1>3, TakenUp

(* The only answer is taken.                                               *)
LEMMA OneTail ==
  ASSUME NEW S, NEW u \in Seq(S), Len(u) = 1
  PROVE  Tail(u) = <<>>
<1>1. u # <<>>
  OBVIOUS
<1>2. Tail(u) \in Seq(S) /\ Len(Tail(u)) = 0
  BY <1>1, TailFacts
<1> QED
  BY <1>2, EmptySeq

(* Same children, and the same answers awaited.                            *)
LEMMA Unchanging ==
  ASSUME NEW p, NEW x \in Services, kids'[p] = kids[p],
         pc[p] # "spawning", pc'[p] # "spawning",
         Rel(pc'[p], frame'[p], kids'[p], x) = Waits(frame[p], x),
         Rel(pc[p], frame[p], kids[p], x) = Waits(frame[p], x)
  PROVE  Untouched(p, x)
BY DEF Untouched, Par, ParOf, Waits

(* A process forks.                                                        *)
LEMMA LinksFork ==
  ASSUME IInv, Tidy', NEW p \in Services, Fork(p)
  PROVE  Links'
<1>0. PICK c : c = frame[p].b
  OBVIOUS
<1>1. /\ c \in Services \ {p} /\ pc'[p] = "spawning" /\ frame'[p] = frame[p] /\ kids'[p] = kids[p]
      /\ Pipe(p, down[p], up[p]) /\ pc'[c] = "start" /\ kids'[c] = <<>> /\ Pipe(c, <<>>, <<>>)
      /\ Others({p, c})
  BY <1>0, ForkDoes DEF At
<1>2. pc[p] = "fork" /\ pc[c] = "none"
  BY <1>0 DEF Fork
<1>3. Alive /\ p \in Running
  BY <1>2, BusyFacts DEF Busy, Working
<1>4. UpKept(p)
  BY <1>1, <1>2, UpWorking DEF Working
<1>5. Touched(p, c)
  BY <1>1, <1>2 DEF Touched
<1>6. Linked(p, c)'
  <2>1. Rel(pc'[p], frame'[p], kids'[p], c) = "spawning"
    BY <1>0, <1>1, RelAt
  <2>2. Born(pc'[c], down'[c], up'[c])
    BY <1>1 DEF Born, Pipe
  <2> QED
    BY <2>1, <2>2 DEF Linked, Link
<1>7. ASSUME NEW x \in Services \ {p, c} PROVE Untouched(p, x)
  <2>1. /\ Rel(pc'[p], frame'[p], kids'[p], x) = Waits(frame[p], x)
        /\ Rel(pc[p], frame[p], kids[p], x) = Waits(frame[p], x)
    BY <1>0, <1>1, <1>2, RelAt
  <2>2. Par(p, x)' => Par(p, x)
    BY <1>0, <1>1 DEF Par, ParOf
  <2> QED
    BY <2>1, <2>2 DEF Untouched, Waits
<1> QED
  BY <1>1, <1>3, <1>4, <1>5, <1>6, <1>7, WithOne

(* The new child says so.                                                  *)
LEMMA LinksStarted ==
  ASSUME IInv, Alive, Tidy', NEW p \in Services, Started(p)
  PROVE  Links'
<1> DEFINE r == [status |-> 1, n |-> 0]
<1>1. /\ pc'[p] = "idle" /\ frame'[p] = frame[p] /\ kids'[p] = kids[p]
      /\ Pipe(p, down[p], Append(up[p], r)) /\ Others({p}) /\ pc[p] = "start"
  BY StartedDoes DEF At, Started
<1>2. p \in Running
  BY <1>1, RunningIs
<1>3. r \in Answers /\ up[p] \in Seq(Answers)
  BY DEF Answers, IInv, Typed, TypeOK
<1>4. UpKept(p)
  <2> HIDE DEF r
  <2> QED
    BY <1>1, <1>3, RelKind, LinkStarted DEF UpKept, Linked, Pipe
<1>5. ASSUME NEW x \in Services PROVE Untouched(p, x)
  <2>1. /\ Rel(pc'[p], frame'[p], kids'[p], x) = "rest"
        /\ Rel(pc[p], frame[p], kids[p], x) = "rest"
    BY <1>1, RelAt
  <2> QED
    BY <1>1, <2>1 DEF Untouched, Par, ParOf
<1> QED
  BY <1>1, <1>2, <1>4, <1>5, Alone

(* Its parent takes the byte and lists the child.                          *)
LEMMA LinksHandshake ==
  ASSUME IInv, Tidy', NEW p \in Services, Handshake(p)
  PROVE  Links'
<1>0. PICK c : c = frame[p].b
  OBVIOUS
<1>1. pc[p] = "spawning" /\ up[c] # <<>>
  BY <1>0 DEF Handshake
<1>2. /\ c \in Services \ {Manager, p} /\ Par(p, c) /\ Linked(p, c) /\ p \in Running /\ Alive
      /\ frame[p].wait = <<>> /\ frame[p].op = "spawn"
  BY <1>0, <1>1, MadeChild
<1>3. /\ At(p, "loop", [frame[p] EXCEPT !.hit = TRUE], Append(kids[p], c))
      /\ Pipe(p, down[p], up[p])
      /\ At(c, pc[c], frame[c], kids[c]) /\ Pipe(c, down[c], Tail(up[c])) /\ Others({p, c})
  BY <1>0, <1>2, HandshakeDoes
<1>4. frame[p] \in Frames
  BY <1>1, BusyFacts DEF Busy, Working
<1>5. /\ pc'[p] = "loop" /\ frame'[p].wait = <<>> /\ frame'[p].op = frame[p].op
      /\ Elems(kids'[p]) = Elems(kids[p]) \cup {c}
  <2>1. kids[p] \in Seq(Services)
    BY DEF IInv, Typed, TypeOK
  <2>2. Elems(Append(kids[p], c)) = Elems(kids[p]) \cup {c}
    BY <1>2, <2>1, Longer
  <2> QED
    BY <1>2, <1>3, <1>4, <2>2 DEF At, Frames
<1>6. UpKept(p)
  BY <1>1, <1>3, <1>5, UpWorking DEF Working
<1>7. Touched(p, c)
  BY <1>2, <1>3 DEF Touched, At
<1>8. \A x : Rel(pc'[p], frame'[p], kids'[p], x) = "rest"
  BY <1>5, RelAt, EmptyElems DEF Waits
<1>9. Linked(p, c)'
  <2>1. Born(pc[c], down[c], up[c])
    <3>1. Rel(pc[p], frame[p], kids[p], c) = "spawning"
      BY <1>0, <1>1, RelAt
    <3> QED
      BY <1>2, <3>1 DEF Linked, Link
  <2>2. pc[c] = "idle" /\ down[c] = <<>> /\ Len(up[c]) = 1
    BY <1>1, <2>1 DEF Born
  <2>3. Tail(up[c]) = <<>>
    <3>1. up[c] \in Seq(Answers)
      BY <1>2 DEF IInv, Typed, TypeOK, Answers
    <3> QED
      BY <1>1, <2>2, <3>1, OneTail
  <2>4. AtRest(pc'[c], down'[c], up'[c])
    BY <1>3, <2>2, <2>3 DEF At, Pipe, AtRest
  <2> QED
    BY <1>8, <2>4 DEF Linked, Link
<1>10. ASSUME NEW x \in Services \ {p, c} PROVE Untouched(p, x)
  <2>1. Rel(pc[p], frame[p], kids[p], x) = "rest"
    BY <1>0, <1>1, <1>2, RelAt, EmptyElems DEF Waits
  <2>2. Par(p, x)' => Par(p, x)
    BY <1>5 DEF Par, ParOf
  <2> QED
    BY <1>8, <2>1, <2>2 DEF Untouched
<1> QED
  BY <1>2, <1>3, <1>6, <1>7, <1>9, <1>10, WithOne

(* The child a process is at has answered all it was asked before.         *)
LEMMA NotAwaited ==
  ASSUME NEW p, NEW l, NEW f, NEW list, NEW S, list \in Seq(S), FrameOK(p, l, f, list),
         Unique(list), f.k <= Len(list)
  PROVE  list[f.k] \notin Elems(f.wait)
<1> SUFFICES ASSUME NEW i \in 1..Len(f.wait), f.wait[i] = list[f.k] PROVE FALSE
  BY DEF Elems
<1>1. f.k \in Nat \ {0}
  BY DEF FrameOK, Frames
<1>2. PICK j \in 1..Len(list) : j < f.k /\ f.wait[i] = list[j]
  BY DEF FrameOK, Awaits
<1>3. f.k \in 1..Len(list)
  BY <1>1
<1>4. j = f.k
  BY <1>2, <1>3 DEF Unique
<1> QED
  BY <1>1, <1>2, <1>4

(* A message to a child.                                                   *)
LEMMA LinksCallChild ==
  ASSUME IInv, Tidy', NEW p \in Services, CallChild(p)
  PROVE  Links'
<1>0. PICK c : c = Child(p)
  OBVIOUS
<1>1. pc[p] = "loop" /\ MoreKids(p) /\ pc[p] \in Busy
  BY DEF CallChild, Busy, Working
<1>2. /\ c \in Services \ {Manager, p} /\ Par(p, c) /\ Linked(p, c) /\ c = kids[p][frame[p].k]
  BY <1>0, <1>1, ChildFacts DEF MoreKids, Child
<1>3. Alive /\ p \in Running /\ FrameOK(p, "loop", frame[p], kids[p])
  BY <1>1, BusyFacts
<1>4. /\ At(p, "wait", frame[p], kids[p]) /\ Pipe(p, down[p], up[p])
      /\ At(c, pc[c], frame[c], kids[c])
      /\ Pipe(c, Append(down[c], Order(frame[p])), up[c]) /\ Others({p, c})
  BY <1>0, <1>2, CallChildDoes
<1>5. UpKept(p)
  BY <1>1, <1>4, UpWorking DEF Working, At
<1>6. Touched(p, c)
  BY <1>2, <1>4 DEF Touched, At
<1>7. Linked(p, c)'
  <2>1. c \notin Elems(frame[p].wait)
    <3>1. kids[p] \in Seq(Services \ {Manager}) /\ Unique(kids[p])
      BY <1>3 DEF IInv, Typed, TypeOK, Alive, Family
    <3> QED
      BY <1>1, <1>2, <1>3, <3>1, NotAwaited DEF MoreKids
  <2>2. AtRest(pc[c], down[c], up[c])
    <3>1. Rel(pc[p], frame[p], kids[p], c) = "rest"
      BY <1>1, <2>1, RelAt DEF Waits
    <3> QED
      BY <1>2, <3>1 DEF Linked, Link
  <2>3. Append(down[c], Order(frame[p])) = <<Order(frame[p])>>
    BY <2>2 DEF AtRest
  <2>4. Asked(frame[p], pc'[c], frame'[c].op, down'[c], up'[c])
    BY <1>4, <2>2, <2>3 DEF At, Pipe, AtRest, Asked
  <2>5. Rel(pc'[p], frame'[p], kids'[p], c) = "wait" /\ frame'[p] = frame[p]
    BY SMTT(30), <1>2, <1>4, RelAt DEF At
  <2> QED
    BY <2>4, <2>5 DEF Linked, Link
<1>8. ASSUME NEW x \in Services \ {p, c} PROVE Untouched(p, x)
  BY SMTT(30), <1>1, <1>2, <1>4, RelAt, Unchanging DEF At
<1> QED
  BY <1>3, <1>4, <1>5, <1>6, <1>7, <1>8, WithOne

(* The answer of a child is taken.                                         *)
LEMMA LinksAnswer ==
  ASSUME IInv, Tidy', NEW p \in Services, Answer(p)
  PROVE  Links'
<1>0. PICK c : c = Child(p)
  OBVIOUS
<1>a. PICK r : r = Head(up[c])
  OBVIOUS
<1>1. pc[p] = "wait" /\ pc[p] \in Busy /\ c \in Services \ {Manager, p} /\ up[c] # <<>>
  BY <1>0, AnswerOK DEF Busy, Working
<1>2. Alive /\ p \in Running /\ FrameOK(p, "wait", frame[p], kids[p]) /\ frame[p] \in Frames
  BY <1>1, BusyFacts
<1>3. frame[p].k <= Len(kids[p]) /\ frame[p].wait \in Seq(Services) /\ frame[p].op \in Ops
      /\ (frame[p].op # "exchange" => frame[p].wait = <<>>)
  BY <1>2 DEF FrameOK, Stands, Frames, Counted
<1>4. Par(p, c) /\ Linked(p, c) /\ c = kids[p][frame[p].k]
  BY <1>0, <1>1, <1>3, ChildFacts DEF Child
<1>5. /\ At(p, AnswerPlace(p, r), AfterAnswer(p, r), kids[p])
      /\ Pipe(p, down[p], up[p])
      /\ At(c, pc[c], frame[c], kids[c]) /\ Pipe(c, down[c], Tail(up[c])) /\ Others({p, c})
  BY <1>0, <1>a, <1>1, AnswerDoes
<1>6. /\ frame'[p].op = frame[p].op
      /\ frame[p].op # "exchange" \/ r.status = 0 => frame'[p].wait = frame[p].wait
      /\ frame[p].op = "exchange" /\ r.status # 0 =>
            Elems(frame'[p].wait) = Elems(frame[p].wait) \cup {c}
  <2> DEFINE g == AfterAnswer(p, r)
  <2>1. /\ g.op = frame[p].op
        /\ frame[p].op # "exchange" \/ r.status = 0 => g.wait = frame[p].wait
        /\ frame[p].op = "exchange" /\ r.status # 0 =>
              Elems(g.wait) = Elems(frame[p].wait) \cup {Child(p)}
    BY <1>0, <1>1, <1>2, <1>3, AnswerKeeps
  <2>2. frame'[p] = g
    BY <1>5 DEF At
  <2> HIDE DEF g
  <2> QED
    BY <1>0, <2>1, <2>2
<1>7. pc'[p] = AnswerPlace(p, r) /\ pc'[p] \in {"loop", "suicide"} /\ kids'[p] = kids[p]
  BY <1>5 DEF At, AnswerPlace
<1>8. UpKept(p)
  BY <1>1, <1>5, <1>6, <1>7, UpWorking DEF Working
<1>9. Touched(p, c)
  BY <1>4, <1>5 DEF Touched, At
<1>10. /\ c \notin Elems(frame[p].wait)
       /\ frame'[p].k = frame[p].k \/ pc'[p] = "loop"
  <2>1. kids[p] \in Seq(Services \ {Manager}) /\ Unique(kids[p])
    BY <1>2 DEF IInv, Typed, TypeOK, Alive, Family
  <2>2. c \notin Elems(frame[p].wait)
    BY <1>2, <1>3, <1>4, <2>1, NotAwaited
  <2>3. frame'[p].k = frame[p].k \/ pc'[p] = "loop"
    <3>1. CASE frame[p].op = "kill"
      BY <1>2, <1>5, <3>1 DEF At, AfterAnswer, AnswerPlace, Frames
    <3>2. CASE frame[p].op = "killall"
      BY <1>2, <1>5, <3>2 DEF At, AfterAnswer, AnswerPlace, Frames
    <3>3. CASE frame[p].op \notin {"kill", "killall"}
      BY <1>7, <3>3 DEF AnswerPlace
    <3> QED
      BY <3>1, <3>2, <3>3
  <2> QED
    BY <2>2, <2>3
<1>11. Linked(p, c)'
  <2>1. Asked(frame[p], pc[c], frame[c].op, down[c], up[c])
    <3>1. Rel(pc[p], frame[p], kids[p], c) = "wait"
      BY <1>1, <1>4, RelAt
    <3> QED
      BY <1>4, <3>1 DEF Linked, Link
  <2>2. /\ down[c] = <<>>
        /\ frame[p].op = "spawn" => AtRest(pc[c], down[c], Tail(up[c]))
        /\ frame[p].op = "kill" => IF r.status = 2 THEN pc[c] = "agree" /\ Tail(up[c]) = <<>>
                                                   ELSE AtRest(pc[c], down[c], Tail(up[c]))
        /\ frame[p].op = "killall" => pc[c] = "agree" /\ Tail(up[c]) = <<>>
        /\ frame[p].op = "exchange" => IF r.status = 0 THEN AtRest(pc[c], down[c], Tail(up[c]))
                                       ELSE Pending(pc[c], down[c], Tail(up[c]))
    <3>1. up[c] \in Seq(Answers)
      BY <1>1 DEF IInv, Typed, TypeOK, Answers
    <3> QED
      BY <1>a, <1>1, <2>1, <3>1, AnswerRead
  <2>3. CASE pc'[p] = "suicide"
    <3>1. Rel(pc'[p], frame'[p], kids'[p], c) = "suicide"
      BY <1>4, <1>7, <1>10, <2>3, RelAt
    <3>2. pc[c] = "agree" /\ Tail(up[c]) = <<>>
      BY <1>7, <2>2, <2>3 DEF AnswerPlace
    <3> QED
      BY <1>5, <2>2, <3>1, <3>2 DEF Linked, Link, At, Pipe
  <2>4. CASE pc'[p] = "loop" /\ frame[p].op = "exchange" /\ r.status # 0
    <3>1. Rel(pc'[p], frame'[p], kids'[p], c) = "pending"
      BY <1>6, <2>4, RelAt DEF Waits
    <3> QED
      BY <1>5, <2>2, <2>4, <3>1 DEF Linked, Link, At, Pipe
  <2>5. CASE pc'[p] = "loop" /\ ~(frame[p].op = "exchange" /\ r.status # 0)
    <3>1. Rel(pc'[p], frame'[p], kids'[p], c) = "rest"
      BY <1>6, <1>10, <2>5, RelAt DEF Waits
    <3>2. AtRest(pc[c], down[c], Tail(up[c]))
      BY <1>3, <1>7, <2>2, <2>5 DEF AnswerPlace, Ops
    <3> QED
      BY <1>5, <3>1, <3>2 DEF Linked, Link, At, Pipe
  <2> QED
    BY <1>7, <2>3, <2>4, <2>5
<1>12. ASSUME NEW x \in Services \ {p, c} PROVE Untouched(p, x)
  <2>1. Rel(pc[p], frame[p], kids[p], x) = Waits(frame[p], x)
    BY <1>1, <1>4, RelAt
  <2>2. Rel(pc'[p], frame'[p], kids'[p], x) = Waits(frame'[p], x)
    BY <1>4, <1>7, <1>10, RelAt
  <2>3. Waits(frame'[p], x) = Waits(frame[p], x)
    BY <1>6 DEF Waits
  <2> QED
    BY <1>1, <1>7, <2>1, <2>2, <2>3, Unchanging
<1> QED
  BY <1>2, <1>5, <1>8, <1>9, <1>11, <1>12, WithOne

(* The child may go.                                                       *)
LEMMA LinksLet ==
  ASSUME IInv, Tidy', NEW p \in Services, LetChildSuicide(p)
  PROVE  Links'
<1>0. PICK c : c = Child(p)
  OBVIOUS
<1>1. /\ pc[p] = "suicide" /\ pc[p] \in Busy /\ c \in Services \ {Manager, p}
      /\ frame[p].k \in 1..Len(kids[p])
  BY <1>0, CalledChild DEF LetChildSuicide
<1>2. Alive /\ p \in Running
  BY <1>1, BusyFacts
<1>3. Par(p, c) /\ Linked(p, c) /\ c = kids[p][frame[p].k]
  BY <1>0, <1>2, <1>1, ListPar DEF Child
<1>4. /\ At(p, "reap", frame[p], kids[p]) /\ Pipe(p, down[p], up[p])
      /\ At(c, pc[c], frame[c], kids[c])
      /\ Pipe(c, Append(down[c], Agreed), up[c]) /\ Others({p, c})
  BY <1>0, <1>1, LetChildSuicideDoes
<1>5. UpKept(p)
  BY <1>1, <1>4, UpWorking DEF Working, At
<1>6. Touched(p, c)
  BY <1>3, <1>4 DEF Touched, At
<1>7. Linked(p, c)'
  <2>1. pc[c] = "agree" /\ down[c] = <<>> /\ up[c] = <<>>
    <3>1. Rel(pc[p], frame[p], kids[p], c) = "suicide"
      BY <1>1, <1>3, RelAt
    <3> QED
      BY <1>3, <3>1 DEF Linked, Link
  <2>2. Append(down[c], Agreed) = <<Agreed>>
    BY <2>1
  <2>3. Going(pc'[c], down'[c], up'[c])
    BY <1>4, <2>1, <2>2 DEF At, Pipe, Going
  <2>4. Rel(pc'[p], frame'[p], kids'[p], c) = "reap"
    BY SMTT(30), <1>3, <1>4, RelAt DEF At
  <2> QED
    BY <2>3, <2>4 DEF Linked, Link
<1>8. ASSUME NEW x \in Services \ {p, c} PROVE Untouched(p, x)
  BY SMTT(30), <1>1, <1>3, <1>4, RelAt, Unchanging DEF At
<1> QED
  BY <1>2, <1>4, <1>5, <1>6, <1>7, <1>8, WithOne

(* The child is waited for.                                                *)
LEMMA LinksReap ==
  ASSUME IInv, Tidy', NEW p \in Services, Reap(p)
  PROVE  Links'
<1>0. PICK c : c = Child(p)
  OBVIOUS
<1>1. /\ pc[p] = "reap" /\ pc[p] \in Busy /\ c \in Services \ {Manager, p}
      /\ frame[p].k \in 1..Len(kids[p]) /\ pc[c] = "zombie"
  BY <1>0, CalledChild DEF Reap
<1>2. Alive /\ p \in Running
  BY <1>1, BusyFacts
<1>3. Par(p, c) /\ c = kids[p][frame[p].k]
  BY <1>0, <1>2, <1>1, ListPar DEF Child
<1>4. /\ At(p, "loop", frame[p], RemoveAt(kids[p], frame[p].k)) /\ Pipe(p, down[p], up[p])
      /\ At(c, "none", frame[c], kids[c]) /\ Others({p, c})
  BY <1>0, <1>1, ReapDoes
<1>5. UpKept(p)
  BY <1>1, <1>4, UpWorking DEF Working, At
<1>6. Touched(p, c)
  BY <1>3, <1>4 DEF Touched, At
<1>7. pc'[p] = "loop" /\ frame'[p] = frame[p] /\ Elems(kids'[p]) = Elems(kids[p]) \ {c}
  <2>1. kids[p] \in Seq(Services \ {Manager}) /\ Unique(kids[p])
    BY <1>2 DEF IInv, Typed, TypeOK, Alive, Family
  <2> QED
    BY SMTT(30), <1>1, <1>3, <1>4, <2>1, Shorter DEF At
<1>8. ~Par(p, c)'
  BY <1>7 DEF Par, ParOf
<1>9. ASSUME NEW x \in Services \ {p, c} PROVE Untouched(p, x)
  <2>1. /\ Rel(pc'[p], frame'[p], kids'[p], x) = Waits(frame[p], x)
        /\ Rel(pc[p], frame[p], kids[p], x) = Waits(frame[p], x)
    BY <1>1, <1>3, <1>7, RelAt
  <2>2. Par(p, x)' => Par(p, x)
    BY <1>7 DEF Par, ParOf
  <2> QED
    BY <2>1, <2>2 DEF Untouched, Waits
<1> QED
  BY <1>2, <1>4, <1>5, <1>6, <1>8, <1>9, WithOne

(* A process that goes back to its loop awaits nothing.                    *)
LEMMA BackToRest ==
  ASSUME IInv, Alive, Tidy', NEW p \in Running,
         pc[p] \in {"loop", "gather"}, frame[p].wait = <<>>,
         At(p, "idle", Idle, kids[p]), Others({p}), UpKept(p)
  PROVE  Links'
<1>1. ASSUME NEW x \in Services PROVE Untouched(p, x)
  <2>1. Rel(pc[p], frame[p], kids[p], x) = "rest"
    BY RelAt, EmptyElems DEF Waits, After
  <2>2. Rel(pc'[p], frame'[p], kids'[p], x) = "rest"
    BY RelAt DEF At
  <2> QED
    BY <2>1, <2>2 DEF Untouched, At, Par, ParOf
<1> QED
  BY <1>1, Alone

(* spawn and kill come to an end.                                          *)
LEMMA LinksReturn ==
  ASSUME IInv, Tidy', NEW p \in Services, ReturnEnds(p)
  PROVE  Links'
<1>1. PICK s \in {0, 1} :
           /\ pc[p] = "loop" /\ frame[p].op \in {"spawn", "kill"}
           /\ At(p, "idle", Idle, kids[p])
           /\ Pipe(p, down[p], Replied(p, s, IF s = 1 /\ frame[p].op = "kill"
                                             THEN frame[p].n ELSE 0))
           /\ Others({p})
  BY ReturnDoes
<1>2. PICK r : r = [status |-> s, n |-> IF s = 1 /\ frame[p].op = "kill" THEN frame[p].n ELSE 0]
  OBVIOUS
<1>3. Alive /\ p \in Running /\ FrameOK(p, "loop", frame[p], kids[p]) /\ frame[p] \in Frames
  BY <1>1, BusyFacts DEF Busy, Working
<1>4. frame[p].wait = <<>> /\ r \in Answers /\ r.status \in {0, 1}
  BY <1>1, <1>2, <1>3 DEF FrameOK, Counted, Frames, Answers
<1>5. UpKept(p)
  <2> SUFFICES ASSUME NEW q \in Running, Par(q, p), Linked(q, p)
               PROVE  Link(Rel(pc[q], frame[q], kids[q], p), frame[q], pc'[p], frame'[p].op,
                           down'[p], up'[p])
    BY DEF UpKept
  <2>1. p # Manager
    BY <1>3 DEF Alive, Family
  <2>2. pc'[p] = "idle" /\ down'[p] = down[p] /\ up'[p] = Append(up[p], r)
    BY <1>1, <1>2, <2>1 DEF At, Pipe, Replied
  <2>3. up[p] \in Seq(Answers) /\ pc[p] \in Working
    BY <1>1 DEF IInv, Typed, TypeOK, Answers, Working
  <2> QED
    BY <1>1, <1>4, <2>2, <2>3, RelKind, LinkReturn DEF Linked
<1> QED
  BY <1>1, <1>3, <1>4, <1>5, BackToRest

(* terminate comes to its end.                                             *)
LEMMA LinksTerminate ==
  ASSUME IInv, Tidy', NEW p \in Services, TerminateEnds(p), pc'[Manager] # "none"
  PROVE  Links'
<1>1. /\ pc[p] = "loop" /\ frame[p].op = "killall"
      /\ IF p = Manager THEN At(p, "none", Idle, kids[p]) ELSE At(p, "agree", frame[p], kids[p])
      /\ Pipe(p, down[p], Replied(p, 2, frame[p].n)) /\ Others({p})
  BY TerminateDoes
<1>2. p # Manager
  BY <1>1 DEF At
<1>3. PICK r : r = [status |-> 2, n |-> frame[p].n]
  OBVIOUS
<1>4. Alive /\ p \in Running /\ frame[p] \in Frames
  BY <1>1, BusyFacts DEF Busy, Working
<1>5. r \in Answers /\ r.status = 2
  BY <1>3, <1>4 DEF Frames, Answers
<1>6. UpKept(p)
  <2> SUFFICES ASSUME NEW q \in Running, Par(q, p), Linked(q, p)
               PROVE  Link(Rel(pc[q], frame[q], kids[q], p), frame[q], pc'[p], frame'[p].op,
                           down'[p], up'[p])
    BY DEF UpKept
  <2>1. pc'[p] = "agree" /\ down'[p] = down[p] /\ up'[p] = Append(up[p], r)
    BY <1>1, <1>2, <1>3 DEF At, Pipe, Replied
  <2>2. up[p] \in Seq(Answers) /\ pc[p] \in Working
    BY <1>1 DEF IInv, Typed, TypeOK, Answers, Working
  <2> QED
    BY <1>1, <1>5, <2>1, <2>2, RelKind, LinkTerminate DEF Linked
<1>7. ASSUME NEW x \in Services PROVE Untouched(p, x)
  BY <1>1, <1>2, RelAt, Unchanging DEF At
<1> QED
  BY <1>1, <1>4, <1>6, <1>7, Alone

(* A process ends.                                                         *)
LEMMA LinksSuicide ==
  ASSUME IInv, Tidy', NEW p \in Services, Suicide(p)
  PROVE  Links'
<1>1. /\ pc[p] = "agree" /\ down[p] # <<>>
      /\ At(p, "zombie", Idle, kids[p]) /\ Pipe(p, Tail(down[p]), up[p]) /\ Others({p})
  BY SuicideDoes
<1>2. Alive /\ p \in Running
  BY <1>1, BusyFacts DEF Busy
<1>3. p \notin Running'
  BY <1>1, RunningIs DEF At
<1>4. UpKept(p)
  <2> SUFFICES ASSUME NEW q \in Running, Par(q, p), Linked(q, p)
               PROVE  Link(Rel(pc[q], frame[q], kids[q], p), frame[q], pc'[p], frame'[p].op,
                           down'[p], up'[p])
    BY DEF UpKept
  <2> DEFINE rel == Rel(pc[q], frame[q], kids[q], p)
  <2>1. rel \in Rels /\ Link(rel, frame[q], "agree", frame[p].op, down[p], up[p])
    BY <1>1, RelKind DEF Linked
  <2>2. pc'[p] = "zombie" /\ down'[p] = Tail(down[p]) /\ up'[p] = up[p]
    BY <1>1 DEF At, Pipe
  <2> HIDE DEF rel
  <2>3. Tail(down[p]) = <<>> /\ \A x : Link(rel, frame[q], "zombie", x, <<>>, up[p])
    BY <1>1, <2>1, LinkSuicide
  <2> QED
    BY <2>2, <2>3 DEF rel
<1> QED
  BY <1>1, <1>2, <1>3, <1>4, Alone

(* The names found are reported.                                           *)
LEMMA LinksCount ==
  ASSUME IInv, Tidy', NEW p \in Services, ExchangeEnds(p)
  PROVE  Links'
<1>1. /\ pc[p] = "loop" /\ frame[p].op = "exchange"
      /\ IF frame[p].n = 0 THEN At(p, "idle", Idle, kids[p])
                           ELSE At(p, CountPlace(p), frame[p], kids[p])
      /\ Pipe(p, down[p], Replied(p, frame[p].n, 0)) /\ Others({p})
  BY CountDoes
<1>2. PICK r : r = [status |-> frame[p].n, n |-> 0]
  OBVIOUS
<1>3. Alive /\ p \in Running /\ FrameOK(p, "loop", frame[p], kids[p]) /\ frame[p] \in Frames
  BY <1>1, BusyFacts DEF Busy, Working
<1>4. /\ frame[p].n \in 0..255 /\ frame[p].n <= 2
      /\ frame[p].wait # <<>> => frame[p].n >= 1
  BY <1>1, <1>3 DEF FrameOK, Counted, Frames
<1>5. /\ r \in Answers /\ r.status = frame[p].n
      /\ frame[p].n = 0 => frame[p].wait = <<>>
      /\ frame[p].n # 0 => r.status \in {1, 2}
  <2>0. \A n \in 0..255 : n <= 2 => n \in 0..2 /\ (n # 0 => n \in {1, 2})
    OBVIOUS
  <2>1. frame[p].n \in 0..2 /\ (frame[p].n # 0 => frame[p].n \in {1, 2})
    BY <1>4, <2>0
  <2>2. r.status = frame[p].n /\ r \in Answers
    BY <1>2, <2>1 DEF Answers
  <2> QED
    BY <1>4, <2>1, <2>2
<1>6. UpKept(p)
  <2> SUFFICES ASSUME NEW q \in Running, Par(q, p), Linked(q, p)
               PROVE  Link(Rel(pc[q], frame[q], kids[q], p), frame[q], pc'[p], frame'[p].op,
                           down'[p], up'[p])
    BY DEF UpKept
  <2>1. p # Manager
    BY <1>3 DEF Alive, Family
  <2>2. down'[p] = down[p] /\ up'[p] = Append(up[p], r)
    BY <1>1, <1>2, <2>1 DEF Pipe, Replied
  <2>3. up[p] \in Seq(Answers) /\ pc[p] \in Working
    BY <1>1 DEF IInv, Typed, TypeOK, Answers, Working
  <2>4. \/ r.status = 0 /\ pc'[p] = "idle"
        \/ r.status \in {1, 2} /\ pc'[p] \in After
    BY <1>1, <1>5 DEF At, CountPlace, After
  <2> QED
    BY <1>1, <1>5, <2>2, <2>3, <2>4, RelKind, LinkCount DEF Linked
<1>7. CASE frame[p].n = 0
  BY <1>1, <1>3, <1>5, <1>6, <1>7, BackToRest
<1>8. CASE frame[p].n # 0
  <2>1. pc'[p] \in After /\ frame'[p] = frame[p] /\ kids'[p] = kids[p]
    BY <1>1, <1>8 DEF At, CountPlace, After
  <2>2. ASSUME NEW x \in Services PROVE Untouched(p, x)
    BY <1>1, <2>1, RelAt, Unchanging DEF After
  <2> QED
    BY <1>1, <1>3, <1>6, <2>2, Alone
<1> QED
  BY <1>7, <1>8

(* The two exchange secrets.                                               *)
LEMMA LinksTalk ==
  ASSUME IInv, Tidy', NEW p \in Services, Talks(p)
  PROVE  Links'
<1>1. PICK x \in After \ {"mkfifo"},
           g \in {frame[p], [frame[p] EXCEPT !.got = Head(fifo[<<Peer(p), p>>])]} :
         /\ pc[p] \in After \ {"gather"} /\ At(p, x, g, kids[p])
         /\ Pipe(p, down[p], up[p]) /\ Others({p})
  BY TalkDoes
<1>2. Alive /\ p \in Running /\ frame[p] \in Frames
  BY <1>1, BusyFacts DEF Busy
<1>3. g.op = frame[p].op /\ g.wait = frame[p].wait
  BY <1>2 DEF Frames
<1>4. UpKept(p)
  BY <1>1, <1>3, UpAfter DEF At
<1>5. ASSUME NEW c \in Services PROVE Untouched(p, c)
  <2>1. /\ Rel(pc[p], frame[p], kids[p], c) = Waits(frame[p], c)
        /\ Rel(pc'[p], frame'[p], kids'[p], c) = Waits(g, c)
    BY <1>1, RelAt DEF At
  <2>2. Waits(g, c) = Waits(frame[p], c)
    BY <1>3 DEF Waits
  <2> QED
    BY <1>1, <2>1, <2>2, Unchanging DEF At, After
<1> QED
  BY <1>1, <1>2, <1>4, <1>5, Alone

(* A second answer is taken.                                               *)
LEMMA LinksGather ==
  ASSUME IInv, Tidy', NEW p \in Services, GatherOne(p)
  PROVE  Links'
<1>0. PICK c : c = Head(frame[p].wait)
  OBVIOUS
<1>1. /\ pc[p] = "gather" /\ p \in Running /\ Alive
      /\ frame[p].wait \in Seq(Services) /\ Unique(frame[p].wait) /\ frame[p].wait # <<>>
      /\ c = frame[p].wait[1] /\ c \in Elems(frame[p].wait)
      /\ c \in Services \ {Manager, p} /\ Par(p, c) /\ Linked(p, c) /\ up[c] # <<>>
  BY <1>0, GatheredChild DEF GatherOne
<1>2. /\ At(p, "gather", [frame[p] EXCEPT !.wait = Tail(@)], kids[p])
      /\ Pipe(p, down[p], up[p])
      /\ At(c, pc[c], frame[c], kids[c]) /\ Pipe(c, down[c], Tail(up[c])) /\ Others({p, c})
  BY <1>0, <1>1, GatherOneDoes
<1>3. frame[p] \in Frames
  BY <1>1, BusyFacts DEF Busy, After
<1>4. /\ pc'[p] = "gather" /\ kids'[p] = kids[p] /\ frame'[p].op = frame[p].op
      /\ Elems(frame'[p].wait) = Elems(frame[p].wait) \ {c}
  <2>1. Elems(Tail(frame[p].wait)) = Elems(frame[p].wait) \ {c}
    BY <1>1, TailFacts
  <2>2. /\ [frame[p] EXCEPT !.wait = Tail(@)].wait = Tail(frame[p].wait)
        /\ [frame[p] EXCEPT !.wait = Tail(@)].op = frame[p].op
    BY <1>3 DEF Frames
  <2> QED
    BY <1>2, <2>1, <2>2 DEF At
<1>5. UpKept(p)
  BY <1>1, <1>2, <1>4, UpAfter DEF After
<1>6. Touched(p, c)
  BY <1>1, <1>2 DEF Touched, At
<1>7. Linked(p, c)'
  <2>1. Pending(pc[c], down[c], up[c])
    <3>1. Rel(pc[p], frame[p], kids[p], c) = "pending"
      BY <1>1, RelAt DEF Waits, After
    <3> QED
      BY <1>1, <3>1 DEF Linked, Link
  <2>2. pc[c] = "idle" /\ down[c] = <<>> /\ Len(up[c]) = 1
    BY <1>1, <2>1 DEF Pending
  <2>3. Tail(up[c]) = <<>>
    <3>1. up[c] \in Seq(Answers)
      BY <1>1 DEF IInv, Typed, TypeOK, Answers
    <3> QED
      BY <2>2, <3>1, OneTail
  <2>4. Rel(pc'[p], frame'[p], kids'[p], c) = "rest"
    BY <1>4, RelAt DEF Waits, After
  <2>5. AtRest(pc'[c], down'[c], up'[c])
    BY <1>2, <2>2, <2>3 DEF At, Pipe, AtRest
  <2> QED
    BY <2>4, <2>5 DEF Linked, Link
<1>8. ASSUME NEW x \in Services \ {p, c} PROVE Untouched(p, x)
  <2>1. /\ Rel(pc[p], frame[p], kids[p], x) = Waits(frame[p], x)
        /\ Rel(pc'[p], frame'[p], kids'[p], x) = Waits(frame'[p], x)
    BY <1>1, <1>4, RelAt DEF After
  <2>2. Waits(frame'[p], x) = Waits(frame[p], x)
    BY <1>4 DEF Waits
  <2> QED
    BY <1>1, <1>4, <2>1, <2>2, Unchanging
<1> QED
  BY <1>1, <1>2, <1>5, <1>6, <1>7, <1>8, WithOne

(* There is none left.                                                     *)
LEMMA LinksGathered ==
  ASSUME IInv, Tidy', NEW p \in Services, GatherEnds(p)
  PROVE  Links'
<1>1. /\ pc[p] = "gather" /\ At(p, "idle", Idle, kids[p])
      /\ Pipe(p, down[p], Replied(p, 0, 0)) /\ Others({p})
  BY GatherEndsDoes
<1>2. PICK r : r = [status |-> 0, n |-> 0]
  OBVIOUS
<1>3. Alive /\ p \in Running
  BY <1>1, BusyFacts DEF Busy, After
<1>4. r \in Answers
  BY <1>2 DEF Answers
<1>5. UpKept(p)
  <2> SUFFICES ASSUME NEW q \in Running, Par(q, p), Linked(q, p)
               PROVE  Link(Rel(pc[q], frame[q], kids[q], p), frame[q], pc'[p], frame'[p].op,
                           down'[p], up'[p])
    BY DEF UpKept
  <2>1. p # Manager
    BY <1>3 DEF Alive, Family
  <2>2. pc'[p] = "idle" /\ down'[p] = down[p] /\ up'[p] = Append(up[p], r)
    BY <1>1, <1>2, <2>1 DEF At, Pipe, Replied
  <2>3. up[p] \in Seq(Answers) /\ pc[p] \in After
    BY <1>1 DEF IInv, Typed, TypeOK, Answers, After
  <2> QED
    BY <1>1, <1>4, <2>2, <2>3, RelKind, LinkDone DEF Linked
<1>6. frame[p].wait = <<>>
  BY DEF GatherEnds
<1> QED
  BY <1>1, <1>3, <1>5, <1>6, BackToRest

(* No service loses its parent while the Manager lives.                    *)
LEMMA NoOrphans ==
  ASSUME IInv, Alive, NEW p \in Services
  PROVE  ~Orphaned(p)
<1> SUFFICES ASSUME Orphaned(p) PROVE FALSE
  OBVIOUS
<1>1. p # Manager /\ pc[p] # "none" /\ ~HasParent(p)
  BY DEF Orphaned
<1>2. PICK q \in Running : Par(q, p)
  BY <1>1 DEF Alive, Attached
<1>3. HasParent(p)
  BY <1>2 DEF HasParent, Par, ParOf, Elems, Contains
<1> QED
  BY <1>1, <1>3

(* Every step but the first and the last of a Manager keeps the links.     *)
LEMMA LinksStep ==
  ASSUME IInv, Alive, pc[Manager] # "none", [Next]_vars, pc'[Manager] # "none", Tidy'
  PROVE  Links'
<1>1. ASSUME NEW p \in Services, Step(p) PROVE Links'
  BY <1>1, StepKinds, NoOrphans, LinksReceive, LinksFork, LinksStarted, LinksHandshake,
     LinksCallChild, LinksAnswer, LinksLet, LinksReap, LinksReturn, LinksTerminate,
     LinksSuicide, LinksCount, LinksTalk, LinksGather, LinksGathered
<1>2. ~StartManager /\ ~EndOfInput
  BY Arrays DEF StartManager, EndOfInput, Goto
<1>3. ASSUME vars' = vars PROVE Links'
  <2>1. pc' = pc /\ frame' = frame /\ kids' = kids /\ down' = down /\ up' = up
    BY <1>3 DEF vars
  <2> QED
    BY <2>1 DEF Alive, Links, Linked, Par, Running
<1> QED
  BY <1>1, <1>2, <1>3, LinksReadLine DEF Next

-----------------------------------------------------------------------------
(* One command at a time.                                                  *)
SameJob(p) ==
    pc'[p] \in Busy =>
      /\ pc[p] \in Busy
      /\ frame'[p].op = frame[p].op /\ frame'[p].a = frame[p].a /\ frame'[p].b = frame[p].b

(* Of the other processes none takes up anything.                          *)
NoneBegins(p) ==
    \A r \in Services \ {p} : pc'[r] \in Busy => pc[r] \in Busy /\ frame'[r] = frame[r]

(* What the step of a process does to where the others stand.              *)
LEMMA OnlyOne ==
  ASSUME IInv, Alive, NEW p \in Services, Step(p)
  PROVE  NoneBegins(p)
<1>0. "start" \notin Busy /\ "none" \notin Busy
  BY DEF Busy, Working, After
<1>1. CASE Others({p})
  BY <1>1 DEF NoneBegins, Others, Same
<1>2. ASSUME NEW c, Others({p, c}),
             c \in Services => frame'[c] = frame[c] /\ pc'[c] \in {pc[c], "start", "none"}
      PROVE  NoneBegins(p)
  <2>1. ASSUME NEW r \in Services \ {p}, pc'[r] \in Busy
        PROVE  pc[r] \in Busy /\ frame'[r] = frame[r]
    <3>1. CASE r = c
      BY <1>0, <1>2, <2>1, <3>1
    <3>2. CASE r # c
      BY <1>2, <2>1, <3>2 DEF Others, Same
    <3> QED
      BY <3>1, <3>2
  <2> QED
    BY <2>1 DEF NoneBegins
<1>3. CASE Fork(p)
  <2>1. PICK c : c = frame[p].b
    OBVIOUS
  <2>2. Others({p, c}) /\ frame'[c] = frame[c] /\ pc'[c] = "start"
    BY <1>3, <2>1, ForkDoes DEF At
  <2> QED
    BY <1>2, <2>2
<1>4. CASE Handshake(p)
  <2>1. PICK c : c = frame[p].b
    OBVIOUS
  <2>2. c \in Services \ {p}
    BY <1>4, <2>1, MadeChild DEF Handshake
  <2>3. Others({p, c}) /\ frame'[c] = frame[c] /\ pc'[c] = pc[c]
    BY <1>4, <2>1, <2>2, HandshakeDoes DEF At
  <2> QED
    BY <1>2, <2>3
<1>5. CASE CallChild(p) \/ LetChildSuicide(p) \/ Reap(p)
  <2>1. PICK c : c = Child(p)
    OBVIOUS
  <2>2. c \in Services \ {p}
    BY <1>5, <2>1, CalledChild
  <2>3. Others({p, c}) /\ frame'[c] = frame[c] /\ pc'[c] \in {pc[c], "none"}
    BY <1>5, <2>1, <2>2, CallChildDoes, LetChildSuicideDoes, ReapDoes DEF At
  <2> QED
    BY <1>2, <2>3
<1>6. CASE Answer(p)
  <2>1. PICK c : c = Child(p)
    OBVIOUS
  <2>2. c \in Services \ {p}
    BY <1>6, <2>1, AnswerOK
  <2>3. Others({p, c}) /\ frame'[c] = frame[c] /\ pc'[c] = pc[c]
    BY <1>6, <2>1, <2>2, AnswerDoes DEF At
  <2> QED
    BY <1>2, <2>3
<1>7. CASE GatherOne(p)
  <2>1. PICK c : c = Head(frame[p].wait)
    OBVIOUS
  <2>2. c \in Services \ {p}
    BY <1>7, <2>1, GatheredChild
  <2>3. Others({p, c}) /\ frame'[c] = frame[c] /\ pc'[c] = pc[c]
    BY <1>7, <2>1, <2>2, GatherOneDoes DEF At
  <2> QED
    BY <1>2, <2>3
<1> QED
  BY <1>1, <1>3, <1>4, <1>5, <1>6, <1>7, StepKinds, NoOrphans, ReceiveDoes, StartedDoes,
     ReturnDoes, TerminateDoes, SuicideDoes, CountDoes, TalkDoes, GatherEndsDoes

(* Who does not take up a command goes on with the one it has.             *)
LEMMA KeepsJob ==
  ASSUME IInv, Alive, NEW p \in Services, Step(p)
  PROVE  Receive(p) \/ SameJob(p)
<1>0. \A l : l \in {"idle", "zombie", "none"} => l \notin Busy
  BY DEF Busy, Working, After
<1>1. ASSUME pc[p] \in Busy, frame'[p] = frame[p] PROVE SameJob(p)
  BY <1>1 DEF SameJob
<1>2. ASSUME pc'[p] \in {"idle", "zombie", "none"} PROVE SameJob(p)
  BY <1>0, <1>2 DEF SameJob
<1>3. CASE Fork(p)
  BY <1>1, <1>3, ForkDoes DEF At, Fork, Busy, Working
<1>4. CASE Handshake(p)
  <2>1. pc[p] \in Busy /\ frame[p].b \in Services \ {p}
    BY <1>4, MadeChild DEF Handshake, Busy, Working
  <2>2. frame[p] \in Frames
    BY <2>1, BusyFacts
  <2>3. frame'[p] = [frame[p] EXCEPT !.hit = TRUE]
    BY <1>4, <2>1, HandshakeDoes DEF At
  <2> QED
    BY <2>1, <2>2, <2>3 DEF SameJob, Frames
<1>5. CASE CallChild(p) \/ LetChildSuicide(p) \/ Reap(p)
  <2>1. pc[p] \in Busy /\ Child(p) \in Services \ {p}
    BY <1>5, CalledChild
  <2>2. frame'[p] = frame[p]
    BY <1>5, <2>1, CallChildDoes, LetChildSuicideDoes, ReapDoes DEF At
  <2> QED
    BY <1>1, <2>1, <2>2
<1>6. CASE Answer(p)
  <2>0. PICK r : r = Head(up[Child(p)])
    OBVIOUS
  <2>1. pc[p] = "wait" /\ pc[p] \in Busy /\ Child(p) \in Services \ {p}
    BY <1>6, AnswerOK DEF Busy, Working
  <2>2. frame[p] \in Frames /\ frame[p].wait \in Seq(Services)
    BY <2>1, BusyFacts DEF Frames
  <2> DEFINE g == AfterAnswer(p, r)
  <2>3. g.op = frame[p].op /\ g.a = frame[p].a /\ g.b = frame[p].b
    BY <2>1, <2>2, AnswerKeeps
  <2>4. frame'[p] = g
    BY <1>6, <2>0, <2>1, AnswerDoes DEF At
  <2> HIDE DEF g
  <2> QED
    BY <2>1, <2>3, <2>4 DEF SameJob
<1>7. CASE TerminateEnds(p)
  <2>1. pc[p] \in Busy
    BY <1>7 DEF TerminateEnds, Ended, Busy, Working
  <2> QED
    BY <1>1, <1>2, <1>7, <2>1, TerminateDoes DEF At
<1>8. CASE ExchangeEnds(p)
  <2>1. pc[p] \in Busy
    BY <1>8 DEF ExchangeEnds, Ended, Busy, Working
  <2> QED
    BY <1>1, <1>2, <1>8, <2>1, CountDoes DEF At
<1>9. CASE Talks(p)
  <2>1. PICK x \in After \ {"mkfifo"},
             g \in {frame[p], [frame[p] EXCEPT !.got = Head(fifo[<<Peer(p), p>>])]} :
           pc[p] \in After /\ At(p, x, g, kids[p])
    BY <1>9, TalkDoes
  <2>2. pc[p] \in Busy /\ frame[p] \in Frames
    BY <2>1, BusyFacts DEF Busy
  <2>3. g.op = frame[p].op /\ g.a = frame[p].a /\ g.b = frame[p].b
    BY <2>2 DEF Frames
  <2> QED
    BY <2>1, <2>2, <2>3 DEF SameJob, At
<1>10. CASE GatherOne(p)
  <2>1. pc[p] \in Busy /\ Head(frame[p].wait) \in Services \ {p}
    BY <1>10, GatheredChild
  <2>2. frame[p] \in Frames
    BY <2>1, BusyFacts
  <2>3. frame'[p] = [frame[p] EXCEPT !.wait = Tail(@)]
    BY <1>10, <2>1, GatherOneDoes DEF At
  <2> QED
    BY <2>1, <2>2, <2>3 DEF SameJob, Frames
<1>11. CASE Started(p) \/ ReturnEnds(p) \/ Suicide(p) \/ GatherEnds(p)
  BY <1>2, <1>11, StartedDoes, ReturnDoes, SuicideDoes, GatherEndsDoes DEF At
<1> QED
  BY <1>3, <1>4, <1>5, <1>6, <1>7, <1>8, <1>9, <1>10, <1>11, StepKinds, NoOrphans

(* When the Manager has no answer to wait for, all others are at rest.     *)
LEMMA OthersRest ==
  ASSUME IInv, Alive,
         pc[Manager] = "idle" \/ (pc[Manager] \in {"loop", "gather"} /\ frame[Manager].wait = <<>>)
  PROVE  \A c \in Services \ {Manager} : pc[c] = "none" \/ AtRest(pc[c], down[c], up[c])
<1>1. Manager \in Running /\ Manager \in Services
  BY RunningIs
<1>2. ASSUME NEW c \in Services, Par(Manager, c) PROVE AtRest(pc[c], down[c], up[c])
  <2>1. Linked(Manager, c)
    BY <1>1, <1>2 DEF Alive, Links
  <2>2. Rel(pc[Manager], frame[Manager], kids[Manager], c) = "rest"
    BY RelAt, EmptyElems DEF Waits, After
  <2> QED
    BY <2>1, <2>2 DEF Linked, Link
<1> QED
  BY <1>2, AllStill

(* The Manager has carried out a command.                                  *)
Finishes ==
    /\ pc[Manager] \in {"loop", "gather"} /\ frame[Manager].wait = <<>>
    /\ pc'[Manager] = "idle" /\ fifo' = fifo /\ Others({Manager})

(* All go on with the command, or the Manager has finished.                *)
GoesOn ==
    /\ before' = before
    /\ pc'[Manager] \in Busy <=> pc[Manager] \in Busy

(* One or the other, as long as the Manager is there.                      *)
LEMMA GoesOnOrEnds ==
  ASSUME IInv, Alive, pc'[Manager] # "none", NEW p \in Services, Step(p)
  PROVE  GoesOn \/ (p = Manager /\ Finishes)
<1>0. \A l : l \in {"idle", "none", "start", "zombie"} => l \notin Busy
  BY DEF Busy, Working, After
<1>1. CASE p # Manager
  <2>1. before' = before
    BY <1>1 DEF Step, Receive, Fork, Started, Handshake, CallChild, SpawnAnswered,
       KillAnswered, TerminateAnswered, ExchangeAnswered, Answered, LetChildSuicide, Reap,
       SpawnEnds, KillEnds, TerminateEnds, Suicide, ExchangeEnds, MakeFifos, WriteFifo,
       ReadFifo, Gather, Orphaned, Return
  <2>2. pc'[Manager] \in Busy => pc[Manager] \in Busy
    BY <1>1, OnlyOne DEF NoneBegins
  <2>3. pc[Manager] \in Busy => pc'[Manager] \in Busy
    <3> SUFFICES ASSUME pc[Manager] \in Busy, pc'[Manager] \notin Busy PROVE FALSE
      OBVIOUS
    <3>0. pc[Manager] \in Busy /\ pc'[Manager] # pc[Manager]
      OBVIOUS
    <3>1. ~Others({p})
      BY <1>1 DEF Others, Same
    <3>2. ~Fork(p)
      <4>1. Fork(p) => pc[frame[p].b] = "none"
        BY DEF Fork
      <4>2. Fork(p) => Others({p, frame[p].b})
        BY ForkDoes
      <4> QED
        BY <1>0, <1>1, <3>1, <4>1, <4>2, <3>0 DEF Others, Same
    <3>3. ~(Handshake(p) \/ CallChild(p) \/ LetChildSuicide(p) \/ Reap(p) \/ Answer(p) \/ GatherOne(p))
      <4>1. ASSUME NEW c \in Services \ {Manager, p}, Others({p, c}) PROVE FALSE
        BY <1>1, <3>0, <4>1 DEF Others, Same
      <4>2. ~Handshake(p)
        BY <4>1, MadeChild, HandshakeDoes DEF Handshake
      <4>3. ~(CallChild(p) \/ LetChildSuicide(p) \/ Reap(p))
        BY <4>1, CalledChild, CallChildDoes, LetChildSuicideDoes, ReapDoes
      <4>4. ~Answer(p)
        BY <4>1, AnswerOK, AnswerDoes
      <4>5. ~GatherOne(p)
        BY <4>1, GatheredChild, GatherOneDoes
      <4> QED
        BY <4>2, <4>3, <4>4, <4>5
    <3> QED
      BY <3>1, <3>2, <3>3, StepKinds, NoOrphans, ReceiveDoes, StartedDoes,
         ReturnDoes, TerminateDoes, SuicideDoes, CountDoes, TalkDoes, GatherEndsDoes
  <2> QED
    BY <2>1, <2>2, <2>3 DEF GoesOn
<1>2. CASE p = Manager
  <2>1. CASE ReturnEnds(p)
    <3>1. pc[p] = "loop" /\ frame[p].op \in {"spawn", "kill"} /\ pc'[p] = "idle" /\ Others({p})
      BY <2>1, ReturnDoes DEF At
    <3>2. frame[p].wait = <<>>
      BY <3>1, BusyFacts DEF FrameOK, Counted, Busy, Working
    <3>3. fifo' = fifo
      BY <2>1 DEF ReturnEnds, SpawnEnds, KillEnds
    <3> QED
      BY <1>2, <3>1, <3>2, <3>3 DEF Finishes
  <2>2. CASE GatherEnds(p)
    <3>1. pc[p] = "gather" /\ pc'[p] = "idle" /\ Others({p})
      BY <2>2, GatherEndsDoes DEF At
    <3> QED
      BY <1>2, <2>2, <3>1 DEF Finishes, GatherEnds, Gather
  <2>3. CASE ExchangeEnds(p) /\ frame[p].n = 0
    <3>1. pc[p] = "loop" /\ frame[p].op = "exchange" /\ pc'[p] = "idle" /\ Others({p})
      BY <2>3, CountDoes DEF At
    <3>2. frame[p].wait = <<>>
      BY <2>3, <3>1, BusyFacts DEF FrameOK, Counted, Busy, Working
    <3> QED
      BY <1>2, <2>3, <3>1, <3>2 DEF Finishes, ExchangeEnds
  <2>4. CASE ~(ReturnEnds(p) \/ GatherEnds(p) \/ (ExchangeEnds(p) /\ frame[p].n = 0))
    <3>1. ~Receive(p) /\ ~Started(p) /\ ~Suicide(p) /\ ~TerminateEnds(p)
      <4>1. pc[p] \notin {"start", "agree"} /\ ~Receive(p)
        BY <1>2 DEF Alive, Receive
      <4>2. TerminateEnds(p) => pc'[p] = "none"
        BY <1>2, TerminateDoes DEF At
      <4> QED
        BY <1>2, <4>1, <4>2 DEF Started, Suicide
    <3>2. /\ Fork(p) \/ Handshake(p) \/ CallChild(p) \/ Answer(p) \/ LetChildSuicide(p)
             \/ Reap(p) \/ (ExchangeEnds(p) /\ frame[p].n # 0) \/ Talks(p) \/ GatherOne(p)
      BY <2>4, <3>1, StepKinds, NoOrphans
    <3>3. before' = before
      BY <3>2 DEF Fork, Handshake, CallChild, Answer, SpawnAnswered, KillAnswered,
         TerminateAnswered, ExchangeAnswered, Answered, LetChildSuicide, Reap, ExchangeEnds,
         Talks, MakeFifos, WriteFifo, ReadFifo, GatherOne, Gather
    <3>4. pc[p] \in Busy
      BY <3>2 DEF Fork, Handshake, CallChild, Answer, SpawnAnswered, KillAnswered,
         TerminateAnswered, ExchangeAnswered, Answered, LetChildSuicide, Reap, ExchangeEnds,
         Ended, Talks, MakeFifos, WriteFifo, ReadFifo, GatherOne, Gather, Busy, Working, After
    <3>5. pc'[p] \in Busy
      <4>1. CASE Fork(p)
        BY <4>1, ForkDoes DEF At, Busy, Working
      <4>2. CASE Handshake(p)
        BY <4>2, MadeChild, HandshakeDoes DEF At, Busy, Working, Handshake
      <4>3. CASE CallChild(p) \/ LetChildSuicide(p) \/ Reap(p)
        BY <4>3, CalledChild, CallChildDoes, LetChildSuicideDoes, ReapDoes DEF At, Busy, Working
      <4>4. CASE Answer(p)
        BY <4>4, AnswerOK, AnswerDoes DEF At, AnswerPlace, Busy, Working
      <4>5. CASE ExchangeEnds(p) /\ frame[p].n # 0
        BY <4>5, CountDoes DEF At, CountPlace, Busy, After
      <4>6. CASE Talks(p)
        BY <4>6, TalkDoes DEF At, Busy
      <4>7. CASE GatherOne(p)
        BY <4>7, GatheredChild, GatherOneDoes DEF At, Busy, After
      <4> QED
        BY <3>2, <4>1, <4>2, <4>3, <4>4, <4>5, <4>6, <4>7
    <3> QED
      BY <1>2, <3>3, <3>4, <3>5 DEF GoesOn
  <2> QED
    BY <2>1, <2>2, <2>3, <2>4
<1> QED
  BY <1>1, <1>2

(* Nobody is busy when the Manager has finished.                           *)
LEMMA NobodyBusy ==
  ASSUME IInv, Alive, Finishes
  PROVE  \A r \in Services : pc'[r] \in {"none", "idle"} /\ pc'[r] \notin Busy
<1> SUFFICES ASSUME NEW r \in Services PROVE pc'[r] \in {"none", "idle"}
  BY DEF Busy, Working, After
<1>1. CASE r = Manager
  BY <1>1 DEF Finishes
<1>2. CASE r # Manager
  <2>1. pc[r] = "none" \/ AtRest(pc[r], down[r], up[r])
    BY <1>2, OthersRest DEF Finishes
  <2>2. pc'[r] = pc[r]
    BY <1>2 DEF Finishes, Others, Same
  <2> QED
    BY <2>1, <2>2 DEF AtRest
<1> QED
  BY <1>1, <1>2

(* The command of a message is the one that its sender does.               *)
LEMMA DoesEntered ==
  ASSUME NEW p, NEW f, Does(f)
  PROVE  LET g == Enter(p, Order(f))
         IN  /\ Does(g)
             /\ before.job.op = "exchange" => g.op = "exchange"
<1>1. CASE f.op = "killall"
  BY <1>1 DEF Does, Enter, Order, KillAll, Msg
<1>2. CASE f.op # "killall"
  BY <1>2 DEF Does, Enter, Order, Msg
<1> QED
  BY <1>1, <1>2

(* Whoever is busy does the command that the Manager read.                 *)
LEMMA TogetherStep ==
  ASSUME IInv, Alive, pc[Manager] # "none", [Next]_vars, pc'[Manager] # "none"
  PROVE  Together'
<1>1. ASSUME NEW p \in Services, Step(p) PROVE Together'
  <2>1. CASE p = Manager /\ Finishes
    BY <2>1, NobodyBusy DEF Together
  <2>2. CASE before' = before
    <3> SUFFICES ASSUME NEW r \in Services, pc'[r] \in Busy PROVE Does(frame[r])'
      BY DEF Together
    <3>1. CASE r # p
      <4>1. pc[r] \in Busy /\ frame'[r] = frame[r]
        BY <1>1, <3>1, OnlyOne DEF NoneBegins
      <4> QED
        BY <2>2, <4>1 DEF Alive, Together, Does
    <3>2. CASE r = p /\ SameJob(p)
      <4>1. pc[p] \in Busy /\ frame'[p].op = frame[p].op /\ frame'[p].a = frame[p].a
            /\ frame'[p].b = frame[p].b
        BY <3>2 DEF SameJob
      <4>2. Does(frame[p])
        BY <4>1 DEF Alive, Together
      <4> QED
        BY <2>2, <3>2, <4>1, <4>2 DEF Does
    <3>3. CASE r = p /\ Receive(p)
      <4>1. PICK q \in Running : Head(down[p]) = Order(frame[q]) /\ Does(frame[q])
        BY <3>3, ReceiveOrder
      <4>2. PICK g : g = Enter(p, Order(frame[q]))
        OBVIOUS
      <4>3. Does(g)
        BY <4>1, <4>2, DoesEntered
      <4>4. frame'[p] = g
        BY <3>3, <4>1, <4>2, ReceiveDoes DEF At
      <4> QED
        BY <2>2, <3>3, <4>3, <4>4 DEF Does
    <3> QED
      BY <1>1, <3>1, <3>2, <3>3, KeepsJob
  <2> QED
    BY <1>1, <2>1, <2>2, GoesOnOrEnds DEF GoesOn
<1>2. ASSUME NEW cmd \in Tree!Commands(Running), ReadLine(cmd) PROVE Together'
  <2>1. PICK m : m = Msg(cmd.op, cmd.a, cmd.b, 0)
    OBVIOUS
  <2>2. /\ frame'[Manager] = Enter(Manager, m) /\ Others({Manager})
    BY <1>2, <2>1, ReadLineDoes DEF At
  <2>3. before'.job = cmd
    BY <1>2 DEF ReadLine
  <2>4. Does(frame[Manager])'
    <3>1. PICK g : g = Enter(Manager, m)
      OBVIOUS
    <3>2. /\ g.op = (IF m.op = "kill" /\ m.a = Manager THEN "killall" ELSE m.op)
          /\ g.a = m.a /\ g.b = m.b
      BY <3>1 DEF Enter
    <3>3. m.op = cmd.op /\ m.a = cmd.a /\ m.b = cmd.b
      BY <2>1 DEF Msg
    <3>4. g.op = "killall" => cmd.op \in {"kill", "killall"}
      BY <3>2, <3>3
    <3>5. cmd.op # "killall"
      BY <1>2, ReadLineFacts
    <3>6. frame'[Manager] = g
      BY <2>2, <3>1
    <3>7. IF g.op = "killall" THEN cmd.op = "kill"
          ELSE g.op = cmd.op /\ g.a = cmd.a /\ g.b = cmd.b
      BY <3>2, <3>3, <3>4, <3>5
    <3> QED
      BY <2>3, <3>6, <3>7 DEF Does
  <2>5. \A r \in Services \ {Manager} : pc'[r] \notin Busy
    <3>1. \A r \in Services \ {Manager} : pc[r] \in {"none", "idle"}
      BY <1>2, ReadLineFacts DEF AtRest
    <3> QED
      BY <2>2, <3>1 DEF Others, Same, Busy, Working, After
  <2> QED
    BY <2>4, <2>5 DEF Together
<1>3. ~StartManager /\ ~EndOfInput
  BY Arrays DEF StartManager, EndOfInput, Goto
<1>4. ASSUME vars' = vars PROVE Together'
  <2>1. pc' = pc /\ frame' = frame /\ before' = before
    BY <1>4 DEF vars
  <2> QED
    BY <2>1 DEF Alive, Together, Does
<1> QED
  BY <1>1, <1>2, <1>3, <1>4 DEF Next

-----------------------------------------------------------------------------
(* In an exchange all who are busy are busy with it.                       *)
LEMMA InExchange ==
  ASSUME IInv, Exchanging, NEW p \in Services, pc[p] \in Busy
  PROVE  /\ frame[p].op = "exchange" /\ frame[p].a = before.job.a /\ frame[p].b = before.job.b
         /\ frame[p] \in Frames /\ FrameOK(p, pc[p], frame[p], kids[p])
         /\ <<frame[p].a, frame[p].b>> \in Pairs
         /\ p \in Running /\ Alive
<1>1. /\ FrameOK(p, pc[p], frame[p], kids[p]) /\ frame[p] \in Frames /\ Does(frame[p])
      /\ p \in Running /\ Alive
  BY BusyFacts
<1>2. /\ frame[p].op = "exchange" /\ frame[p].a = before.job.a /\ frame[p].b = before.job.b
  BY <1>1 DEF Does, Exchanging
<1> QED
  BY <1>1, <1>2 DEF FrameOK, Named

(* What may happen in an exchange.                                         *)
ExchangeStep(p) ==
    \/ Receive(p) \/ CallChild(p) \/ ExchangeAnswered(p) \/ ExchangeEnds(p)
    \/ Talks(p) \/ GatherOne(p) \/ GatherEnds(p)

(* Nothing else does.                                                      *)
LEMMA ExchangeSteps ==
  ASSUME IInv, Exchanging, NEW p \in Services, Step(p)
  PROVE  ExchangeStep(p)
<1>0. Alive
  BY BusyFacts DEF Exchanging
<1>1. ASSUME pc[p] \in Busy PROVE frame[p].op = "exchange"
  BY <1>1, InExchange
<1>2. ~Fork(p) /\ ~Handshake(p) /\ ~Suicide(p) /\ ~LetChildSuicide(p) /\ ~Reap(p)
  <2>1. ASSUME pc[p] \in {"fork", "spawning", "agree", "suicide", "reap"} PROVE FALSE
    <3>1. pc[p] \in Busy
      BY <2>1 DEF Busy, Working
    <3> QED
      BY <1>1, <2>1, <3>1, BusyFacts DEF FrameOK, Stands, Counted
  <2> QED
    BY <2>1 DEF Fork, Handshake, Suicide, LetChildSuicide, Reap
<1>3. ~SpawnAnswered(p) /\ ~KillAnswered(p) /\ ~TerminateAnswered(p)
      /\ ~SpawnEnds(p) /\ ~KillEnds(p) /\ ~TerminateEnds(p)
  <2>1. pc[p] \in {"wait", "loop"} => pc[p] \in Busy
    BY DEF Busy, Working
  <2> QED
    BY <1>1, <2>1 DEF SpawnAnswered, KillAnswered, TerminateAnswered, Answered,
       SpawnEnds, KillEnds, TerminateEnds, Ended
<1>4. ~Started(p)
  <2> SUFFICES ASSUME pc[p] = "start" PROVE FALSE
    BY DEF Started
  <2>1. p # Manager
    BY <1>0 DEF Alive
  <2>2. PICK q \in Running : q \in Services \ {p} /\ Linked(q, p)
    BY <1>0, <2>1, ParentFacts
  <2>3. pc[q] = "spawning"
    <3>1. Rel(pc[q], frame[q], kids[q], p) = "spawning"
      BY <2>2, RelKind DEF Linked, Link, Asked, AtRest, Fits, Pending, Going, Born, Working,
         After, Rels
    <3> QED
      BY <3>1 DEF Rel
  <2>4. pc[q] \in Busy
    BY <2>3 DEF Busy, Working
  <2> QED
    BY <2>2, <2>3, <2>4, InExchange DEF FrameOK, Stands
<1> QED
  BY <1>0, <1>2, <1>3, <1>4, StepKinds, NoOrphans DEF ExchangeStep, Answer, ReturnEnds

(* No step of an exchange changes the tree, and only one process moves.    *)
LEMMA ExchangeStill ==
  ASSUME IInv, Alive, NEW p \in Services, ExchangeStep(p)
  PROVE  /\ kids' = kids /\ p \in Running
         /\ \A r \in Services \ {p} : pc'[r] = pc[r] /\ frame'[r] = frame[r]
         /\ \A r \in Services : r \in Running' <=> r \in Running
<1>1. kids' = kids
  BY DEF ExchangeStep, Receive, CallChild, ExchangeAnswered, Answered, ExchangeEnds,
     Talks, MakeFifos, WriteFifo, ReadFifo, GatherOne, GatherEnds, Gather
<1>2. \A r \in Services \ {p} : pc'[r] = pc[r] /\ frame'[r] = frame[r]
  <2>1. CASE Others({p})
    BY <2>1 DEF Others, Same
  <2>2. ASSUME NEW c, Others({p, c}), At(c, pc[c], frame[c], kids[c])
        PROVE  \A r \in Services \ {p} : pc'[r] = pc[r] /\ frame'[r] = frame[r]
    <3> SUFFICES ASSUME NEW r \in Services \ {p} PROVE pc'[r] = pc[r] /\ frame'[r] = frame[r]
      OBVIOUS
    <3>1. CASE r = c
      BY <2>2, <3>1 DEF At
    <3>2. CASE r # c
      BY <2>2, <3>2 DEF Others, Same
    <3> QED
      BY <3>1, <3>2
  <2>3. CASE CallChild(p)
    BY <2>2, <2>3, CalledChild, CallChildDoes
  <2>4. CASE ExchangeAnswered(p)
    BY <2>2, <2>4, AnswerOK, AnswerDoes DEF Answer
  <2>5. CASE GatherOne(p)
    BY <2>2, <2>5, GatheredChild, GatherOneDoes
  <2> QED
    BY <2>1, <2>3, <2>4, <2>5, ReceiveDoes, CountDoes, TalkDoes, GatherEndsDoes
       DEF ExchangeStep
<1>3. pc[p] \in {"idle", "loop", "wait"} \cup After
  BY AnswerOK, TalkDoes
     DEF ExchangeStep, Receive, CallChild, ExchangeAnswered, Answered, ExchangeEnds, Ended,
         GatherOne, GatherEnds, Gather, After
<1>4. pc'[p] \in {"idle", "fork", "loop", "wait"} \cup After
  <2>1. CASE Receive(p)
    BY <2>1, ReceiveDoes DEF At, Place
  <2>2. CASE CallChild(p)
    BY <2>2, CalledChild, CallChildDoes DEF At
  <2>3. CASE ExchangeAnswered(p)
    BY <2>3, Arrays DEF ExchangeAnswered, Goto
  <2>4. CASE ExchangeEnds(p)
    BY <2>4, CountDoes DEF At, CountPlace, After
  <2>5. CASE Talks(p)
    BY <2>5, TalkDoes DEF At
  <2>6. CASE GatherOne(p)
    BY <2>6, GatheredChild, GatherOneDoes DEF At, After
  <2>7. CASE GatherEnds(p)
    BY <2>7, GatherEndsDoes DEF At
  <2> QED
    BY <2>1, <2>2, <2>3, <2>4, <2>5, <2>6, <2>7 DEF ExchangeStep
<1>5. p \in Running /\ p \in Running'
  BY <1>3, <1>4, RunningIs DEF After
<1> QED
  BY <1>1, <1>2, <1>5, RunningIs

(* The log, with one line more.                                            *)
LEMMA HeardSame ==
  ASSUME NEW S, log \in Seq(S), NEW w, w[1] # "heard", log' = log \/ log' = Append(log, w)
  PROVE  \A x : Heard(x)' <=> Heard(x)
<1>1. CASE log' = log
  BY <1>1 DEF Heard
<1>2. CASE log' = Append(log, w)
  <2>1. /\ Len(log') = Len(log) + 1 /\ Len(log) \in Nat /\ log'[Len(log')] = w
        /\ \A i \in 1..Len(log) : log'[i] = log[i] /\ i \in 1..Len(log')
        /\ \A i \in 1..Len(log') : i \in 1..Len(log) \/ i = Len(log')
    BY <1>2
  <2> QED
    BY <2>1 DEF Heard
<1> QED
  BY <1>1, <1>2

(* One more has been asked.                                                *)
LEMMA HeardMore ==
  ASSUME NEW S, log \in Seq(S), NEW w, NEW p, w[1] = "heard", w[2] = p, log' = Append(log, w)
  PROVE  \A x : Heard(x)' <=> Heard(x) \/ x = p
<1>1. /\ Len(log') = Len(log) + 1 /\ Len(log) \in Nat /\ log'[Len(log')] = w
      /\ Len(log') \in 1..Len(log')
      /\ \A i \in 1..Len(log) : log'[i] = log[i] /\ i \in 1..Len(log')
      /\ \A i \in 1..Len(log') : i \in 1..Len(log) \/ i = Len(log')
  OBVIOUS
<1> QED
  BY <1>1 DEF Heard

-----------------------------------------------------------------------------
(* Who is asked is written down, and nobody else.                          *)
LEMMA ExchangeHears ==
  ASSUME IInv, Exchanging, NEW p \in Services, ExchangeStep(p)
  PROVE  \A x : Heard(x)' <=> Heard(x) \/ (Receive(p) /\ x = p)
<1>0. log \in Seq(Entries) /\ Alive
  BY BusyFacts DEF IInv, Typed, Exchanging
<1>1. CASE Receive(p)
  <2>1. PICK q \in Running : Head(down[p]) = Order(frame[q]) /\ Does(frame[q])
    BY <1>1, ReceiveOrder
  <2>2. PICK m : m = Head(down[p])
    OBVIOUS
  <2>3. m.op # "killall"
    <3>1. frame[q].op = "exchange"
      BY <2>1 DEF Does, Exchanging
    <3> QED
      BY <2>1, <2>2, <3>1 DEF Order, Msg
  <2>4. PICK w : w = <<"heard", p, m.op, m.a, m.b>>
    OBVIOUS
  <2>5. log' = log \o <<w>>
    BY <1>1, <2>2, <2>3, <2>4 DEF Receive, Echo
  <2>6. log' = Append(log, w)
    BY <1>0, <2>5
  <2>7. w[1] = "heard" /\ w[2] = p
    BY <2>4
  <2> QED
    BY <1>0, <1>1, <2>6, <2>7, HeardMore
<1>2. CASE ~Receive(p)
  <2>1. \E w : w[1] # "heard" /\ (log' = log \/ log' = Append(log, w))
    <3>0. <<"missing", None>>[1] # "heard"
      OBVIOUS
    <3>1. CASE log' = log
      BY <3>0, <3>1
    <3>2. ASSUME NEW s, NEW n, NEW w, w[1] # "heard", Report(p, s, n, w)
          PROVE  \E x : x[1] # "heard" /\ (log' = log \/ log' = Append(log, x))
      BY <3>2 DEF Report
    <3>3. CASE ExchangeEnds(p)
      <4>1. <<"missing", frame[p].a>>[1] # "heard"
        OBVIOUS
      <4>2. log' = log \/ Report(p, frame[p].n, 0, <<"missing", frame[p].a>>)
        BY <3>3 DEF ExchangeEnds
      <4> QED
        BY <3>1, <3>2, <4>1, <4>2
    <3>4. CASE GatherEnds(p)
      <4>1. <<"exchanged", frame[p].a, frame[p].b>>[1] # "heard"
        OBVIOUS
      <4>2. Report(p, 0, 0, <<"exchanged", frame[p].a, frame[p].b>>)
        BY <3>4 DEF GatherEnds, Gather
      <4> QED
        BY <3>2, <4>1, <4>2
    <3>5. CASE ReadFifo(p)
      <4>1. PICK w : w = <<"acquired", p, Peer(p), Head(fifo[<<Peer(p), p>>])>>
        OBVIOUS
      <4>2. w[1] # "heard"
        BY <4>1
      <4>3. log' = Append(log, w)
        BY <3>5, <4>1 DEF ReadFifo
      <4> QED
        BY <4>2, <4>3
    <3>6. CASE CallChild(p) \/ ExchangeAnswered(p) \/ MakeFifos(p) \/ WriteFifo(p) \/ GatherOne(p)
      <4>1. log' = log
        BY <3>6 DEF CallChild, ExchangeAnswered, Answered, MakeFifos, WriteFifo, GatherOne, Gather
      <4> QED
        BY <3>1, <4>1
    <3> QED
      BY <1>2, <3>3, <3>4, <3>5, <3>6 DEF ExchangeStep, Talks
  <2>2. \A x : Heard(x)' <=> Heard(x)
    BY <1>0, <2>1, HeardSame
  <2> QED
    BY <1>2, <2>2
<1> QED
  BY <1>1, <1>2

-----------------------------------------------------------------------------
(* A process that has not been asked has asked nobody.                     *)
LEMMA FirstAsked ==
  ASSUME IInv, Exchanging, NEW p \in Services, Receive(p)
  PROVE  /\ ~Heard(p)
         /\ \A i \in 1..Len(kids[p]) : ~Heard(kids[p][i])
         /\ \E q \in Services : pc[q] \in Busy /\ Heard(q) /\ pc[q] = "wait" /\ q # p
                                /\ kids[q][frame[q].k] = p
<1>1. PICK q \in Running \ {p} : /\ Par(q, p) /\ pc[q] = "wait" /\ kids[q][frame[q].k] = p
  BY ReceiveOrder
<1>2. Alive /\ Told
  BY BusyFacts DEF Exchanging, Alive
<1>3. q \in Services /\ pc[q] \in Busy /\ down[p] # <<>> /\ p \in Running
  BY <1>1, ReceiveOrder, RunningIs DEF Busy, Working, Receive
<1>4. FrameOK(q, "wait", frame[q], kids[q])
  BY <1>1, <1>3, BusyFacts
<1>5. frame[q].k \in 1..Len(kids[q])
  BY <1>3, <1>4, ChildFacts DEF FrameOK, Stands
<1>6. Heard(q) /\ (Heard(p) => InTurn(q, frame[q].k))
  BY <1>1, <1>2, <1>3, <1>5 DEF Told
<1>7. ~Heard(p)
  <2>1. frame[q].k \in Nat
    BY <1>5
  <2>2. ~(frame[q].k < frame[q].k)
    BY <2>1
  <2> QED
    BY <1>1, <1>3, <1>6, <2>2 DEF InTurn
<1>8. \A i \in 1..Len(kids[p]) : ~Heard(kids[p][i])
  BY <1>2, <1>3, <1>7 DEF Told, Elems
<1> QED
  BY <1>1, <1>3, <1>6, <1>7, <1>8

(* The loop over the children only goes forward.                           *)
LEMMA Onward ==
  ASSUME IInv, Exchanging, NEW p \in Services, ExchangeStep(p), ~Receive(p)
  PROVE  /\ pc[p] \in Busy
         /\ pc'[p] \in Busy => /\ frame'[p].k \in Nat /\ frame[p].k \in Nat
                               /\ frame[p].k <= frame'[p].k
                               /\ pc[p] = "wait" => frame[p].k < frame'[p].k
<1>1. pc[p] \in {"loop", "wait"} \cup After
  BY TalkDoes
     DEF ExchangeStep, CallChild, ExchangeAnswered, Answered, ExchangeEnds, Ended,
         GatherOne, GatherEnds, Gather, After
<1>2. pc[p] \in Busy
  BY <1>1 DEF Busy, Working
<1>3. frame[p] \in Frames /\ frame[p].k \in Nat /\ frame[p].op = "exchange"
  BY <1>2, InExchange DEF Frames
<1>4. CASE ExchangeAnswered(p)
  <2>1. PICK s : s = Head(up[Child(p)]).status
    OBVIOUS
  <2>2. frame'[p] = [frame[p] EXCEPT !.k = @ + 1,
                                     !.n = IF s = 2 THEN 2 ELSE @ + s,
                                     !.wait = IF s = 0 THEN @ ELSE Append(@, Child(p))]
    BY <1>4, <2>1, Arrays DEF ExchangeAnswered, Set
  <2>3. frame'[p].k = frame[p].k + 1
    BY <1>3, <2>2 DEF Frames
  <2> QED
    BY <1>2, <1>3, <2>3
<1>5. CASE ~ExchangeAnswered(p)
  <2>1. pc[p] # "wait"
    <3>1. ~Answer(p) \/ ~(pc[p] = "wait")
      BY <1>3, <1>5 DEF Answer, SpawnAnswered, KillAnswered, TerminateAnswered, Answered
    <3> QED
      BY <1>5, TalkDoes DEF ExchangeStep, CallChild, ExchangeEnds, Ended, GatherOne, GatherEnds,
         Gather, After
  <2>2. pc'[p] \in Busy => frame'[p].k = frame[p].k
    <3>1. CASE CallChild(p)
      BY <3>1 DEF CallChild
    <3>2. CASE ExchangeEnds(p)
      BY <3>2, CountDoes DEF At, Busy, Working, After
    <3>3. CASE Talks(p)
      <4>1. PICK g \in {frame[p], [frame[p] EXCEPT !.got = Head(fifo[<<Peer(p), p>>])]} :
               frame'[p] = g
        BY <3>3, TalkDoes DEF At
      <4> QED
        BY <1>3, <4>1 DEF Frames
    <3>4. CASE GatherOne(p)
      <4>1. frame'[p] = [frame[p] EXCEPT !.wait = Tail(@)]
        BY <3>4, GatheredChild, GatherOneDoes DEF At
      <4> QED
        BY <1>3, <4>1 DEF Frames
    <3>5. CASE GatherEnds(p)
      BY <3>5, GatherEndsDoes DEF At, Busy, Working, After
    <3> QED
      BY <1>5, <3>1, <3>2, <3>3, <3>4, <3>5 DEF ExchangeStep
  <2> QED
    BY <1>2, <1>3, <2>1, <2>2
<1> QED
  BY <1>4, <1>5

(* Nobody is sent a second message.                                        *)
LEMMA DownKept ==
  ASSUME IInv, Exchanging, NEW p \in Services, ExchangeStep(p),
         NEW r \in Services \ {p}, pc[r] \in Busy, NEW i \in 1..Len(kids[r]),
         down[kids[r][i]] = <<>>
  PROVE  down'[kids[r][i]] = <<>>
<1>0. Alive /\ r \in Running
  BY BusyFacts
<1>1. kids[r][i] \in Services /\ \A q \in Running : Par(q, kids[r][i]) => q = r
  BY <1>0, ListPar
<1>2. CASE Receive(p)
  BY SMTT(30), <1>1, <1>2, ReceiveDoes DEF Receive, Others, Same
<1>3. CASE CallChild(p)
  <2>1. Child(p) \in Services \ {p} /\ pc[p] \in Busy /\ frame[p].k \in 1..Len(kids[p])
    BY <1>3, CalledChild
  <2>2. p \in Running /\ Par(p, Child(p))
    BY <1>0, <2>1, BusyFacts, ListPar DEF Child
  <2>3. kids[r][i] # Child(p)
    BY <1>1, <2>2
  <2> QED
    BY <1>1, <1>3, <2>3, Arrays DEF CallChild, Send
<1>4. CASE ~Receive(p) /\ ~CallChild(p)
  <2>1. down' = down
    BY <1>4 DEF ExchangeStep, ExchangeAnswered, Answered, ExchangeEnds, Talks, MakeFifos,
       WriteFifo, ReadFifo, GatherOne, GatherEnds, Gather
  <2> QED
    BY <2>1
<1> QED
  BY <1>2, <1>3, <1>4

(* An exchange asks each service once, from the top down.                  *)
LEMMA ToldKept ==
  ASSUME IInv, Exchanging, NEW p \in Services, ExchangeStep(p)
  PROVE  Told'
<1>0. Alive /\ Told
  BY BusyFacts DEF Exchanging, Alive
<1>1. /\ kids' = kids /\ p \in Running
      /\ \A r \in Services \ {p} : pc'[r] = pc[r] /\ frame'[r] = frame[r]
      /\ \A r \in Services : r \in Running' <=> r \in Running
  BY <1>0, ExchangeStill
<1>2. \A x : Heard(x)' <=> Heard(x) \/ (Receive(p) /\ x = p)
  BY ExchangeHears
<1>3. ASSUME NEW q \in Running', NEW c \in Elems(kids'[q]), Heard(c)' PROVE Heard(q)'
  <2>1. q \in Services /\ q \in Running /\ c \in Elems(kids[q])
    BY <1>1, RunningIs
  <2>2. CASE Heard(c)
    BY <1>0, <1>2, <2>1, <2>2 DEF Told
  <2>3. CASE Receive(p) /\ c = p
    <3>1. PICK r \in Services : pc[r] \in Busy /\ Heard(r) /\ kids[r][frame[r].k] = p
                                /\ pc[r] = "wait"
      BY <2>3, FirstAsked
    <3>2. r \in Running /\ Par(r, p)
      <4>1. frame[r].k <= Len(kids[r])
        BY <3>1, BusyFacts DEF FrameOK, Stands
      <4> QED
        BY <3>1, <4>1, ChildFacts, BusyFacts DEF Child
    <3>3. Par(q, p)
      BY <2>1, <2>3 DEF Par, ParOf
    <3>4. q = r
      BY <1>0, <2>1, <3>2, <3>3 DEF Alive, Family
    <3> QED
      BY <1>2, <3>1, <3>4
  <2> QED
    BY <1>2, <1>3, <2>2, <2>3
<1>4. ASSUME NEW q \in Services, pc'[q] \in Busy
      PROVE  Heard(q)' /\ \A i \in 1..Len(kids'[q]) : Heard(kids[q][i])' => InTurn(q, i)'
  <2>1. CASE q = p /\ Receive(p)
    <3>1. Heard(q)'
      BY <1>2, <2>1
    <3>2. \A i \in 1..Len(kids[q]) : ~Heard(kids[q][i]) /\ kids[q][i] # p
      <4>1. \A i \in 1..Len(kids[p]) : ~Heard(kids[p][i])
        BY <2>1, FirstAsked
      <4>2. \A i \in 1..Len(kids[p]) : kids[p][i] # p
        BY <1>0, <1>1, ListPar
      <4> QED
        BY <2>1, <4>1, <4>2
    <3>3. \A i \in 1..Len(kids[q]) : ~Heard(kids[q][i])'
      <4>1. \A i : Heard(kids[q][i])' <=> Heard(kids[q][i]) \/ (Receive(p) /\ kids[q][i] = p)
        BY <1>1, <1>2 DEF Heard
      <4> QED
        BY <3>2, <4>1
    <3> QED
      BY <1>1, <3>1, <3>3
  <2>2. CASE q = p /\ ~Receive(p)
    <3>1. pc[p] \in Busy /\ frame'[p].k \in Nat /\ frame[p].k \in Nat
          /\ frame[p].k <= frame'[p].k /\ (pc[p] = "wait" => frame[p].k < frame'[p].k)
      BY <1>4, <2>2, Onward
    <3>2. Heard(p)'
      BY <1>0, <1>2, <2>2, <3>1 DEF Told
    <3>3. ASSUME NEW i \in 1..Len(kids[p]), Heard(kids[p][i])' PROVE InTurn(p, i)'
      <4>1. Heard(kids[p][i])
        <5>1. Heard(kids[p][i])' <=> Heard(kids[p][i]) \/ (Receive(p) /\ kids[p][i] = p)
          BY <1>1, <1>2 DEF Heard
        <5> QED
          BY <2>2, <3>3, <5>1
      <4>2. InTurn(p, i) /\ i \in Nat
        BY <1>0, <3>1, <4>1 DEF Told
      <4>3. i < frame'[p].k
        BY <3>1, <4>2 DEF InTurn
      <4> QED
        BY <4>3 DEF InTurn
    <3> QED
      BY <1>1, <2>2, <3>2, <3>3
  <2>3. CASE q # p
    <3>1. pc'[q] = pc[q] /\ frame'[q] = frame[q] /\ pc[q] \in Busy
      BY <1>1, <1>4, <2>3
    <3>2. Heard(q)'
      BY <1>0, <1>2, <3>1 DEF Told
    <3>3. ASSUME NEW i \in 1..Len(kids[q]), Heard(kids[q][i])' PROVE InTurn(q, i)'
      <4>1. Heard(kids[q][i])' <=> Heard(kids[q][i]) \/ (Receive(p) /\ kids[q][i] = p)
        BY <1>1, <1>2 DEF Heard
      <4>2. CASE Heard(kids[q][i])
        <5>1. InTurn(q, i)
          BY <1>0, <3>1, <4>2 DEF Told
        <5>2. i < frame[q].k \/ (i = frame[q].k /\ pc[q] = "wait" /\ down'[kids[q][i]] = <<>>)
          BY <2>3, <3>1, <5>1, DownKept DEF InTurn
        <5> QED
          BY <1>1, <3>1, <5>2 DEF InTurn
      <4>3. CASE Receive(p) /\ kids[q][i] = p
        <5>1. PICK r \in Services : pc[r] \in Busy /\ pc[r] = "wait" /\ kids[r][frame[r].k] = p
          BY <4>3, FirstAsked
        <5>2. r \in Running /\ Par(r, p) /\ frame[r].k \in 1..Len(kids[r])
          <6>1. frame[r].k <= Len(kids[r])
            BY <5>1, BusyFacts DEF FrameOK, Stands
          <6> QED
            BY <5>1, <6>1, ChildFacts, BusyFacts DEF Child
        <5>3. q \in Running /\ Par(q, p)
          BY <1>0, <3>1, <4>3, BusyFacts, ListPar
        <5>4. q = r
          BY <1>0, <5>2, <5>3 DEF Alive, Family
        <5>5. i = frame[q].k
          BY <1>0, <4>3, <5>1, <5>2, <5>3, <5>4 DEF Alive, Family, Unique
        <5>6. down'[p] = <<>>
          BY <4>3, ReceiveOrder, ReceiveDoes DEF Pipe
        <5> QED
          BY <1>1, <3>1, <4>3, <5>1, <5>4, <5>5, <5>6 DEF InTurn
      <4> QED
        BY <3>3, <4>1, <4>2, <4>3
    <3> QED
      BY <1>1, <3>2, <3>3
  <2> QED
    BY <2>1, <2>2, <2>3
<1> QED
  BY <1>3, <1>4 DEF Told

-----------------------------------------------------------------------------
(* Every step keeps the order in which the services are asked.             *)
LEMMA ToldStep ==
  ASSUME IInv, Alive, pc[Manager] # "none", [Next]_vars, pc'[Manager] # "none"
  PROVE  Told'
<1>1. ASSUME NEW p \in Services, Step(p) PROVE Told'
  <2>1. CASE p = Manager /\ Finishes
    BY <2>1, NobodyBusy DEF Told, Exchanging
  <2>2. CASE GoesOn /\ Exchanging
    BY <1>1, <2>2, ExchangeSteps, ToldKept
  <2>3. CASE GoesOn /\ ~Exchanging
    BY <2>3 DEF GoesOn, Told, Exchanging
  <2> QED
    BY <1>1, <2>1, <2>2, <2>3, GoesOnOrEnds
<1>2. ASSUME NEW cmd \in Tree!Commands(Running), ReadLine(cmd) PROVE Told'
  <2>1. cmd.op # "killall" /\ Alive
    BY <1>2, ReadLineFacts
  <2>2. PICK w : w = <<"heard", Manager, cmd.op, cmd.a, cmd.b>>
    OBVIOUS
  <2>3. log' = <<w>> /\ kids' = kids
    BY <1>2, <2>1, <2>2 DEF ReadLine, Echo, Msg
  <2>4. \A x : Heard(x)' <=> x = Manager
    <3>1. Len(log') = 1 /\ log'[1] = w /\ w[1] = "heard" /\ w[2] = Manager
      BY <2>2, <2>3
    <3> QED
      BY <3>1 DEF Heard
  <2>5. \A r \in Services \ {Manager} : pc'[r] \notin Busy
    <3>1. \A r \in Services \ {Manager} : pc[r] \in {"none", "idle"}
      BY <1>2, ReadLineFacts DEF AtRest
    <3>2. Others({Manager})
      BY <1>2, ReadLineDoes
    <3> QED
      BY <3>1, <3>2 DEF Others, Same, Busy, Working, After
  <2>6. ASSUME NEW q \in Services, NEW i \in 1..Len(kids[q]) PROVE kids[q][i] # Manager
    <3>1. kids[q] \in Seq(Services \ {Manager})
      BY DEF IInv, Typed, TypeOK
    <3> QED
      BY <3>1
  <2>7. ASSUME NEW q \in Running', NEW c \in Elems(kids'[q]) PROVE ~Heard(c)'
    <3>1. q \in Services
      BY RunningIs
    <3>2. c # Manager
      BY <2>3, <2>6, <2>7, <3>1 DEF Elems
    <3> QED
      BY <2>4, <3>2
  <2>8. ASSUME NEW q \in Services, pc'[q] \in Busy
        PROVE  Heard(q)' /\ \A i \in 1..Len(kids'[q]) : Heard(kids[q][i])' => InTurn(q, i)'
    <3>1. q = Manager
      BY <2>5, <2>8
    <3>2. \A i \in 1..Len(kids'[q]) : ~Heard(kids[q][i])'
      <4>1. \A i : Heard(kids[q][i])' <=> kids[q][i] = Manager
        BY <2>3, <2>4 DEF Heard
      <4> QED
        BY <2>3, <2>6, <4>1
    <3> QED
      BY <2>4, <3>1, <3>2
  <2> QED
    BY <2>7, <2>8 DEF Told
<1>3. ~StartManager /\ ~EndOfInput
  BY Arrays DEF StartManager, EndOfInput, Goto
<1>4. ASSUME vars' = vars PROVE Told'
  <2>1. pc' = pc /\ frame' = frame /\ before' = before /\ kids' = kids /\ down' = down /\ log' = log
    BY <1>4 DEF vars
  <2> QED
    BY <2>1 DEF Alive, Told, Heard, InTurn, Exchanging, Running
<1> QED
  BY <1>1, <1>2, <1>3, <1>4 DEF Next

-----------------------------------------------------------------------------
(* The FIFOs.                                                              *)
LEMMA SwapPair ==
  ASSUME IInv, Exchanging
  PROVE  /\ <<before.job.a, before.job.b>> \in Pairs /\ <<before.job.b, before.job.a>> \in Pairs
         /\ before.job.a \in Services /\ before.job.b \in Services /\ before.job.a # before.job.b
         /\ <<before.job.a, before.job.b>> # <<before.job.b, before.job.a>>
         /\ Swap(before.job.a, before.job.b)
         /\ \A e \in Pairs \ {<<before.job.a, before.job.b>>, <<before.job.b, before.job.a>>} :
               fifo[e] = None
<1>1. <<before.job.a, before.job.b>> \in Pairs /\ Alive
  BY InExchange DEF Exchanging
<1>2. /\ before.job.a \in Services /\ before.job.b \in Services /\ before.job.a # before.job.b
      /\ <<before.job.b, before.job.a>> \in Pairs
  BY <1>1 DEF Pairs
<1> QED
  BY <1>1, <1>2 DEF Alive, Fifos

(* Who is not reading or writing has not begun or is done.                 *)
LEMMA Phases ==
  ASSUME IInv, Exchanging, NEW p \in Services, ExchangeStep(p), ~Talks(p),
         NEW x \in {before.job.a, before.job.b}
  PROVE  /\ Early(x) => Early(x)'
         /\ Late(x) => Late(x)'
         /\ pc[x] \in Opens => pc'[x] = pc[x]
<1>0. Alive /\ x \in Services
  BY BusyFacts, SwapPair DEF Exchanging
<1>1. \A r \in Services \ {p} : pc'[r] = pc[r]
  BY <1>0, ExchangeStill
<1>2. Heard(x)' <=> Heard(x) \/ (Receive(p) /\ x = p)
  BY ExchangeHears
<1>3. CASE x # p
  <2>1. pc'[x] = pc[x] /\ (Heard(x)' <=> Heard(x))
    BY <1>0, <1>1, <1>2, <1>3
  <2> QED
    BY <2>1 DEF Early, Late
<1>4. CASE x = p /\ Receive(p)
  <2>1. ~Heard(p) /\ pc[p] = "idle"
    BY <1>4, FirstAsked DEF Receive
  <2>2. pc'[p] = "loop"
    <3>1. PICK q \in Running : Head(down[p]) = Order(frame[q]) /\ Does(frame[q])
      BY <1>4, ReceiveOrder
    <3>2. Order(frame[q]).op = "exchange"
      BY <3>1 DEF Does, Exchanging, Order, Msg
    <3> QED
      BY <1>4, <3>1, <3>2, ReceiveDoes DEF At, Place
  <2> QED
    BY <1>4, <2>1, <2>2 DEF Early, Late, Opens
<1>5. CASE x = p /\ ~Receive(p)
  <2>1. pc[p] \in Busy /\ Heard(p) /\ Heard(p)'
    <3>1. pc[p] \in Busy
      BY <1>5, Onward
    <3>2. Heard(p)
      BY <1>0, <3>1 DEF Alive, Told
    <3> QED
      BY <1>2, <1>5, <3>1, <3>2
  <2>2. frame[p].n >= 1 /\ p \in {frame[p].a, frame[p].b}
    BY <1>5, <2>1, InExchange DEF FrameOK, Stands
  <2>3. CASE CallChild(p)
    <3>1. pc[p] = "loop" /\ pc'[p] = "wait"
      BY <2>3, CalledChild, CallChildDoes DEF At, CallChild
    <3> QED
      BY <1>5, <2>1, <3>1 DEF Early, Late, Opens
  <2>4. CASE ExchangeAnswered(p)
    <3>1. pc[p] = "wait" /\ pc'[p] = "loop"
      BY <2>4, Arrays DEF ExchangeAnswered, Answered, Goto
    <3> QED
      BY <1>5, <2>1, <3>1 DEF Early, Late, Opens
  <2>5. CASE ExchangeEnds(p)
    <3>1. frame[p].n # 0
      BY <2>2
    <3>2. pc[p] = "loop" /\ pc'[p] = "mkfifo"
      BY <2>2, <2>5, <3>1, CountDoes DEF At, CountPlace
    <3> QED
      BY <1>5, <2>1, <3>2 DEF Early, Late, Opens
  <2>6. CASE GatherOne(p) \/ GatherEnds(p)
    <3>1. pc[p] = "gather" /\ pc'[p] \in {"gather", "idle"}
      BY <2>6, GatheredChild, GatherOneDoes, GatherEndsDoes DEF At
    <3> QED
      BY <1>5, <2>1, <3>1 DEF Early, Late, Opens
  <2> QED
    BY <1>5, <2>3, <2>4, <2>5, <2>6 DEF ExchangeStep
<1> QED
  BY <1>3, <1>4, <1>5

-----------------------------------------------------------------------------
(* Reading and writing: the FIFOs of the two pass through their states.    *)
LEMMA TalkFacts ==
  ASSUME IInv, Exchanging, NEW p \in Services, Talks(p)
  PROVE  LET a == before.job.a
             b == before.job.b
         IN  /\ pc[p] \in {"mkfifo", "read_fifo", "write_fifo"}
             /\ frame[p].a = a /\ frame[p].b = b /\ p \in {a, b}
             /\ p = a => Peer(p) = b
             /\ p = b => Peer(p) = a
             /\ Heard(p) /\ secret[p] \in Services
             /\ \A r \in Services \ {p} : pc'[r] = pc[r]
             /\ \A x : Heard(x)' <=> Heard(x)
<1>1. pc[p] \in After \ {"gather"}
  BY BusyFacts, TalkDoes DEF Exchanging
<1>2. pc[p] \in Busy
  BY <1>1 DEF Busy
<1>3. /\ frame[p].a = before.job.a /\ frame[p].b = before.job.b /\ p \in Running /\ Alive
  BY <1>2, InExchange
<1>4. p \in {frame[p].a, frame[p].b} /\ frame[p].a # frame[p].b
  BY <1>1, PeerFacts
<1>5. Heard(p)
  BY <1>2, <1>3 DEF Alive, Told
<1>6. secret[p] \in Services
  BY <1>3, RunningIs DEF IInv, Lives
<1>7. ~Receive(p)
  BY <1>2 DEF Receive, Busy, Working, After
<1>8. \A r \in Services \ {p} : pc'[r] = pc[r]
  BY <1>3, ExchangeStill DEF ExchangeStep
<1>9. \A x : Heard(x)' <=> Heard(x)
  BY <1>7, ExchangeHears DEF ExchangeStep
<1> QED
  BY <1>1, <1>3, <1>4, <1>5, <1>6, <1>8, <1>9 DEF After, Peer

(* A process that is in none of the places of one keeps its phase.         *)
LEMMA SamePhase ==
  ASSUME NEW x, pc'[x] = pc[x], Heard(x)' <=> Heard(x)
  PROVE  (Early(x)' <=> Early(x)) /\ (Late(x)' <=> Late(x))
BY DEF Early, Late

(* The FIFOs are made.                                                     *)
LEMMA MakeSwap ==
  ASSUME IInv, Exchanging, NEW p \in Services, MakeFifos(p), NEW a, NEW b,
         a = before.job.a, b = before.job.b
  PROVE  Swap(a, b)' /\ \A e \in Pairs \ {<<a, b>>, <<b, a>>} : fifo'[e] = None
<1>1. /\ frame[p].a = a /\ p \in {a, b} /\ (p = a => Peer(p) = b) /\ (p = b => Peer(p) = a)
      /\ \A r \in Services \ {p} : pc'[r] = pc[r]
      /\ \A x : Heard(x)' <=> Heard(x)
  BY TalkFacts DEF Talks
<1>2. /\ <<a, b>> \in Pairs /\ <<b, a>> \in Pairs /\ a \in Services /\ b \in Services /\ a # b
      /\ Swap(a, b) /\ \A e \in Pairs \ {<<a, b>>, <<b, a>>} : fifo[e] = None
  BY SwapPair
<1>3. pc[p] = "mkfifo" /\ pc'[p] = IF p = a THEN "read_fifo" ELSE "write_fifo"
  BY <1>1, Arrays DEF MakeFifos, Goto
<1>4. fifo' = [e \in Pairs |-> IF fifo[e] = None /\ e \in {<<a, b>>, <<b, a>>}
                               THEN <<>> ELSE fifo[e]]
  BY <1>1 DEF MakeFifos
<1>5. \A e \in Pairs \ {<<a, b>>, <<b, a>>} : fifo'[e] = None
  BY <1>2, <1>4
<1>6. /\ fifo'[<<a, b>>] = IF fifo[<<a, b>>] = None THEN <<>> ELSE fifo[<<a, b>>]
      /\ fifo'[<<b, a>>] = IF fifo[<<b, a>>] = None THEN <<>> ELSE fifo[<<b, a>>]
  BY <1>2, <1>4
<1>7. CASE p = a
  <2>1. pc'[b] = pc[b] /\ (Early(b)' <=> Early(b)) /\ pc'[a] = "read_fifo"
    BY <1>1, <1>2, <1>3, <1>7, SamePhase
  <2>2. \/ Early(b) /\ Hold(a, b, None, None)
        \/ pc[b] = "write_fifo" /\ Hold(a, b, <<>>, <<>>)
    BY <1>2, <1>3, <1>7 DEF Swap, Late
  <2>3. fifo'[<<a, b>>] = <<>> /\ fifo'[<<b, a>>] = <<>>
    BY <1>6, <2>2 DEF Hold
  <2>4. Hold(a, b, <<>>, <<>>)'
    BY <2>3 DEF Hold
  <2> QED
    BY <1>5, <2>1, <2>2, <2>4 DEF Swap
<1>8. CASE p = b
  <2>1. pc'[a] = pc[a] /\ (Early(a)' <=> Early(a)) /\ pc'[b] = "write_fifo"
    BY <1>1, <1>2, <1>3, <1>8, SamePhase
  <2>2. \/ Early(a) /\ Hold(a, b, None, None)
        \/ pc[a] = "read_fifo" /\ Hold(a, b, <<>>, <<>>)
    BY <1>2, <1>3, <1>8 DEF Swap, Late
  <2>3. fifo'[<<a, b>>] = <<>> /\ fifo'[<<b, a>>] = <<>>
    BY <1>6, <2>2 DEF Hold
  <2>4. Hold(a, b, <<>>, <<>>)'
    BY <2>3 DEF Hold
  <2> QED
    BY <1>5, <2>1, <2>2, <2>4 DEF Swap
<1> QED
  BY <1>1, <1>7, <1>8

(* One is written.                                                         *)
LEMMA WriteSwap ==
  ASSUME IInv, Exchanging, NEW p \in Services, WriteFifo(p), NEW a, NEW b,
         a = before.job.a, b = before.job.b
  PROVE  Swap(a, b)' /\ \A e \in Pairs \ {<<a, b>>, <<b, a>>} : fifo'[e] = None
<1>1. /\ frame[p].a = a /\ p \in {a, b} /\ (p = a => Peer(p) = b) /\ (p = b => Peer(p) = a)
      /\ \A r \in Services \ {p} : pc'[r] = pc[r]
      /\ \A x : Heard(x)' <=> Heard(x)
      /\ Heard(p) /\ secret[p] \in Services
  BY TalkFacts DEF Talks
<1>2. /\ <<a, b>> \in Pairs /\ <<b, a>> \in Pairs /\ a \in Services /\ b \in Services /\ a # b
      /\ <<a, b>> # <<b, a>>
      /\ Swap(a, b) /\ \A e \in Pairs \ {<<a, b>>, <<b, a>>} : fifo[e] = None
  BY SwapPair
<1>3. /\ pc[p] = "write_fifo" /\ pc[Peer(p)] = "read_fifo" /\ fifo[<<p, Peer(p)>>] # None
      /\ pc'[p] = IF p = a THEN "gather" ELSE "read_fifo"
  BY <1>1, Arrays DEF WriteFifo, Goto
<1>4. /\ fifo'[<<p, Peer(p)>>] = Append(fifo[<<p, Peer(p)>>], secret[p])
      /\ \A e \in Pairs \ {<<p, Peer(p)>>} : fifo'[e] = fifo[e]
  BY <1>1, <1>2, Arrays DEF WriteFifo
<1>5. \A e \in Pairs \ {<<a, b>>, <<b, a>>} : fifo'[e] = None
  BY <1>1, <1>2, <1>4
<1>6. Append(<<>>, secret[p]) = <<secret[p]>>
  OBVIOUS
<1>7. CASE p = a
  <2>1. pc'[b] = "read_fifo" /\ pc'[a] = "gather" /\ Late(a)'
    <3>1. pc'[b] = "read_fifo" /\ pc'[a] = "gather" /\ Heard(a)'
      BY <1>1, <1>2, <1>3, <1>7
    <3> QED
      BY <3>1 DEF Late, Opens
  <2>2. Hold(a, b, None, <<>>)
    <3>1. pc[a] = "write_fifo" /\ pc[b] = "read_fifo"
      BY <1>1, <1>3, <1>7
    <3> QED
      BY <1>2, <3>1 DEF Swap, Late, Early, Opens
  <2>3. fifo'[<<a, b>>] = <<secret[p]>> /\ fifo'[<<b, a>>] = None
    BY <1>1, <1>2, <1>4, <1>6, <1>7, <2>2 DEF Hold
  <2>4. PICK s : s = secret[p]
    OBVIOUS
  <2>5. fifo'[<<a, b>>] = <<s>> /\ fifo'[<<b, a>>] = None /\ s \in Services
    BY <1>1, <2>3, <2>4
  <2>6. Hold(a, b, None, <<s>>)'
    BY <2>5 DEF Hold
  <2> QED
    BY <1>5, <2>1, <2>5, <2>6 DEF Swap
<1>8. CASE p = b
  <2>1. pc'[b] = "read_fifo" /\ pc'[a] = "read_fifo"
    BY <1>1, <1>2, <1>3, <1>8
  <2>2. Hold(a, b, <<>>, <<>>)
    <3>1. pc[b] = "write_fifo" /\ pc[a] = "read_fifo"
      BY <1>1, <1>3, <1>8
    <3> QED
      BY <1>2, <3>1 DEF Swap, Late, Early, Opens
  <2>3. PICK s : s = secret[p]
    OBVIOUS
  <2>4. fifo'[<<b, a>>] = <<s>> /\ fifo'[<<a, b>>] = <<>> /\ s \in Services
    BY <1>1, <1>2, <1>4, <1>6, <1>8, <2>2, <2>3 DEF Hold
  <2>5. Hold(a, b, <<s>>, <<>>)'
    BY <2>4 DEF Hold
  <2> QED
    BY <1>5, <2>1, <2>4, <2>5 DEF Swap
<1> QED
  BY <1>1, <1>7, <1>8

-----------------------------------------------------------------------------
(* One is read.                                                            *)
LEMMA ReadSwap ==
  ASSUME IInv, Exchanging, NEW p \in Services, ReadFifo(p), NEW a, NEW b,
         a = before.job.a, b = before.job.b
  PROVE  Swap(a, b)' /\ \A e \in Pairs \ {<<a, b>>, <<b, a>>} : fifo'[e] = None
<1>1. /\ frame[p].a = a /\ p \in {a, b} /\ (p = a => Peer(p) = b) /\ (p = b => Peer(p) = a)
      /\ \A r \in Services \ {p} : pc'[r] = pc[r]
      /\ \A x : Heard(x)' <=> Heard(x)
      /\ Heard(p)
  BY TalkFacts DEF Talks
<1>2. /\ <<a, b>> \in Pairs /\ <<b, a>> \in Pairs /\ a \in Services /\ b \in Services /\ a # b
      /\ <<a, b>> # <<b, a>>
      /\ Swap(a, b) /\ \A e \in Pairs \ {<<a, b>>, <<b, a>>} : fifo[e] = None
  BY SwapPair
<1>3. /\ pc[p] = "read_fifo" /\ fifo[<<Peer(p), p>>] \notin {None, <<>>}
      /\ pc'[p] = IF p = a THEN "write_fifo" ELSE "gather"
  BY <1>1, Arrays DEF ReadFifo, Goto
<1>4. /\ fifo'[<<Peer(p), p>>] = None
      /\ \A e \in Pairs \ {<<Peer(p), p>>} : fifo'[e] = fifo[e]
  BY <1>1, <1>2, Arrays DEF ReadFifo
<1>5. \A e \in Pairs \ {<<a, b>>, <<b, a>>} : fifo'[e] = None
  BY <1>1, <1>2, <1>4
<1>6. CASE p = a
  <2>1. pc[b] = "read_fifo" /\ fifo[<<a, b>>] = <<>>
    <3>1. pc[a] = "read_fifo" /\ fifo[<<b, a>>] \notin {None, <<>>}
      BY <1>1, <1>3, <1>6
    <3> QED
      BY <1>2, <3>1 DEF Swap, Hold, Late, Early, Opens
  <2>2. pc'[a] = "write_fifo" /\ pc'[b] = "read_fifo"
    BY <1>1, <1>2, <1>3, <1>6, <2>1
  <2>3. Hold(a, b, None, <<>>)'
    BY <1>1, <1>2, <1>4, <1>6, <2>1 DEF Hold
  <2> QED
    BY <1>5, <2>2, <2>3 DEF Swap
<1>7. CASE p = b
  <2>1. Late(a) /\ fifo[<<b, a>>] = None
    <3>1. pc[b] = "read_fifo" /\ fifo[<<a, b>>] \notin {None, <<>>}
      BY <1>1, <1>3, <1>7
    <3> QED
      BY <1>2, <3>1 DEF Swap, Hold, Late, Early, Opens
  <2>2. Late(a)'
    BY <1>1, <1>2, <1>7, <2>1, SamePhase
  <2>3. Late(b)'
    <3>1. pc'[b] = "gather" /\ Heard(b)'
      BY <1>1, <1>2, <1>3, <1>7
    <3> QED
      BY <3>1 DEF Late, Opens
  <2>4. Hold(a, b, None, None)'
    BY <1>1, <1>2, <1>4, <1>7, <2>1 DEF Hold
  <2> QED
    BY <1>5, <2>2, <2>3, <2>4 DEF Swap
<1> QED
  BY <1>1, <1>6, <1>7

(* All other steps leave them alone.                                       *)
LEMMA OtherSwap ==
  ASSUME IInv, Exchanging, NEW p \in Services, ExchangeStep(p), ~Talks(p), NEW a, NEW b,
         a = before.job.a, b = before.job.b
  PROVE  Swap(a, b)' /\ \A e \in Pairs \ {<<a, b>>, <<b, a>>} : fifo'[e] = None
<1>1. Swap(a, b) /\ \A e \in Pairs \ {<<a, b>>, <<b, a>>} : fifo[e] = None
  BY SwapPair
<1>2. fifo' = fifo
  BY DEF ExchangeStep, Receive, CallChild, ExchangeAnswered, Answered, ExchangeEnds,
     GatherOne, GatherEnds, Gather
<1>3. /\ (Early(a) => Early(a)') /\ (Late(a) => Late(a)') /\ (pc[a] \in Opens => pc'[a] = pc[a])
      /\ (Early(b) => Early(b)') /\ (Late(b) => Late(b)') /\ (pc[b] \in Opens => pc'[b] = pc[b])
  BY Phases
<1>4. \A x, y : Hold(a, b, x, y) => Hold(a, b, x, y)'
  BY <1>2 DEF Hold
<1> QED
  BY <1>1, <1>2, <1>3, <1>4 DEF Swap, Opens

(* Nobody reads or writes, nothing is there to be read.                    *)
LEMMA NoneLeft ==
  ASSUME IInv, Alive, \A r \in Services : pc[r] \notin Opens
  PROVE  \A e \in Pairs : fifo[e] = None
<1>1. CASE ~Exchanging
  BY <1>1 DEF Alive, Fifos
<1>2. CASE Exchanging
  <2>1. PICK a, b : a = before.job.a /\ b = before.job.b
    OBVIOUS
  <2>2. /\ a \in Services /\ b \in Services /\ Swap(a, b)
        /\ \A e \in Pairs \ {<<a, b>>, <<b, a>>} : fifo[e] = None
    BY <1>2, <2>1, SwapPair
  <2>3. Hold(a, b, None, None)
    BY <2>2 DEF Swap, Opens
  <2> QED
    BY <2>2, <2>3 DEF Hold
<1> QED
  BY <1>1, <1>2

(* Every step keeps what the FIFOs hold.                                   *)
LEMMA FifosStep ==
  ASSUME IInv, Alive, pc[Manager] # "none", [Next]_vars, pc'[Manager] # "none"
  PROVE  Fifos'
<1>1. ASSUME NEW p \in Services, Step(p) PROVE Fifos'
  <2>1. CASE p = Manager /\ Finishes
    <3>1. \A r \in Services : pc[r] \notin Opens
      <4>1. \A r \in Services \ {Manager} : pc[r] \in {"none", "idle"}
        BY <2>1, OthersRest DEF Finishes, AtRest
      <4> QED
        BY <2>1, <4>1 DEF Finishes, Opens
    <3>2. \A e \in Pairs : fifo'[e] = None
      BY <2>1, <3>1, NoneLeft DEF Finishes
    <3>3. ~Exchanging'
      BY <2>1 DEF Finishes, Exchanging, Busy, Working, After
    <3> QED
      BY <3>2, <3>3 DEF Fifos
  <2>2. CASE GoesOn /\ Exchanging
    <3>1. PICK a, b : a = before.job.a /\ b = before.job.b
      OBVIOUS
    <3>2. ExchangeStep(p)
      BY <1>1, <2>2, ExchangeSteps
    <3>3. Swap(a, b)' /\ \A e \in Pairs \ {<<a, b>>, <<b, a>>} : fifo'[e] = None
      BY <2>2, <3>1, <3>2, MakeSwap, WriteSwap, ReadSwap, OtherSwap DEF Talks
    <3>4. before'.job.a = a /\ before'.job.b = b /\ Exchanging'
      BY <2>2, <3>1 DEF GoesOn, Exchanging
    <3> QED
      BY <3>3, <3>4 DEF Fifos
  <2>3. CASE GoesOn /\ ~Exchanging
    <3>1. ~Exchanging'
      BY <2>3 DEF GoesOn, Exchanging
    <3>2. ~Talks(p)
      <4> SUFFICES ASSUME Talks(p) PROVE FALSE
        OBVIOUS
      <4>1. pc[p] \in After \ {"gather"} /\ pc[p] \in Busy
        BY TalkDoes DEF Busy
      <4>2. frame[p].op = "exchange" /\ Does(frame[p])
        BY <4>1, PeerFacts, BusyFacts
      <4>3. before.job.op = "exchange" /\ p # Manager
        BY <2>3, <4>1, <4>2 DEF Does, Exchanging
      <4>4. pc[Manager] \notin Busy
        BY <2>3, <4>3 DEF Exchanging
      <4>5. pc[Manager] = "idle"
        <5>1. Manager \in Services
          OBVIOUS
        <5> QED
          BY <4>4, <5>1 DEF IInv, Typed, TypeOK, Alive, Busy, Working, After
      <4>6. pc[p] \in {"none", "idle"}
        BY <4>3, <4>5, OthersRest DEF AtRest
      <4> QED
        BY <4>1, <4>6 DEF After
    <3>3. fifo' = fifo
      BY <1>1, <3>2 DEF Step, Talks, Receive, Fork, Started, Handshake, CallChild,
         SpawnAnswered, KillAnswered, TerminateAnswered, ExchangeAnswered, Answered,
         LetChildSuicide, Reap, SpawnEnds, KillEnds, TerminateEnds, Suicide, ExchangeEnds,
         Gather, Orphaned
    <3> QED
      BY <2>3, <3>1, <3>3 DEF Alive, Fifos
  <2> QED
    BY <1>1, <2>1, <2>2, <2>3, GoesOnOrEnds
<1>2. ASSUME NEW cmd \in Tree!Commands(Running), ReadLine(cmd) PROVE Fifos'
  <2>0. PICK a, b : a = before'.job.a /\ b = before'.job.b
    OBVIOUS
  <2>1. /\ pc[Manager] = "idle" /\ Alive /\ cmd.op # "killall"
        /\ \A r \in Services \ {Manager} : pc[r] \in {"none", "idle"}
    BY <1>2, ReadLineFacts DEF AtRest
  <2>2. \A e \in Pairs : fifo'[e] = None
    <3>1. ~Exchanging /\ fifo' = fifo
      BY <1>2, <2>1 DEF Exchanging, Busy, Working, After, ReadLine
    <3> QED
      BY <3>1, <2>1 DEF Alive, Fifos
  <2>3. CASE ~Exchanging'
    BY <2>2, <2>3 DEF Fifos
  <2>4. CASE Exchanging'
    <3>1. a = cmd.a /\ b = cmd.b /\ cmd.op = "exchange"
      BY <1>2, <2>0, <2>4 DEF ReadLine, Exchanging
    <3>2. <<a, b>> \in Pairs /\ <<b, a>> \in Pairs /\ a \in Services /\ b \in Services
      <4>1. <<cmd.a, cmd.b>> \in Pairs
        BY <1>2, <3>1, ReadLineFacts DEF GoodOrder, Named, Msg
      <4> QED
        BY <3>1, <4>1 DEF Pairs
    <3>3. \A x : Heard(x)' <=> x = Manager
      <4>1. PICK w : w = <<"heard", Manager, cmd.op, cmd.a, cmd.b>>
        OBVIOUS
      <4>2. log' = <<w>>
        BY <1>2, <2>1, <4>1 DEF ReadLine, Echo, Msg
      <4>3. Len(log') = 1 /\ log'[1] = w /\ w[1] = "heard" /\ w[2] = Manager
        BY <4>1, <4>2
      <4> QED
        BY <4>3 DEF Heard
    <3>4. \A r \in Services \ {Manager} : pc'[r] \in {"none", "idle"}
      BY <1>2, <2>1, ReadLineDoes DEF Others, Same
    <3>5. pc'[Manager] = "loop"
      <4>1. cmd.op # "spawn"
        BY <3>1
      <4> QED
        BY <1>2, <4>1, ReadLineDoes DEF At, Place, Msg
    <3>6. ASSUME NEW x \in Services PROVE Early(x)'
      <4>1. CASE x = Manager
        BY <3>5, <4>1 DEF Early, Opens
      <4>2. CASE x # Manager
        <5>1. pc'[x] \in {"none", "idle"} /\ ~Heard(x)'
          BY <3>3, <3>4, <4>2
        <5> QED
          BY <5>1 DEF Early, Opens
      <4> QED
        BY <4>1, <4>2
    <3>7. Hold(a, b, None, None)'
      BY <2>2, <3>2 DEF Hold
    <3>8. Swap(a, b)'
      BY <3>2, <3>6, <3>7 DEF Swap
    <3> QED
      BY <2>0, <2>2, <2>4, <3>8 DEF Fifos
  <2> QED
    BY <2>3, <2>4
<1>3. ~StartManager /\ ~EndOfInput
  BY Arrays DEF StartManager, EndOfInput, Goto
<1>4. ASSUME vars' = vars PROVE Fifos'
  <2>1. pc' = pc /\ fifo' = fifo /\ before' = before /\ log' = log
    BY <1>4 DEF vars
  <2> QED
    BY <2>1 DEF Alive, Fifos, Exchanging, Swap, Early, Late, Hold, Heard
<1> QED
  BY <1>1, <1>2, <1>3, <1>4 DEF Next

-----------------------------------------------------------------------------
(* Types.                                                                  *)
Places   == {"none", "start", "idle", "fork", "spawning", "loop", "wait", "suicide", "reap",
             "agree", "zombie", "mkfifo", "read_fifo", "write_fifo", "gather"}
Messages == [op : {"spawn", "kill", "killall", "exchange", "agree"},
             a : Values, b : Values, found : {0, 1}]
Contents == {None, <<>>} \cup {<<s>> : s \in Services}

PcOK     == pc \in [Services -> Places]
KidsOK   == kids \in [Services -> Seq(Services \ {Manager})]
SecretOK == secret \in [Services -> Values]
DownOK   == down \in [Services -> Seq(Messages)]
UpOK     == up \in [Services -> Seq(Answers)]
FifoOK   == fifo \in [Pairs -> Contents]
FrameFun == frame = [p \in Services |-> frame[p]]
LogOK    == log \in Seq(Entries)

AllTyped == PcOK /\ KidsOK /\ SecretOK /\ DownOK /\ UpOK /\ FifoOK /\ FrameFun /\ LogOK

(* Typed, as a list of its parts.                                          *)
LEMMA TypedParts ==
  /\ Typed <=> AllTyped
  /\ Typed' <=> AllTyped'
BY DEF Typed, TypeOK, AllTyped, PcOK, KidsOK, SecretOK, DownOK, UpOK, FifoOK, FrameFun, LogOK,
       Places, Messages, Answers, Contents

(* What each of the operators of the actions does to the types.            *)
LEMMA GotoTyped ==
  ASSUME PcOK, NEW p, NEW l \in Places, Goto(p, l) PROVE PcOK'
BY DEF PcOK, Goto

(* Other local variables.                                                  *)
LEMMA SetTyped ==
  ASSUME FrameFun, NEW p, NEW f, Set(p, f) PROVE FrameFun'
BY DEF FrameFun, Set

(* A message.                                                              *)
LEMMA SendTyped ==
  ASSUME DownOK, NEW c, NEW m \in Messages, Send(c, m) PROVE DownOK'
<1>1. \A s \in Seq(Messages) : Append(s, m) \in Seq(Messages)
  OBVIOUS
<1> QED
  BY <1>1 DEF DownOK, Send

(* One message or answer less.                                             *)
LEMMA DrainTyped ==
  ASSUME NEW c
  PROVE  /\ DownOK /\ down[c] # <<>> /\ Drain(down, c) => DownOK'
         /\ UpOK /\ up[c] # <<>> /\ Drain(up, c) => UpOK'
<1>1. \A s \in Seq(Messages) : s # <<>> => Tail(s) \in Seq(Messages)
  OBVIOUS
<1>2. \A s \in Seq(Answers) : s # <<>> => Tail(s) \in Seq(Answers)
  OBVIOUS
<1> QED
  BY <1>1, <1>2 DEF DownOK, UpOK, Drain

(* An answer.                                                              *)
LEMMA ReplyTyped ==
  ASSUME UpOK, NEW p, NEW s \in 0..2, NEW n \in 0..255, Reply(p, s, n) PROVE UpOK'
<1> DEFINE r == [status |-> s, n |-> n]
<1>1. r \in Answers
  BY DEF Answers
<1>2. up' = [up EXCEPT ![p] = Append(@, r)]
  BY DEF Reply
<1> HIDE DEF r
<1>3. \A u \in Seq(Answers) : Append(u, r) \in Seq(Answers)
  BY <1>1
<1> QED
  BY <1>2, <1>3 DEF UpOK

(* An answer or a line of output.                                          *)
LEMMA ReportTyped ==
  ASSUME UpOK, LogOK, NEW p, NEW s \in 0..2, NEW n \in 0..255, NEW w \in Entries,
         Report(p, s, n, w)
  PROVE  UpOK' /\ LogOK'
<1>1. CASE p = Manager /\ log' = Append(log, w) /\ up' = up
  BY <1>1 DEF UpOK, LogOK
<1>2. CASE Reply(p, s, n) /\ log' = log
  BY <1>2, ReplyTyped DEF LogOK
<1> QED
  BY <1>1, <1>2 DEF Report

(* The line that shows what was read.                                      *)
LEMMA EchoTyped ==
  ASSUME NEW p \in Services, NEW m, GoodOrder(m) PROVE Echo(p, m) \in Seq(Entries)
<1>1. CASE m.op = "killall"
  BY <1>1 DEF Echo
<1>2. CASE m.op # "killall"
  <2> DEFINE w == <<"heard", p, m.op, m.a, m.b>>
  <2>1. w \in Entries
    <3>1. <<p, m.op, m.a, m.b>> \in Services \X Ops \X Values \X Values
      BY DEF GoodOrder
    <3>2. \E x \in Services \X Ops \X Values \X Values : w = <<"heard", x[1], x[2], x[3], x[4]>>
      BY <3>1
    <3> HIDE DEF w
    <3> QED
      BY <3>2 DEF Entries
  <2>2. Echo(p, m) = <<w>>
    BY <1>2 DEF Echo
  <2> HIDE DEF w
  <2> QED
    BY <2>1, <2>2
<1> QED
  BY <1>1, <1>2

(* What is printed at the end of a command.                                *)
LEMMA WordsTyped ==
  ASSUME NEW f \in Frames, Named(f), NEW p \in Services
  PROVE  /\ <<"created", p>> \in Entries
         /\ f.op = "spawn" => <<"spawned", f.a, f.b>> \in Entries
         /\ f.op = "kill" => <<"killed", f.a, f.n>> \in Entries
         /\ <<"killed", p, f.n>> \in Entries
         /\ f.op \in {"spawn", "kill", "exchange"} => <<"missing", f.a>> \in Entries
         /\ f.op = "exchange" => <<"exchanged", f.a, f.b>> \in Entries
<1>1. /\ f.op = "spawn" => f.a \in Services /\ f.b \in Services
      /\ f.op = "kill" => f.a \in Services
      /\ f.op = "exchange" => f.a \in Services /\ f.b \in Services
      /\ f.n \in 0..255
  BY DEF Named, Pairs, Frames
<1> QED
  BY <1>1 DEF Entries

-----------------------------------------------------------------------------
(* What is unchanged keeps its type.                                       *)
LEMMA SameTyped ==
  /\ PcOK /\ pc' = pc => PcOK'
  /\ KidsOK /\ kids' = kids => KidsOK'
  /\ SecretOK /\ secret' = secret => SecretOK'
  /\ DownOK /\ down' = down => DownOK'
  /\ UpOK /\ up' = up => UpOK'
  /\ FifoOK /\ fifo' = fifo => FifoOK'
  /\ FrameFun /\ frame' = frame => FrameFun'
  /\ LogOK /\ log' = log => LogOK'
BY DEF PcOK, KidsOK, SecretOK, DownOK, UpOK, FifoOK, FrameFun, LogOK

(* A command taken up.                                                     *)
LEMMA DispatchTyped ==
  ASSUME AllTyped, NEW p \in Services, NEW m, Dispatch(p, m)
  PROVE  PcOK' /\ FrameFun'
<1>1. \E l \in Places : \E f : Goto(p, l) /\ Set(p, f)
  BY DEF Dispatch, Places
<1> QED
  BY <1>1, GotoTyped, SetTyped DEF AllTyped

(* Every step keeps the types: a command is read.                          *)
LEMMA TypedEnter ==
  ASSUME IInv, \/ \E cmd \in Tree!Commands(Running) : ReadLine(cmd)
               \/ \E p \in Services : Receive(p)
  PROVE  AllTyped'
<1>0. AllTyped
  BY TypedParts DEF IInv
<1>1. ASSUME NEW cmd \in Tree!Commands(Running), ReadLine(cmd) PROVE AllTyped'
  <2>1. PICK m : m = Msg(cmd.op, cmd.a, cmd.b, 0)
    OBVIOUS
  <2>2. GoodOrder(m)
    BY <1>1, <2>1, ReadLineFacts
  <2>3. PcOK' /\ FrameFun'
    BY <1>0, <1>1, <2>1, DispatchTyped DEF ReadLine
  <2>4. log' = Echo(Manager, m)
    BY <1>1, <2>1 DEF ReadLine
  <2>5. LogOK'
    BY <2>2, <2>4, EchoTyped DEF LogOK
  <2> QED
    BY <1>0, <1>1, <2>3, <2>5, SameTyped DEF AllTyped, ReadLine
<1>2. ASSUME NEW p \in Services, Receive(p) PROVE AllTyped'
  <2>1. PICK m : m = Head(down[p])
    OBVIOUS
  <2>2. GoodOrder(m)
    BY <1>2, <2>1, ReceiveOrder
  <2>3. PcOK' /\ FrameFun'
    BY <1>0, <1>2, <2>1, DispatchTyped DEF Receive
  <2>4. log' = log \o Echo(p, m) /\ log \in Seq(Entries) /\ Echo(p, m) \in Seq(Entries)
    BY <1>0, <1>2, <2>1, <2>2, EchoTyped DEF Receive, AllTyped, LogOK
  <2>5. LogOK'
    BY <2>4, ConcatProperties DEF LogOK
  <2>6. DownOK'
    BY <1>0, <1>2, DrainTyped DEF Receive, AllTyped
  <2> QED
    BY <1>0, <1>2, <2>3, <2>5, <2>6, SameTyped DEF AllTyped, Receive
<1> QED
  BY <1>1, <1>2

(* A child is made.                                                        *)
LEMMA TypedSpawn ==
  ASSUME IInv, NEW p \in Services, Fork(p) \/ Started(p) \/ Handshake(p)
  PROVE  AllTyped'
<1>0. AllTyped
  BY TypedParts DEF IInv
<1>1. CASE Fork(p)
  <2>0. PICK c : c = frame[p].b
    OBVIOUS
  <2>1. c \in Services
    BY <1>1, <2>0, ForkDoes
  <2>2. /\ pc' = [pc EXCEPT ![p] = "spawning", ![c] = "start"]
        /\ secret' = [secret EXCEPT ![c] = c]
        /\ kids' = [kids EXCEPT ![c] = <<>>]
        /\ down' = [down EXCEPT ![c] = <<>>] /\ up' = [up EXCEPT ![c] = <<>>]
        /\ frame' = frame /\ fifo' = fifo /\ log' = log
    BY <1>1, <2>0 DEF Fork
  <2>3. PcOK'
    BY <1>0, <2>2 DEF AllTyped, PcOK, Places
  <2>4. SecretOK'
    BY <1>0, <2>1, <2>2 DEF AllTyped, SecretOK, Values
  <2>5. KidsOK' /\ DownOK' /\ UpOK'
    <3>1. KidsOK'
      <4>1. <<>> \in Seq(Services \ {Manager})
        OBVIOUS
      <4> QED
        BY <1>0, <2>2, <4>1 DEF AllTyped, KidsOK
    <3>2. DownOK'
      <4>1. <<>> \in Seq(Messages)
        OBVIOUS
      <4> QED
        BY <1>0, <2>2, <4>1 DEF AllTyped, DownOK
    <3>3. UpOK'
      <4>1. <<>> \in Seq(Answers)
        OBVIOUS
      <4> QED
        BY <1>0, <2>2, <4>1 DEF AllTyped, UpOK
    <3> QED
      BY <3>1, <3>2, <3>3
  <2> QED
    BY <1>0, <2>2, <2>3, <2>4, <2>5, SameTyped DEF AllTyped
<1>2. CASE Started(p)
  <2>1. PcOK'
    BY <1>0, <1>2, GotoTyped DEF Started, AllTyped, Places
  <2>2. UpOK'
    BY <1>0, <1>2, ReplyTyped DEF Started, AllTyped
  <2>3. LogOK'
    <3>1. PICK w : w = <<"created", p>>
      OBVIOUS
    <3>2. w \in Entries
      BY <3>1 DEF Entries
    <3>3. log' = Append(log, w)
      BY <1>2, <3>1 DEF Started
    <3> QED
      BY <1>0, <3>2, <3>3 DEF AllTyped, LogOK
  <2> QED
    BY <1>0, <1>2, <2>1, <2>2, <2>3, SameTyped DEF AllTyped, Started
<1>3. CASE Handshake(p)
  <2>0. PICK c : c = frame[p].b
    OBVIOUS
  <2>1. c \in Services \ {Manager}
    BY <1>3, <2>0, MadeChild DEF Handshake
  <2>2. kids' = [kids EXCEPT ![p] = Append(@, c)]
    BY <1>3, <2>0 DEF Handshake, AddKid
  <2>3. KidsOK'
    <3>1. \A s \in Seq(Services \ {Manager}) : Append(s, c) \in Seq(Services \ {Manager})
      BY <2>1
    <3> QED
      BY <1>0, <2>2, <3>1 DEF AllTyped, KidsOK
  <2>4. PcOK' /\ FrameFun'
    BY <1>0, <1>3, GotoTyped, SetTyped DEF Handshake, AllTyped, Places
  <2>5. UpOK'
    BY <1>0, <1>3, DrainTyped DEF Handshake, AllTyped
  <2> QED
    BY <1>0, <1>3, <2>3, <2>4, <2>5, SameTyped DEF AllTyped, Handshake
<1> QED
  BY <1>1, <1>2, <1>3

(* The loops over the children.                                            *)
LEMMA TypedLoop ==
  ASSUME IInv, NEW p \in Services,
         CallChild(p) \/ Answer(p) \/ LetChildSuicide(p) \/ Reap(p)
  PROVE  AllTyped'
<1>0. AllTyped
  BY TypedParts DEF IInv
<1>1. CASE CallChild(p)
  <2>1. PICK m : m = Order(frame[p])
    OBVIOUS
  <2>2. m \in Messages
    <3>1. pc[p] \in Busy /\ pc[p] = "loop" /\ MoreKids(p)
      BY <1>1 DEF CallChild, Busy, Working
    <3>2. FrameOK(p, "loop", frame[p], kids[p])
      BY <3>1, BusyFacts
    <3>3. FrameOK(p, "wait", frame[p], kids[p])
      BY <3>1, <3>2, PlaceOK DEF MoreKids
    <3>4. GoodOrder(m)
      BY <2>1, <3>3, OrderGood
    <3> QED
      BY <3>4 DEF GoodOrder, Messages, Ops
  <2>3. Send(Child(p), m)
    BY <1>1, <2>1 DEF CallChild, Order
  <2>4. DownOK'
    BY <1>0, <2>2, <2>3, SendTyped DEF AllTyped
  <2>5. PcOK'
    BY <1>0, <1>1, GotoTyped DEF CallChild, AllTyped, Places
  <2> QED
    BY <1>0, <1>1, <2>4, <2>5, SameTyped DEF AllTyped, CallChild
<1>2. CASE Answer(p)
  <2>1. PICK l, f : Goto(p, l) /\ Set(p, f) /\ l \in Places
    BY <1>2 DEF Answer, SpawnAnswered, KillAnswered, TerminateAnswered, ExchangeAnswered, Places
  <2>2. /\ Drain(up, Child(p)) /\ up[Child(p)] # <<>>
        /\ kids' = kids /\ secret' = secret /\ down' = down /\ fifo' = fifo /\ log' = log
    BY <1>2 DEF Answer, SpawnAnswered, KillAnswered, TerminateAnswered, ExchangeAnswered, Answered
  <2>3. PcOK' /\ FrameFun' /\ UpOK'
    BY <1>0, <2>1, <2>2, GotoTyped, SetTyped, DrainTyped DEF AllTyped
  <2> QED
    BY <1>0, <2>2, <2>3, SameTyped DEF AllTyped
<1>3. CASE LetChildSuicide(p)
  <2>1. Agreed \in Messages
    BY DEF Agreed, Msg, Messages, Values
  <2>2. DownOK' /\ PcOK'
    BY <1>0, <1>3, <2>1, SendTyped, GotoTyped DEF LetChildSuicide, AllTyped, Places
  <2> QED
    BY <1>0, <1>3, <2>2, SameTyped DEF AllTyped, LetChildSuicide
<1>4. CASE Reap(p)
  <2>1. PICK c, list : c = Child(p) /\ list = RemoveAt(kids[p], frame[p].k)
    OBVIOUS
  <2>2. c \in Services /\ pc[p] \in Busy /\ frame[p].k \in 1..Len(kids[p]) /\ p \in Running /\ Alive
    BY <1>4, <2>1, CalledChild, BusyFacts
  <2>3. /\ pc' = [pc EXCEPT ![p] = "loop", ![c] = "none"]
        /\ kids' = [kids EXCEPT ![p] = list]
    BY <1>4, <2>1 DEF Reap
  <2>4. list \in Seq(Services \ {Manager})
    <3>1. kids[p] \in Seq(Services \ {Manager}) /\ Unique(kids[p])
      BY <1>0, <2>2 DEF AllTyped, KidsOK, Alive, Family
    <3> QED
      BY <2>1, <2>2, <3>1, Shorter
  <2>5. PcOK' /\ KidsOK'
    BY <1>0, <2>3, <2>4 DEF AllTyped, PcOK, KidsOK, Places
  <2> QED
    BY <1>0, <1>4, <2>5, SameTyped DEF AllTyped, Reap
<1> QED
  BY <1>1, <1>2, <1>3, <1>4

-----------------------------------------------------------------------------
(* What one prints who has come to the end of a command.                   *)
LEMMA EndWords ==
  ASSUME IInv, NEW p \in Services, pc[p] \in {"loop", "gather"}
  PROVE  /\ frame[p].n \in 0..255
         /\ frame[p].op = "exchange" => frame[p].n \in 0..2
         /\ frame[p].op = "spawn" => <<"spawned", frame[p].a, frame[p].b>> \in Entries
         /\ frame[p].op = "kill" => <<"killed", frame[p].a, frame[p].n>> \in Entries
         /\ <<"killed", p, frame[p].n>> \in Entries
         /\ frame[p].op \in {"spawn", "kill", "exchange"} => <<"missing", frame[p].a>> \in Entries
         /\ frame[p].op = "exchange" => <<"exchanged", frame[p].a, frame[p].b>> \in Entries
<1>1. pc[p] \in Busy
  BY DEF Busy, Working, After
<1>2. frame[p] \in Frames /\ Named(frame[p]) /\ Counted(frame[p])
  BY <1>1, BusyFacts DEF FrameOK
<1>3. frame[p].n \in 0..255
  BY <1>2 DEF Frames
<1>4. frame[p].op = "exchange" => frame[p].n \in 0..2
  <2>1. \A n \in 0..255 : n <= 2 => n \in 0..2
    OBVIOUS
  <2> QED
    BY <1>2, <1>3, <2>1 DEF Counted
<1> QED
  BY <1>2, <1>3, <1>4, WordsTyped

(* Back to the main loop.                                                  *)
LEMMA ReturnTyped ==
  ASSUME PcOK, FrameFun, NEW p, Return(p) PROVE PcOK' /\ FrameFun'
BY GotoTyped, SetTyped DEF Return, Places

(* A command comes to its end.                                             *)
LEMMA TypedReturn ==
  ASSUME IInv, NEW p \in Services, ReturnEnds(p) \/ GatherEnds(p)
  PROVE  AllTyped'
<1>0. AllTyped
  BY TypedParts DEF IInv
<1>1. PICK s \in 0..2, n \in 0..255, w \in Entries : Report(p, s, n, w)
  <2>1. CASE SpawnEnds(p)
    <3>1. pc[p] = "loop" /\ frame[p].op = "spawn"
      BY <2>1 DEF SpawnEnds, Ended
    <3>2. PICK v \in Entries, u \in Entries : v = <<"spawned", frame[p].a, frame[p].b>>
                                              /\ u = <<"missing", frame[p].a>>
      BY <3>1, EndWords
    <3>3. Report(p, 1, 0, v) \/ Report(p, 0, 0, u)
      BY <2>1, <3>2 DEF SpawnEnds
    <3> QED
      BY <3>3
  <2>2. CASE KillEnds(p)
    <3>1. pc[p] = "loop" /\ frame[p].op = "kill"
      BY <2>2 DEF KillEnds, Ended
    <3>2. PICK v \in Entries, u \in Entries : v = <<"killed", frame[p].a, frame[p].n>>
                                              /\ u = <<"missing", frame[p].a>>
      BY <3>1, EndWords
    <3>3. Report(p, 1, frame[p].n, v) \/ Report(p, 0, 0, u)
      BY <2>2, <3>2 DEF KillEnds
    <3>4. frame[p].n \in 0..255
      BY <3>1, EndWords
    <3> QED
      BY <3>3, <3>4
  <2>3. CASE GatherEnds(p)
    <3>1. pc[p] = "gather" /\ frame[p].op = "exchange"
      <4>1. pc[p] = "gather" /\ pc[p] \in Busy /\ pc[p] \in After
        BY <2>3 DEF GatherEnds, Gather, Busy, After
      <4> QED
        BY <4>1, BusyFacts DEF FrameOK, Stands
    <3>2. PICK v \in Entries : v = <<"exchanged", frame[p].a, frame[p].b>>
      BY <3>1, EndWords
    <3>3. Report(p, 0, 0, v)
      BY <2>3, <3>2 DEF GatherEnds, Gather
    <3> QED
      BY <3>3
  <2> QED
    BY <2>1, <2>2, <2>3 DEF ReturnEnds
<1>2. UpOK' /\ LogOK'
  BY <1>0, <1>1, ReportTyped DEF AllTyped
<1>3. Return(p) /\ kids' = kids /\ secret' = secret /\ down' = down /\ fifo' = fifo
  BY DEF ReturnEnds, SpawnEnds, KillEnds, GatherEnds, Gather
<1> QED
  BY <1>0, <1>2, <1>3, ReturnTyped, SameTyped DEF AllTyped

(* A process ends, or has counted the names it found.                      *)
LEMMA TypedEnds ==
  ASSUME IInv, NEW p \in Services, TerminateEnds(p) \/ Suicide(p) \/ ExchangeEnds(p)
  PROVE  AllTyped'
<1>0. AllTyped
  BY TypedParts DEF IInv
<1>1. CASE TerminateEnds(p)
  <2>1. pc[p] = "loop" /\ kids' = kids /\ down' = down /\ fifo' = fifo
    BY <1>1 DEF TerminateEnds, Ended
  <2>2. PICK n \in 0..255, w \in Entries : n = frame[p].n /\ w = <<"killed", p, n>>
    BY <2>1, EndWords
  <2>3. Report(p, 2, n, w)
    BY <1>1, <2>2 DEF TerminateEnds
  <2>4. UpOK' /\ LogOK'
    <3>1. 2 \in 0..2
      OBVIOUS
    <3> QED
      BY <1>0, <2>3, <3>1, ReportTyped DEF AllTyped
  <2>5. CASE p = Manager
    <3>1. Goto(p, "none") /\ Set(p, Idle) /\ secret' = [secret EXCEPT ![p] = None]
      BY <1>1, <2>5 DEF TerminateEnds
    <3>2. SecretOK'
      BY <1>0, <3>1 DEF AllTyped, SecretOK, Values
    <3> QED
      BY <1>0, <2>1, <2>4, <3>1, <3>2, GotoTyped, SetTyped, SameTyped DEF AllTyped, Places
  <2>6. CASE p # Manager
    <3>1. Goto(p, "agree") /\ frame' = frame /\ secret' = secret
      BY <1>1, <2>6 DEF TerminateEnds
    <3> QED
      BY <1>0, <2>1, <2>4, <3>1, GotoTyped, SameTyped DEF AllTyped, Places
  <2> QED
    BY <2>5, <2>6
<1>2. CASE Suicide(p)
  <2>1. Goto(p, "zombie") /\ Set(p, Idle) /\ secret' = [secret EXCEPT ![p] = None]
        /\ kids' = kids /\ up' = up /\ fifo' = fifo /\ log' = log
    BY <1>2 DEF Suicide
  <2>2. SecretOK'
    BY <1>0, <2>1 DEF AllTyped, SecretOK, Values
  <2>3. DownOK'
    BY <1>0, <1>2, DrainTyped DEF Suicide, AllTyped
  <2> QED
    BY <1>0, <2>1, <2>2, <2>3, GotoTyped, SetTyped, SameTyped DEF AllTyped, Places
<1>3. CASE ExchangeEnds(p)
  <2>1. pc[p] = "loop" /\ frame[p].op = "exchange"
        /\ kids' = kids /\ secret' = secret /\ down' = down /\ fifo' = fifo
    BY <1>3 DEF ExchangeEnds, Ended
  <2>2. PICK n \in 0..2, w \in Entries : n = frame[p].n /\ w = <<"missing", frame[p].a>>
    BY <2>1, EndWords
  <2>3. (up' = up /\ log' = log) \/ Report(p, n, 0, w)
    BY <1>3, <2>2 DEF ExchangeEnds
  <2>4. UpOK' /\ LogOK'
    <3>1. 0 \in 0..255
      OBVIOUS
    <3> QED
      BY <1>0, <2>3, <3>1, ReportTyped, SameTyped DEF AllTyped
  <2>5. CASE frame[p].n = 0
    <3>1. Return(p)
      BY <1>3, <2>5 DEF ExchangeEnds
    <3> QED
      BY <1>0, <2>1, <2>4, <3>1, ReturnTyped, SameTyped DEF AllTyped
  <2>6. CASE frame[p].n # 0
    <3>1. PICK l \in Places : Goto(p, l) /\ frame' = frame
      BY <1>3, <2>6 DEF ExchangeEnds, Places
    <3> QED
      BY <1>0, <2>1, <2>4, <3>1, GotoTyped, SameTyped DEF AllTyped
  <2> QED
    BY <2>5, <2>6
<1> QED
  BY <1>1, <1>2, <1>3

-----------------------------------------------------------------------------
(* Who writes finds an empty FIFO: the two have opened it at the same      *)
(* stage.                                                                  *)
LEMMA WriteFinds ==
  ASSUME IInv, NEW p \in Services, WriteFifo(p)
  PROVE  /\ <<p, Peer(p)>> \in Pairs /\ fifo[<<p, Peer(p)>>] = <<>>
         /\ secret[p] \in Services
         /\ p = frame[p].a => frame[p].got \in Services
<1>0. pc[p] = "write_fifo" /\ pc[p] \in Busy /\ pc[p] \in After \ {"gather"}
  BY DEF WriteFifo, Busy, After
<1>1. Alive /\ p \in Running /\ pc[Manager] # "none" /\ FrameOK(p, pc[p], frame[p], kids[p])
  BY <1>0, BusyFacts
<1>2. Exchanging
  <2>1. ~(pc[Manager] = "idle")
    <3> SUFFICES ASSUME pc[Manager] = "idle" PROVE FALSE
      OBVIOUS
    <3>1. p # Manager
      BY <1>0
    <3>2. pc[p] \in {"none", "idle"}
      BY <1>1, <3>1, OthersRest DEF AtRest
    <3> QED
      BY <1>0, <3>2
  <2>2. pc[Manager] \in Busy
    <3>1. Manager \in Services
      OBVIOUS
    <3> QED
      BY <1>1, <2>1, <3>1 DEF IInv, Typed, TypeOK, Alive, Busy, Working, After
  <2>3. frame[p].op = "exchange" /\ Does(frame[p])
    BY <1>0, BusyFacts, PeerFacts
  <2> QED
    BY <2>2, <2>3 DEF Exchanging, Does
<1>3. PICK a, b : a = before.job.a /\ b = before.job.b
  OBVIOUS
<1>4. /\ frame[p].a = a /\ p \in {a, b} /\ (p = a => Peer(p) = b) /\ (p = b => Peer(p) = a)
      /\ secret[p] \in Services
  BY <1>2, <1>3, TalkFacts DEF Talks
<1>5. Swap(a, b) /\ a # b
  BY <1>2, <1>3, SwapPair
<1>6. pc[p] = "write_fifo" /\ pc[Peer(p)] = "read_fifo"
  BY DEF WriteFifo
<1>7. fifo[<<p, Peer(p)>>] = <<>>
  <2>1. CASE p = a
    <3>1. pc[a] = "write_fifo" /\ pc[b] = "read_fifo"
      BY <1>4, <1>6, <2>1
    <3>2. Hold(a, b, None, <<>>)
      BY <1>5, <3>1 DEF Swap, Late, Early, Opens
    <3> QED
      BY <1>4, <2>1, <3>2 DEF Hold
  <2>2. CASE p = b
    <3>1. pc[b] = "write_fifo" /\ pc[a] = "read_fifo"
      BY <1>4, <1>6, <2>2
    <3>2. Hold(a, b, <<>>, <<>>)
      BY <1>5, <3>1 DEF Swap, Late, Early, Opens
    <3> QED
      BY <1>4, <2>2, <3>2 DEF Hold
  <2> QED
    BY <1>4, <2>1, <2>2
<1>8. p = frame[p].a => frame[p].got \in Services
  BY <1>0, <1>1 DEF FrameOK, Stands
<1> QED
  BY <1>0, <1>4, <1>7, <1>8, PeerFacts

(* The two exchange secrets.                                               *)
LEMMA TypedTalk ==
  ASSUME IInv, NEW p \in Services, Talks(p)
  PROVE  AllTyped'
<1>0. AllTyped
  BY TypedParts DEF IInv
<1>1. CASE MakeFifos(p)
  <2>1. PICK l \in Places : Goto(p, l)
    BY <1>1 DEF MakeFifos, Places
  <2>2. FifoOK'
    BY <1>0, <1>1 DEF MakeFifos, AllTyped, FifoOK, Contents
  <2> QED
    BY <1>0, <1>1, <2>1, <2>2, GotoTyped, SameTyped DEF AllTyped, MakeFifos
<1>2. CASE WriteFifo(p)
  <2>1. PICK l \in Places : Goto(p, l)
    BY <1>2 DEF WriteFifo, Places
  <2>2. PICK e \in Pairs, s \in Services : e = <<p, Peer(p)>> /\ s = secret[p] /\ fifo[e] = <<>>
    BY <1>2, WriteFinds
  <2>3. fifo' = [fifo EXCEPT ![e] = Append(@, s)]
    BY <1>2, <2>2 DEF WriteFifo
  <2>4. FifoOK'
    <3>1. Append(<<>>, s) = <<s>>
      OBVIOUS
    <3>2. Append(fifo[e], s) \in Contents
      BY <2>2, <3>1 DEF Contents
    <3> QED
      BY <1>0, <2>3, <3>2 DEF AllTyped, FifoOK
  <2>5. SecretOK'
    <3>1. CASE p = frame[p].a
      <4>1. secret' = [secret EXCEPT ![p] = frame[p].got] /\ frame[p].got \in Services
        BY <1>2, <3>1, WriteFinds DEF WriteFifo
      <4> QED
        BY <1>0, <4>1 DEF AllTyped, SecretOK, Values
    <3>2. CASE p # frame[p].a
      <4>1. secret' = secret
        BY <1>2, <3>2 DEF WriteFifo
      <4> QED
        BY <1>0, <4>1, SameTyped DEF AllTyped
    <3> QED
      BY <3>1, <3>2
  <2> QED
    BY <1>0, <1>2, <2>1, <2>4, <2>5, GotoTyped, SameTyped DEF AllTyped, WriteFifo
<1>3. CASE ReadFifo(p)
  <2>0. pc[p] = "read_fifo" /\ pc[p] \in After \ {"gather"}
    BY <1>3 DEF ReadFifo, After
  <2>1. PICK l \in Places : Goto(p, l)
    BY <1>3 DEF ReadFifo, Places
  <2>2. PICK q \in Services, e \in Pairs, s \in Services :
          q = Peer(p) /\ e = <<Peer(p), p>> /\ s = Head(fifo[e])
    BY <1>3, <2>0, PeerFacts, FifoHolds DEF ReadFifo
  <2>3. FifoOK'
    <3>1. fifo' = [fifo EXCEPT ![e] = None]
      BY <1>3, <2>2 DEF ReadFifo
    <3> QED
      BY <1>0, <3>1 DEF AllTyped, FifoOK, Contents
  <2>4. LogOK'
    <3>1. PICK w : w = <<"acquired", p, q, s>>
      OBVIOUS
    <3>2. w \in Entries
      <4>1. \E x \in Services \X Services \X Services : w = <<"acquired", x[1], x[2], x[3]>>
        <5>1. <<p, q, s>> \in Services \X Services \X Services
          BY <2>2
        <5> QED
          BY <3>1, <5>1
      <4> QED
        BY <4>1 DEF Entries
    <3>3. log' = Append(log, w)
      BY <1>3, <2>2, <3>1 DEF ReadFifo
    <3> QED
      BY <1>0, <3>2, <3>3 DEF AllTyped, LogOK
  <2>5. SecretOK' /\ FrameFun'
    <3>1. CASE p = frame[p].a
      <4>1. secret' = secret /\ Set(p, [frame[p] EXCEPT !.got = s])
        BY <1>3, <2>2, <3>1 DEF ReadFifo
      <4> QED
        BY <1>0, <4>1, SetTyped, SameTyped DEF AllTyped
    <3>2. CASE p # frame[p].a
      <4>1. secret' = [secret EXCEPT ![p] = s] /\ frame' = frame
        BY <1>3, <2>2, <3>2 DEF ReadFifo
      <4>2. SecretOK'
        BY <1>0, <4>1 DEF AllTyped, SecretOK, Values
      <4> QED
        BY <1>0, <4>1, <4>2, SameTyped DEF AllTyped
    <3> QED
      BY <3>1, <3>2
  <2> QED
    BY <1>0, <1>3, <2>1, <2>3, <2>4, <2>5, GotoTyped, SameTyped DEF AllTyped, ReadFifo
<1> QED
  BY <1>1, <1>2, <1>3 DEF Talks

(* Every step keeps the types.                                             *)
LEMMA TypedStep ==
  ASSUME IInv, [Next]_vars
  PROVE  Typed'
<1> SUFFICES AllTyped'
  BY TypedParts
<1>0. AllTyped
  BY TypedParts DEF IInv
<1>1. ASSUME NEW p \in Services, GatherOne(p) PROVE AllTyped'
  <2>1. /\ pc' = pc /\ log' = log /\ kids' = kids /\ secret' = secret /\ down' = down /\ fifo' = fifo
        /\ up[Head(frame[p].wait)] # <<>> /\ Drain(up, Head(frame[p].wait))
        /\ Set(p, [frame[p] EXCEPT !.wait = Tail(@)])
    BY <1>1 DEF GatherOne, Gather
  <2> QED
    BY <1>0, <2>1, DrainTyped, SetTyped, SameTyped DEF AllTyped
<1>2. ASSUME NEW p \in Services, Orphaned(p) PROVE AllTyped'
  BY <1>0, <1>2, GotoTyped, SameTyped DEF Orphaned, AllTyped, Places
<1>3. CASE EndOfInput
  BY <1>0, <1>3, GotoTyped, SameTyped DEF EndOfInput, AllTyped, Places
<1>4. CASE StartManager
  <2>1. KidsOK'
    <3>1. <<>> \in Seq(Services \ {Manager})
      OBVIOUS
    <3> QED
      BY <1>4, <3>1 DEF StartManager, KidsOK
  <2>2. SecretOK'
    BY <1>4 DEF StartManager, SecretOK, Values
  <2>3. LogOK'
    <3>1. PICK w : w = <<"created", Manager>>
      OBVIOUS
    <3>2. w \in Entries
      BY <3>1 DEF Entries
    <3>3. log' = <<w>>
      BY <1>4, <3>1 DEF StartManager
    <3> QED
      BY <3>2, <3>3 DEF LogOK
  <2> QED
    BY <1>0, <1>4, <2>1, <2>2, <2>3, GotoTyped, SameTyped DEF StartManager, AllTyped, Places
<1>5. CASE vars' = vars
  BY <1>0, <1>5, SameTyped DEF vars, AllTyped
<1>6. ASSUME NEW p \in Services, Step(p) PROVE AllTyped'
  BY <1>1, <1>2, <1>6, StepKinds, TypedEnter, TypedSpawn, TypedLoop, TypedReturn, TypedEnds,
     TypedTalk
<1> QED
  BY <1>3, <1>4, <1>5, <1>6, TypedEnter DEF Next

-----------------------------------------------------------------------------
(* Lives, for one process.                                                 *)
LivesAt(r) ==
    /\ pc[r] \notin {"none", "zombie"} => secret[r] \in Services
    /\ pc[r] = "none" \/ r = Manager => down[r] = <<>> /\ up[r] = <<>>

(* Who goes on keeps its secret or gets another, and its pipes are its     *)
(* own.                                                                    *)
LEMMA LivesMove ==
  ASSUME IInv, NEW r \in Services, pc[r] \notin {"none", "zombie"}, pc'[r] # "none",
         secret'[r] \in Services \cup {secret[r]},
         r = Manager => down'[r] = down[r] /\ up'[r] = up[r]
  PROVE  LivesAt(r)'
BY DEF IInv, Lives, LivesAt

(* The others are as they were.                                            *)
LEMMA LivesKept ==
  ASSUME IInv, NEW P, Others(P),
         \A r \in Services \ P : secret'[r] = secret[r],
         \A r \in P \cap Services : LivesAt(r)'
  PROVE  Lives'
<1>1. ASSUME NEW r \in Services PROVE LivesAt(r)'
  <2>1. CASE r \in P
    BY <2>1
  <2>2. CASE r \notin P
    BY <2>2 DEF IInv, Lives, LivesAt, Others, Same
  <2> QED
    BY <2>1, <2>2
<1> QED
  BY <1>1 DEF Lives, LivesAt

(* A step that reaches into the pipes of p and of a child.                 *)
LEMMA LivesTwo ==
  ASSUME IInv, NEW p \in Services, NEW c \in Services \ {Manager, p},
         pc[p] \notin {"none", "zombie"}, pc'[p] # "none",
         Pipe(p, down[p], up[p]), Others({p, c}), secret' = secret,
         pc[c] # "none", pc'[c] = pc[c]
  PROVE  Lives'
<1>1. LivesAt(p)'
  BY LivesMove DEF Pipe
<1>2. LivesAt(c)'
  BY DEF IInv, Lives, LivesAt
<1> QED
  BY <1>1, <1>2, LivesKept

(* A step of one process, whose secret stays.                              *)
LEMMA LivesOne ==
  ASSUME IInv, NEW p \in Services, pc[p] \notin {"none", "zombie"}, pc'[p] # "none",
         p = Manager => Pipe(p, down[p], up[p]), Others({p}), secret' = secret
  PROVE  Lives'
<1>1. LivesAt(p)'
  BY LivesMove DEF Pipe
<1> QED
  BY <1>1, LivesKept

(* Every step keeps Lives: a child is made.                                *)
LEMMA LivesSpawn ==
  ASSUME IInv, NEW p \in Services, Fork(p) \/ Started(p) \/ Handshake(p)
  PROVE  Lives'
<1>1. CASE Fork(p)
  <2>0. PICK c : c = frame[p].b
    OBVIOUS
  <2>1. /\ c \in Services \ {p} /\ pc'[p] = "spawning" /\ Pipe(p, down[p], up[p])
        /\ Pipe(c, <<>>, <<>>) /\ Others({p, c}) /\ pc[p] = "fork"
    BY <1>1, <2>0, ForkDoes DEF At, Fork
  <2>2. secret'[c] = c /\ \A r \in Services \ {c} : secret'[r] = secret[r]
    BY <1>1, <2>0, <2>1, Arrays DEF Fork
  <2>3. LivesAt(p)'
    BY <2>1, <2>2, LivesMove DEF Pipe
  <2>4. LivesAt(c)'
    BY <2>1, <2>2 DEF LivesAt, Pipe
  <2> QED
    BY <2>1, <2>2, <2>3, <2>4, LivesKept
<1>2. CASE Started(p)
  <2>1. pc[p] = "start" /\ pc'[p] = "idle" /\ Others({p}) /\ secret' = secret
    BY <1>2, StartedDoes DEF Started, At
  <2>2. p # Manager
    BY <2>1 DEF IInv, Alive
  <2> QED
    BY <2>1, <2>2, LivesOne
<1>3. CASE Handshake(p)
  <2>0. PICK c : c = frame[p].b
    OBVIOUS
  <2>1. pc[p] = "spawning" /\ c \in Services \ {Manager, p} /\ secret' = secret /\ up[c] # <<>>
    BY <1>3, <2>0, MadeChild DEF Handshake
  <2>2. /\ pc'[p] = "loop" /\ Pipe(p, down[p], up[p]) /\ pc'[c] = pc[c] /\ Others({p, c})
    BY <1>3, <2>0, <2>1, HandshakeDoes DEF At
  <2>3. pc[c] # "none"
    BY <2>1 DEF IInv, Lives
  <2> QED
    BY <2>1, <2>2, <2>3, LivesTwo
<1> QED
  BY <1>1, <1>2, <1>3

(* The loops over the children.                                            *)
LEMMA LivesLoop ==
  ASSUME IInv, NEW p \in Services,
         CallChild(p) \/ Answer(p) \/ LetChildSuicide(p) \/ Reap(p)
  PROVE  Lives'
<1>1. CASE CallChild(p) \/ LetChildSuicide(p)
  <2>0. PICK c : c = Child(p)
    OBVIOUS
  <2>1. /\ c \in Services \ {Manager, p} /\ secret' = secret
        /\ pc[p] \in {"loop", "suicide"} /\ pc[p] \in Busy /\ frame[p].k <= Len(kids[p])
    <3>1. frame[p].k \in 1..Len(kids[p]) => frame[p].k <= Len(kids[p])
      OBVIOUS
    <3> QED
      BY <1>1, <2>0, <3>1, CalledChild DEF CallChild, LetChildSuicide
  <2>2. /\ pc'[p] \in {"wait", "reap"} /\ Pipe(p, down[p], up[p]) /\ pc'[c] = pc[c]
        /\ Others({p, c})
    BY <1>1, <2>0, <2>1, CallChildDoes, LetChildSuicideDoes DEF At
  <2>3. pc[c] # "none"
    BY <2>0, <2>1, ChildFacts
  <2> QED
    BY <2>1, <2>2, <2>3, LivesTwo
<1>2. CASE Answer(p)
  <2>0. PICK c, r : c = Child(p) /\ r = Head(up[Child(p)])
    OBVIOUS
  <2>1. c \in Services \ {Manager, p} /\ secret' = secret
    BY <1>2, <2>0, AnswerOK DEF Answer, SpawnAnswered, KillAnswered, TerminateAnswered,
       ExchangeAnswered, Answered
  <2>2. /\ pc[p] = "wait" /\ up[c] # <<>> /\ pc'[p] = AnswerPlace(p, r)
        /\ Pipe(p, down[p], up[p]) /\ pc'[c] = pc[c] /\ Others({p, c})
    BY <1>2, <2>0, <2>1, AnswerDoes DEF At
  <2>3. pc[c] # "none" /\ pc'[p] # "none"
    BY <2>1, <2>2 DEF IInv, Lives, AnswerPlace
  <2> QED
    BY <2>1, <2>2, <2>3, LivesTwo
<1>3. CASE Reap(p)
  <2>0. PICK c : c = Child(p)
    OBVIOUS
  <2>1. /\ c \in Services \ {Manager, p} /\ secret' = secret /\ pc[p] = "reap"
        /\ pc[c] = "zombie" /\ pc[p] \in Busy /\ frame[p].k <= Len(kids[p])
    <3>1. frame[p].k \in 1..Len(kids[p]) => frame[p].k <= Len(kids[p])
      OBVIOUS
    <3> QED
      BY <1>3, <2>0, <3>1, CalledChild DEF Reap
  <2>2. /\ pc'[p] = "loop" /\ Pipe(p, down[p], up[p]) /\ pc'[c] = "none"
        /\ Pipe(c, down[c], up[c]) /\ Others({p, c})
    BY <1>3, <2>0, <2>1, ReapDoes DEF At
  <2>3. down[c] = <<>> /\ up[c] = <<>>
    <3>1. Linked(p, c)
      BY <2>0, <2>1, ChildFacts
    <3>2. Rel(pc[p], frame[p], kids[p], c) = "reap"
      BY <2>0, <2>1 DEF Rel, Child
    <3> QED
      BY <2>1, <3>1, <3>2 DEF Linked, Link, Going
  <2>4. LivesAt(p)' /\ LivesAt(c)'
    BY <2>1, <2>2, <2>3, LivesMove DEF LivesAt, Pipe
  <2> QED
    BY <2>1, <2>2, <2>4, LivesKept
<1> QED
  BY <1>1, <1>2, <1>3

(* A command comes to its end.                                             *)
LEMMA LivesEnds ==
  ASSUME IInv, NEW p \in Services,
         ReturnEnds(p) \/ TerminateEnds(p) \/ Suicide(p) \/ ExchangeEnds(p)
         \/ GatherOne(p) \/ GatherEnds(p)
  PROVE  Lives'
<1>1. CASE ReturnEnds(p) \/ GatherEnds(p) \/ ExchangeEnds(p)
  <2>1. secret' = secret
    BY <1>1 DEF ReturnEnds, SpawnEnds, KillEnds, GatherEnds, Gather, ExchangeEnds
  <2>2. /\ pc[p] \in {"loop", "gather"} /\ pc'[p] \in {"idle", "mkfifo", "gather"}
        /\ Others({p}) /\ (p = Manager => Pipe(p, down[p], up[p]))
    BY <1>1, ReturnDoes, GatherEndsDoes, CountDoes DEF At, CountPlace, Replied
  <2> QED
    BY <2>1, <2>2, LivesOne
<1>2. CASE TerminateEnds(p)
  <2>1. pc[p] = "loop" /\ Others({p}) /\ (p = Manager => Pipe(p, down[p], up[p]))
        /\ pc'[p] = IF p = Manager THEN "none" ELSE "agree"
    BY <1>2, TerminateDoes DEF At, Replied
  <2>2. CASE p = Manager
    <3>1. \A r \in Services \ {p} : secret'[r] = secret[r]
      BY <1>2, <2>2, Arrays DEF TerminateEnds
    <3>2. LivesAt(p)'
      BY <2>1, <2>2 DEF IInv, Lives, LivesAt, Pipe
    <3> QED
      BY <2>1, <3>1, <3>2, LivesKept
  <2>3. CASE p # Manager
    BY <1>2, <2>1, <2>3, LivesOne DEF TerminateEnds
  <2> QED
    BY <2>2, <2>3
<1>3. CASE Suicide(p)
  <2>1. pc[p] = "agree" /\ pc'[p] = "zombie" /\ Others({p})
    BY <1>3, SuicideDoes DEF At
  <2>2. p # Manager
    BY <2>1 DEF IInv, Alive
  <2>3. \A r \in Services \ {p} : secret'[r] = secret[r]
    BY <1>3, Arrays DEF Suicide
  <2>4. LivesAt(p)'
    BY <2>1, <2>2 DEF LivesAt
  <2> QED
    BY <2>1, <2>3, <2>4, LivesKept
<1>4. CASE GatherOne(p)
  <2>0. PICK c : c = Head(frame[p].wait)
    OBVIOUS
  <2>1. /\ pc[p] = "gather" /\ c \in Services \ {Manager, p} /\ up[c] # <<>> /\ secret' = secret
    BY <1>4, <2>0, GatheredChild DEF GatherOne, Gather
  <2>2. /\ pc'[p] = "gather" /\ Pipe(p, down[p], up[p]) /\ pc'[c] = pc[c] /\ Others({p, c})
    BY <1>4, <2>0, <2>1, GatherOneDoes DEF At
  <2>3. pc[c] # "none"
    BY <2>1 DEF IInv, Lives
  <2> QED
    BY <2>1, <2>2, <2>3, LivesTwo
<1> QED
  BY <1>1, <1>2, <1>3, <1>4

(* The two exchange secrets.                                               *)
LEMMA LivesTalk ==
  ASSUME IInv, NEW p \in Services, Talks(p)
  PROVE  Lives'
<1>1. /\ pc[p] \in After \ {"gather"} /\ pc'[p] \in After
      /\ Pipe(p, down[p], up[p]) /\ Others({p})
  BY TalkDoes DEF At
<1>2. secret'[p] \in Services \cup {secret[p]}
      /\ \A r \in Services \ {p} : secret'[r] = secret[r]
  <2>1. CASE MakeFifos(p)
    BY <2>1 DEF MakeFifos
  <2>2. CASE WriteFifo(p)
    <3>1. CASE p = frame[p].a
      <4>1. secret' = [secret EXCEPT ![p] = frame[p].got] /\ frame[p].got \in Services
        BY <2>2, <3>1, WriteFinds DEF WriteFifo
      <4> QED
        BY <4>1, Arrays
    <3>2. CASE p # frame[p].a
      BY <2>2, <3>2 DEF WriteFifo
    <3> QED
      BY <3>1, <3>2
  <2>3. CASE ReadFifo(p)
    <3>1. CASE p = frame[p].a
      BY <2>3, <3>1 DEF ReadFifo
    <3>2. CASE p # frame[p].a
      <4>1. PICK e \in Pairs, s \in Services : e = <<Peer(p), p>> /\ s = Head(fifo[e])
        BY <1>1, <2>3, PeerFacts, FifoHolds DEF ReadFifo
      <4>2. secret' = [secret EXCEPT ![p] = s]
        BY <2>3, <3>2, <4>1 DEF ReadFifo
      <4> QED
        BY <4>1, <4>2, Arrays
    <3> QED
      BY <3>1, <3>2
  <2> QED
    BY <2>1, <2>2, <2>3 DEF Talks
<1>3. LivesAt(p)'
  BY <1>1, <1>2, LivesMove DEF After, Pipe
<1> QED
  BY <1>1, <1>2, <1>3, LivesKept

(* Every step keeps Lives.                                                 *)
LEMMA LivesStep ==
  ASSUME IInv, [Next]_vars
  PROVE  Lives'
<1>1. ASSUME NEW p \in Services, Receive(p) PROVE Lives'
  <2>1. p # Manager /\ pc[p] = "idle" /\ secret' = secret
    BY <1>1 DEF Receive
  <2>2. pc'[p] \in {"fork", "loop"} /\ Others({p})
    BY <1>1, ReceiveDoes DEF At, Place
  <2> QED
    BY <2>1, <2>2, LivesOne
<1>2. ASSUME NEW cmd, ReadLine(cmd) PROVE Lives'
  <2>1. Manager \in Services /\ pc[Manager] = "idle" /\ secret' = secret
    BY <1>2 DEF ReadLine
  <2>2. /\ pc'[Manager] \in {"fork", "loop"} /\ Others({Manager})
        /\ Pipe(Manager, down[Manager], up[Manager])
    BY <1>2, ReadLineDoes DEF At, Place
  <2> QED
    BY <2>1, <2>2, LivesOne
<1>3. ASSUME NEW p \in Services, Orphaned(p) PROVE Lives'
  <2>1. /\ pc'[p] = "none" /\ (\A r \in Services \ {p} : pc'[r] = pc[r])
        /\ secret' = secret /\ down' = down /\ up' = up
    BY <1>3, Arrays DEF Orphaned, Goto
  <2>2. Leaving
    BY <1>3, NoOrphans DEF IInv
  <2>3. down[p] = <<>> /\ up[p] = <<>>
    BY <2>2 DEF Leaving
  <2> QED
    BY <2>1, <2>3 DEF IInv, Lives
<1>4. CASE EndOfInput
  <2>1. /\ \A r \in Services : pc'[r] = IF r = Manager THEN "none" ELSE pc[r]
        /\ secret' = secret /\ down' = down /\ up' = up
    BY <1>4, Arrays DEF EndOfInput, Goto
  <2> QED
    BY <2>1 DEF IInv, Lives
<1>5. CASE StartManager
  <2>1. /\ \A r \in Services : pc[r] = "none"
        /\ \A r \in Services : pc'[r] = IF r = Manager THEN "idle" ELSE "none"
        /\ secret'[Manager] = Manager /\ down' = down /\ up' = up
    BY <1>5, Arrays DEF StartManager, Goto
  <2> QED
    BY <2>1 DEF IInv, Lives
<1>6. CASE vars' = vars
  BY <1>6 DEF vars, IInv, Lives
<1>7. ASSUME NEW p \in Services, Step(p) PROVE Lives'
  BY <1>1, <1>3, <1>7, StepKinds, LivesSpawn, LivesLoop, LivesEnds, LivesTalk
<1> QED
  BY <1>2, <1>4, <1>5, <1>6, <1>7 DEF Next

-----------------------------------------------------------------------------
(* While the Manager reads its next line, no process takes a step.         *)
LEMMA IdleStill ==
  ASSUME IInv, Alive, pc[Manager] = "idle", NEW p \in Services
  PROVE  ~Step(p)
<1> SUFFICES ASSUME Step(p) PROVE FALSE
  OBVIOUS
<1>1. p # Manager => pc[p] = "none" \/ AtRest(pc[p], down[p], up[p])
  BY OthersRest
<1>2. pc[p] \in {"none", "idle"} /\ ~Receive(p) /\ ~Orphaned(p)
  BY <1>1, NoOrphans DEF AtRest, Receive
<1> QED
  BY <1>2 DEF Step, Fork, Started, Handshake, CallChild, SpawnAnswered, KillAnswered,
     TerminateAnswered, ExchangeAnswered, Answered, LetChildSuicide, Reap, SpawnEnds,
     KillEnds, TerminateEnds, Suicide, ExchangeEnds, Ended, MakeFifos, WriteFifo, ReadFifo,
     Gather

(* When it has left, the others can only leave.                            *)
LEMMA OnlyOrphans ==
  ASSUME Leaving, NEW p \in Services, Step(p)
  PROVE  Orphaned(p)
<1>1. pc[p] \in {"none", "idle"} /\ down[p] = <<>>
  BY DEF Leaving
<1> QED
  BY <1>1 DEF Step, Receive, Fork, Started, Handshake, CallChild, SpawnAnswered, KillAnswered,
     TerminateAnswered, ExchangeAnswered, Answered, LetChildSuicide, Reap, SpawnEnds,
     KillEnds, TerminateEnds, Suicide, ExchangeEnds, Ended, MakeFifos, WriteFifo, ReadFifo,
     Gather

(* The Manager itself ends a command that kills it, and no one else does.  *)
LEMMA ManagerEnds ==
  ASSUME IInv, Alive, pc[Manager] # "none", NEW p \in Services, Step(p), pc'[Manager] = "none"
  PROVE  p = Manager /\ TerminateEnds(p)
<1>1. ASSUME NEW c \in Services \ {Manager, p}, Others({p, c}) PROVE p = Manager
  BY <1>1 DEF Others, Same
<1>2. Others({p}) => p = Manager
  BY DEF Others, Same
<1>3. CASE Fork(p)
  <2>0. PICK c : c = frame[p].b
    OBVIOUS
  <2>1. c \in Services \ {p} /\ Others({p, c}) /\ pc'[p] = "spawning" /\ pc[c] = "none"
    BY <1>3, <2>0, ForkDoes DEF At, Fork
  <2> QED
    BY <1>1, <2>1
<1>4. CASE Handshake(p)
  <2>1. frame[p].b \in Services \ {Manager, p}
    BY <1>4, MadeChild DEF Handshake
  <2>2. p = Manager
    BY <1>1, <1>4, <2>1, HandshakeDoes
  <2> QED
    BY <1>4, <2>1, <2>2, HandshakeDoes DEF At
<1>5. CASE CallChild(p) \/ LetChildSuicide(p) \/ Reap(p)
  <2>1. Child(p) \in Services \ {Manager, p}
    BY <1>5, CalledChild
  <2>2. p = Manager
    BY <1>1, <1>5, <2>1, CallChildDoes, LetChildSuicideDoes, ReapDoes
  <2> QED
    BY <1>5, <2>1, <2>2, CallChildDoes, LetChildSuicideDoes, ReapDoes DEF At
<1>6. CASE Answer(p)
  <2>1. Child(p) \in Services \ {Manager, p}
    BY <1>6, AnswerOK
  <2>2. p = Manager
    BY <1>1, <1>6, <2>1, AnswerDoes
  <2> QED
    BY <1>6, <2>1, <2>2, AnswerDoes DEF At, AnswerPlace
<1>7. CASE GatherOne(p)
  <2>1. Head(frame[p].wait) \in Services \ {Manager, p}
    BY <1>7, GatheredChild
  <2>2. p = Manager
    BY <1>1, <1>7, <2>1, GatherOneDoes
  <2> QED
    BY <1>7, <2>1, <2>2, GatherOneDoes DEF At
<1>8. CASE Receive(p) \/ Started(p) \/ ReturnEnds(p) \/ Suicide(p) \/ ExchangeEnds(p)
           \/ Talks(p) \/ GatherEnds(p)
  <2>1. Others({p}) /\ pc'[p] # "none"
    BY <1>8, ReceiveDoes, StartedDoes, ReturnDoes, SuicideDoes, CountDoes, TalkDoes,
       GatherEndsDoes DEF At, Place, CountPlace, After
  <2> QED
    BY <1>2, <2>1
<1>9. CASE TerminateEnds(p)
  BY <1>2, <1>9, TerminateDoes
<1> QED
  BY <1>3, <1>4, <1>5, <1>6, <1>7, <1>8, <1>9, StepKinds, NoOrphans

(* The Manager leaves when all is done.                                    *)
LEMMA Left ==
  ASSUME IInv, Alive, pc[Manager] # "none", [Next]_vars, pc'[Manager] = "none"
  PROVE  Leaving'
<1>1. /\ Manager \in Services /\ pc[Manager] \in {"idle", "loop"}
      /\ pc[Manager] = "loop" => frame[Manager].wait = <<>>
      /\ \A r \in Services \ {Manager} :
            pc'[r] = pc[r] /\ down'[r] = down[r] /\ up'[r] = up[r]
      /\ down'[Manager] = down[Manager] /\ up'[Manager] = up[Manager]
      /\ fifo' = fifo
  <2>1. CASE EndOfInput
    BY <2>1, Arrays DEF EndOfInput, Goto
  <2>2. ASSUME NEW p \in Services, Step(p), p = Manager, TerminateEnds(p)
        PROVE  /\ pc[Manager] = "loop" /\ frame[Manager].wait = <<>> /\ fifo' = fifo
               /\ Others({Manager}) /\ Pipe(Manager, down[Manager], up[Manager])
    <3>1. pc[p] = "loop" /\ pc[p] \in Busy /\ frame[p].op = "killall"
      BY <2>2, TerminateDoes DEF Busy, Working
    <3>2. frame[p].wait = <<>>
      BY <3>1, BusyFacts DEF FrameOK, Counted
    <3> QED
      BY <2>2, <3>1, <3>2, TerminateDoes DEF Replied, TerminateEnds
  <2>3. ASSUME NEW p \in Services, Step(p) PROVE p = Manager /\ TerminateEnds(p)
    BY <2>3, ManagerEnds
  <2>4. ~StartManager /\ vars' # vars
    BY Arrays DEF StartManager, Goto, vars
  <2>5. ASSUME NEW cmd, ReadLine(cmd) PROVE FALSE
    BY <2>5, ReadLineDoes DEF At, Place
  <2>6. CASE \E p \in Services : Step(p)
    <3>1. PICK p \in Services : Step(p)
      BY <2>6
    <3>2. /\ pc[Manager] = "loop" /\ frame[Manager].wait = <<>> /\ fifo' = fifo
          /\ Others({Manager}) /\ Pipe(Manager, down[Manager], up[Manager])
      BY <2>2, <2>3, <3>1
    <3> QED
      BY <3>2 DEF Others, Same, Pipe
  <2> QED
    BY <2>1, <2>4, <2>5, <2>6 DEF Next
<1>2. \A c \in Services \ {Manager} : pc[c] = "none" \/ AtRest(pc[c], down[c], up[c])
  BY <1>1, OthersRest
<1>3. \A r \in Services : pc[r] \notin Opens
  <2>1. ASSUME NEW r \in Services PROVE pc[r] \notin Opens
    BY <1>1, <1>2 DEF AtRest, Opens
  <2> QED
    BY <2>1
<1>4. \A e \in Pairs : fifo[e] = None
  BY <1>3, NoneLeft
<1>5. ASSUME NEW r \in Services
      PROVE  pc'[r] \in {"none", "idle"} /\ down'[r] = <<>> /\ up'[r] = <<>>
  <2>1. pc[r] = "none" \/ r = Manager => down[r] = <<>> /\ up[r] = <<>>
    BY DEF IInv, Lives
  <2>2. CASE r = Manager
    BY <1>1, <2>1, <2>2
  <2>3. CASE r # Manager
    BY <1>1, <1>2, <2>1, <2>3 DEF AtRest
  <2> QED
    BY <2>2, <2>3
<1> QED
  BY <1>1, <1>4, <1>5 DEF Leaving

(* What remains while nobody is there stays until a Manager is started.    *)
LEMMA FromLeaving ==
  ASSUME IInv, Leaving, pc[Manager] = "none", [Next]_vars
  PROVE  IF pc'[Manager] = "none" THEN Leaving' ELSE Alive'
<1>1. CASE StartManager
  <2>1. /\ \A r \in Services : pc'[r] = IF r = Manager THEN "idle" ELSE "none"
        /\ \A r \in Services : kids'[r] = <<>>
        /\ fifo' = fifo /\ Manager \in Services
    BY <1>1, Arrays DEF StartManager, Goto
  <2>2. Running' = {Manager}
    BY <2>1 DEF Running
  <2>3. \A x : ~Par(Manager, x)'
    BY <2>1, EmptyElems DEF Par, ParOf
  <2>4. Family'
    BY <2>1, <2>2, <2>3, EmptyElems DEF Family
  <2>5. Attached'
    BY <2>1 DEF Attached
  <2>6. Ranked'
    <3>1. PICK rank : rank = [x \in Services |-> 0]
      OBVIOUS
    <3>2. rank \in [Services -> Nat]
      BY <3>1
    <3>3. Grows(rank)'
      BY <2>2, <2>3 DEF Grows
    <3> QED
      BY <3>2, <3>3 DEF Ranked
  <2>7. Links'
    BY <2>2, <2>3 DEF Links
  <2>8. \A r \in Services : pc'[r] \notin Busy
    BY <2>1 DEF Busy, Working, After
  <2>9. ~Exchanging'
    BY <2>1, <2>8 DEF Exchanging
  <2>10. Together' /\ Told'
    BY <2>8, <2>9 DEF Together, Told
  <2>11. Fifos'
    BY <2>1, <2>9 DEF Fifos, Leaving
  <2> QED
    BY <2>1, <2>4, <2>5, <2>6, <2>7, <2>10, <2>11 DEF Alive
<1>2. CASE vars' = vars
  <2>1. pc' = pc /\ down' = down /\ up' = up /\ fifo' = fifo
    BY <1>2 DEF vars
  <2> QED
    BY <2>1 DEF Leaving
<1>3. ASSUME NEW p \in Services, Step(p) PROVE pc'[Manager] = "none" /\ Leaving'
  <2>1. Orphaned(p)
    BY <1>3, OnlyOrphans
  <2>2. /\ pc'[p] = "none" /\ (\A r \in Services \ {p} : pc'[r] = pc[r]) /\ p # Manager
        /\ down' = down /\ up' = up /\ fifo' = fifo /\ Manager \in Services
    BY <2>1, Arrays DEF Orphaned, Goto
  <2> QED
    BY <2>2 DEF Leaving
<1>4. ~EndOfInput /\ \A cmd : ~ReadLine(cmd)
  BY DEF EndOfInput, ReadLine
<1> QED
  BY <1>1, <1>2, <1>3, <1>4 DEF Next

(* The Manager is never a child.                                           *)
LEMMA ManagerPlace ==
  ASSUME IInv, Alive, pc[Manager] # "none", [Next]_vars, pc'[Manager] # "none"
  PROVE  pc'[Manager] \notin {"start", "agree", "zombie"}
<1>0. Manager \in Services
  OBVIOUS
<1>1. pc'[Manager] # "agree"
  <2> SUFFICES ASSUME pc'[Manager] = "agree" PROVE FALSE
    OBVIOUS
  <2>1. pc'[Manager] \in Busy
    BY DEF Busy
  <2>2. FrameOK(Manager, pc'[Manager], frame'[Manager], kids'[Manager])
    BY <1>0, <2>1, FramedStep DEF Framed
  <2> QED
    BY <2>2 DEF FrameOK, Stands
<1>2. ASSUME NEW p \in Services, Step(p) PROVE pc'[Manager] \in Busy \cup {"idle"}
  <2>1. pc[Manager] # "idle"
    BY <1>2, IdleStill
  <2>2. pc[Manager] \in Busy
    BY <1>0, <2>1 DEF IInv, Typed, TypeOK, Alive, Busy, Working, After
  <2> QED
    BY <1>2, <2>2, GoesOnOrEnds DEF GoesOn, Finishes
<1>3. ASSUME NEW cmd, ReadLine(cmd) PROVE pc'[Manager] \in Busy
  BY <1>3, ReadLineDoes DEF At, Place, Busy, Working
<1>4. ~StartManager /\ ~EndOfInput
  BY Arrays DEF StartManager, EndOfInput, Goto
<1>5. CASE vars' = vars
  BY <1>5 DEF vars, Alive
<1>6. \A l \in Busy \cup {"idle"} : l \notin {"start", "zombie"}
  BY DEF Busy, Working, After
<1> QED
  BY <1>1, <1>2, <1>3, <1>4, <1>5, <1>6 DEF Next

-----------------------------------------------------------------------------
(* The invariant holds at the beginning.                                   *)
LEMMA InitInv == Init => IInv
<1> SUFFICES ASSUME Init PROVE IInv
  OBVIOUS
<1>1. Typed
  <2>1. /\ <<>> \in Seq(Services \ {Manager}) /\ <<>> \in Seq(Messages)
        /\ <<>> \in Seq(Answers) /\ <<>> \in Seq(Entries)
    OBVIOUS
  <2>2. AllTyped
    BY <2>1 DEF Init, AllTyped, PcOK, KidsOK, SecretOK, DownOK, UpOK, FifoOK, FrameFun, LogOK,
       Places, Values, Contents
  <2> QED
    BY <2>2, TypedParts
<1>2. Framed
  BY DEF Init, Framed, Busy, Working, After
<1>3. Lives
  BY DEF Init, Lives
<1>4. pc[Manager] = "none" /\ Leaving
  BY DEF Init, Leaving
<1> QED
  BY <1>1, <1>2, <1>3, <1>4 DEF IInv

(* And every step keeps it.                                                *)
LEMMA NextInv == IInv /\ [Next]_vars => IInv'
<1> SUFFICES ASSUME IInv, [Next]_vars PROVE IInv'
  OBVIOUS
<1>1. Typed' /\ Framed' /\ Lives'
  BY TypedStep, FramedStep, LivesStep
<1>2. CASE pc[Manager] = "none"
  <2>1. Leaving
    BY <1>2 DEF IInv
  <2> QED
    BY <1>1, <1>2, <2>1, FromLeaving DEF IInv
<1>3. CASE pc[Manager] # "none" /\ pc'[Manager] = "none"
  <2>1. Alive
    BY <1>3 DEF IInv
  <2> QED
    BY <1>1, <1>3, <2>1, Left DEF IInv
<1>4. CASE pc[Manager] # "none" /\ pc'[Manager] # "none"
  <2>1. Alive
    BY <1>4 DEF IInv
  <2>2. Tidy'
    BY <1>4, <2>1, TidyStep
  <2>3. Family' /\ Attached' /\ Ranked'
    BY <2>2 DEF Tidy
  <2>4. Links' /\ Together' /\ Told' /\ Fifos'
    BY <1>4, <2>1, <2>2, LinksStep, TogetherStep, ToldStep, FifosStep
  <2>5. pc'[Manager] \notin {"start", "agree", "zombie"}
    BY <1>4, <2>1, ManagerPlace
  <2>6. Alive'
    BY <2>3, <2>4, <2>5 DEF Alive
  <2> QED
    BY <1>1, <1>4, <2>6 DEF IInv
<1> QED
  BY <1>2, <1>3, <1>4

(* The inductive invariant holds in every state.                           *)
THEOREM Invariance == Spec => []IInv
BY InitInv, NextInv, PTL DEF Spec

(* The variables have their types.                                         *)
THEOREM Typing == Spec => []TypeOK
<1>1. IInv => TypeOK
  BY DEF IInv, Typed
<1> QED
  BY <1>1, Invariance, PTL

(* No pipe from a parent to a child ever holds two messages, so that       *)
(* read(fd, inputbuf, 128) in service.c returns one command.               *)
THEOREM OneMessages == Spec => []OneMessage
<1>1. ASSUME IInv PROVE OneMessage
  <2> SUFFICES ASSUME NEW c \in Services PROVE Len(down[c]) <= 1
    BY DEF OneMessage
  <2>1. Len(<<>>) <= 1
    OBVIOUS
  <2>2. CASE pc[c] = "none" \/ c = Manager
    BY <1>1, <2>1, <2>2 DEF IInv, Lives
  <2>3. CASE pc[Manager] = "none"
    BY <1>1, <2>1, <2>3 DEF IInv, Leaving
  <2>4. CASE pc[c] # "none" /\ c # Manager /\ pc[Manager] # "none"
    <3>1. Alive
      BY <1>1, <2>4 DEF IInv
    <3>2. PICK q \in Running : Linked(q, c)
      BY <1>1, <2>4, <3>1, ParentFacts
    <3> QED
      BY <3>2, RelKind, LinkOne DEF Linked
  <2> QED
    BY <2>2, <2>3, <2>4
<1> QED
  BY <1>1, Invariance, PTL

(* When the Manager reads its next line, the last command has left nothing *)
(* behind: no process that does not wait for a command, no message or      *)
(* answer in a pipe, no FIFO.                                              *)
THEOREM Stillness == Spec => []Quiet
<1>1. ASSUME IInv, pc[Manager] = "idle"
      PROVE  /\ \A p \in Services : /\ pc[p] \in {"none", "idle"}
                                    /\ down[p] = <<>> /\ up[p] = <<>>
             /\ \A e \in Pairs : fifo[e] = None
  <2>1. Alive
    BY <1>1 DEF IInv
  <2>2. \A c \in Services \ {Manager} : pc[c] = "none" \/ AtRest(pc[c], down[c], up[c])
    BY <1>1, <2>1, OthersRest
  <2>3. \A p \in Services : pc[p] = "none" \/ p = Manager => down[p] = <<>> /\ up[p] = <<>>
    BY <1>1 DEF IInv, Lives
  <2>4. ASSUME NEW p \in Services
        PROVE  pc[p] \in {"none", "idle"} /\ down[p] = <<>> /\ up[p] = <<>>
    BY <1>1, <2>2, <2>3 DEF AtRest
  <2>5. \A r \in Services : pc[r] \notin Opens
    BY <2>4 DEF Opens
  <2> QED
    BY <1>1, <2>1, <2>4, <2>5, NoneLeft
<1>2. IInv => Quiet
  BY <1>1 DEF Quiet
<1> QED
  BY <1>2, Invariance, PTL
=============================================================================
