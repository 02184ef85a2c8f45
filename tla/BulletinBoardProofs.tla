------------------------ MODULE BulletinBoardProofs ------------------------
(***************************************************************************)
(* For any number of servers, clients, records and connections per server: *)
(* the inductive invariant of BulletinBoard, the safety properties it      *)
(* implies, and that the servers together implement Board.                 *)
(*                                                                         *)
(* The key is Conversation: what is under way from a client to its server, *)
(* read from the place where the server stands, is a path of Follow, and   *)
(* its last word says where the client is.                                 *)
(***************************************************************************)
EXTENDS BulletinBoard, FiniteSetTheorems, SequenceTheorems, TLAPS

USE BoardAssumption

-----------------------------------------------------------------------------
(* The types of the variables alone.                                       *)
Op == [do : Doings, who : Clients \cup {None}, at : 0..RECORD_NUM,
       seen : Seq([from : Cells, content : Cells]), post : Posts \cup {None}]

Typed ==
    /\ file \in [Records -> [from : Cells, content : Cells]]
    /\ wlock \in [Servers -> SUBSET Records]
    /\ rlock \in [Servers -> SUBSET Records]
    /\ up \in [Servers -> BOOLEAN]
    /\ write_locked \in [Servers -> SUBSET Records]
    /\ last \in [Servers -> Records]
    /\ slots \in [Servers -> SUBSET Clients]
    /\ post_id \in [Clients -> Records \cup {None}]
    /\ backlog \in [Servers -> Seq(Clients)]
    /\ ready \in [Servers -> SUBSET Clients]
    /\ op \in [Servers -> Op]
    /\ stream \in [Clients -> Seq(Messages)]
    /\ reply \in [Clients -> Answers \cup {None}]
    /\ reset \in [Clients -> BOOLEAN]
    /\ pc \in [Clients -> Places]
    /\ granted \in [Clients -> BOOLEAN]

(* A server serves clients of its own, of which it has a bounded number,   *)
(* and a client has one connection.                                        *)
Serving(s) ==
    /\ op[s].who = None <=> op[s].do = "select"
    /\ op[s].who # None => op[s].who \in slots[s] \ ready[s]
    /\ ready[s] \subseteq slots[s]
    /\ \A c \in ready[s] : stream[c] # <<>>

Room(s) == IsFiniteSet(slots[s]) /\ Cardinality(slots[s]) <= MAX_CLIENTS

Queue(s) ==
    /\ slots[s] \cap InBacklog(s) = {}
    /\ \A j, k \in 1..Len(backlog[s]) : backlog[s][j] = backlog[s][k] => j = k

Apart(s) == \A t \in Servers \ {s} : LinkedTo(s) \cap LinkedTo(t) = {}

Links(s) == Serving(s) /\ Room(s) /\ Queue(s) /\ Apart(s)

Unlinked(c) == ~Linked(c) => stream[c] = <<>> /\ post_id[c] = None

(* What a server has in hand.                                              *)
InHand(s) ==
    /\ op[s].do \notin {"pull", "pread"} => op[s].seen = <<>>
    /\ op[s].do \in {"write", "written"} => op[s].post \in Posts
    /\ op[s].do = "pread" => op[s].at \in Records \ wlock[s]
    /\ op[s].do \in {"pull", "pread", "post"} => post_id[op[s].who] = None
    /\ op[s].do \in {"recv", "write", "written"} => post_id[op[s].who] # None

Reservations(s) ==
    /\ \A c \in slots[s] : post_id[c] # None => post_id[c] \in write_locked[s]
    /\ \A r \in write_locked[s] : \E c \in slots[s] : post_id[c] = r
    /\ \A c \in InBacklog(s) : post_id[c] = None

NoneShared == \A c, d \in Clients : post_id[c] = post_id[d] /\ post_id[c] # None
                                      => c = d

(* The words that may come next.                                           *)
Follow(w) ==
    CASE w \in {"free", "release", "data"} -> {"pull", "post", "eof"}
      [] w = "held"                        -> {"content", "release", "eof"}
      [] w = "content"                     -> {"data", "eof"}
      [] w \in {"pull", "post"}            -> {"eof"}
      [] OTHER                             -> {}

(* Where the client is when w is the last it has said.                     *)
Stands(w, place, answer) ==
    \/ w = "free" /\ \/ place = "menu" /\ answer = None
                     \/ place = "pulling" /\ answer = "posts"
                     \/ place = "asking" /\ answer = "refuse"
    \/ w = "held" /\ \/ place = "editing" /\ answer = None
                     \/ place = "asking" /\ answer = "grant"
    \/ w \in {"release", "data"} /\ place = "menu" /\ answer = None
    \/ w = "content" /\ place = "sending" /\ answer = None
    \/ w = "pull" /\ place = "pulling" /\ answer = None
    \/ w = "post" /\ place = "asking" /\ answer = None
    \/ w = "eof" /\ place = "off" /\ answer = None

LastOf(w, q) == IF q = <<>> THEN w ELSE q[Len(q)].cmd

Talk(w, q, place, answer, broken) ==
    /\ q # <<>> => q[1].cmd \in Follow(w)
    /\ \A k \in 1..(Len(q) - 1) : q[k + 1].cmd \in Follow(q[k].cmd)
    /\ Stands(LastOf(w, q), place, answer)
    /\ broken => w \in {"free", "held"} /\ q # <<>> /\ q[1].cmd = "eof"

(* What server s is at with client c: the last word it has consumed.       *)
Word(d) == CASE d \in {"pull", "pread"}    -> "pull"
             [] d = "post"                 -> "post"
             [] d = "recv"                 -> "content"
             [] OTHER                      -> "data"

Standing(s, c) == IF op[s].who = c THEN Word(op[s].do)
                  ELSE IF post_id[c] = None THEN "free" ELSE "held"

Conversation(s) ==
    \A c \in LinkedTo(s) :
       Talk(Standing(s, c), stream[c], pc[c], reply[c], reset[c])

(* Half of a post is only in a record that is being written, and a pull    *)
(* collects whole posts.                                                   *)
Writing(s, r) == op[s].do = "written" /\ post_id[op[s].who] = r

Halves ==
    \A r \in Records :
      /\ file[r].from # file[r].content => \E s \in Servers : Writing(s, r)
      /\ \A s \in Servers : Writing(s, r) => file[r].from = op[s].post

SeenWhole(s) ==
    \A k \in 1..Len(op[s].seen) : op[s].seen[k].from = op[s].seen[k].content

IInv ==
    /\ Typed
    /\ \A s \in Servers : Links(s)
    /\ \A c \in Clients : Unlinked(c)
    /\ LocksAgree
    /\ \A s \in Servers : InHand(s)
    /\ \A s \in Servers : Reservations(s)
    /\ NoneShared
    /\ \A s \in Servers : Conversation(s)
    /\ InStep
    /\ Halves
    /\ \A s \in Servers : SeenWhole(s)

-----------------------------------------------------------------------------
CmdWords == {"pull", "post", "content", "release", "eof", "data"}

(* The words of a message, and what comes with the data.                   *)
LEMMA Words ==
  /\ \A m \in Messages : m.cmd \in CmdWords /\ (m.cmd = "data" => m.post \in Posts)
  /\ \A w \in {"pull", "post", "content", "release", "eof"} :
        Message(w, None) \in Messages /\ Message(w, None).cmd = w
  /\ \A p \in Posts : Message("data", p) \in Messages /\ Message("data", p).cmd = "data"
<1>1. ASSUME NEW m \in Messages
      PROVE  m.cmd \in CmdWords /\ (m.cmd = "data" => m.post \in Posts)
  BY DEF Messages, Message, CmdWords
<1>2. ASSUME NEW w \in {"pull", "post", "content", "release", "eof"}
      PROVE  Message(w, None) \in Messages /\ Message(w, None).cmd = w
  BY Zenon DEF Messages, Message
<1>3. ASSUME NEW p \in Posts
      PROVE  Message("data", p) \in Messages /\ Message("data", p).cmd = "data"
  BY Zenon DEF Messages, Message
<1> QED
  BY <1>1, <1>2, <1>3

(* Saying one more thing that may follow the last.                         *)
LEMMA TalkAppend ==
  ASSUME NEW w, NEW q \in Seq(Messages), NEW p1, NEW a1, NEW b1,
         Talk(w, q, p1, a1, b1),
         NEW m \in Messages, NEW p2, NEW a2, NEW b2,
         m.cmd \in Follow(LastOf(w, q)),
         Stands(m.cmd, p2, a2),
         b2 => /\ w \in {"free", "held"}
               /\ q = <<>> /\ m.cmd = "eof"
  PROVE  Talk(w, Append(q, m), p2, a2, b2) /\ Append(q, m) \in Seq(Messages)
<1> DEFINE r == Append(q, m)
           n == Len(q)
<1>1. /\ r \in Seq(Messages) /\ Len(r) = n + 1 /\ n \in Nat
      /\ r # <<>>
      /\ r[n + 1] = m
      /\ \A k \in 1..n : r[k] = q[k]
  OBVIOUS
<1>2. q = <<>> <=> n = 0
  OBVIOUS
<1> HIDE DEF r, n
<1>3. r[1].cmd \in Follow(w)
  <2>1. CASE n = 0
    BY <1>1, <1>2, <2>1 DEF LastOf
  <2>2. CASE n # 0
    <3>1. 1 \in 1..n
      BY <1>1, <2>2
    <3> QED
      BY <1>1, <1>2, <2>2, <3>1 DEF Talk
  <2> QED
    BY <2>1, <2>2
<1>4. ASSUME NEW k \in 1..(Len(r) - 1)
      PROVE  r[k + 1].cmd \in Follow(r[k].cmd)
  <2>1. CASE k = n
    <3>1. q # <<>> /\ r[k] = q[n] /\ r[k + 1] = m
      BY <1>1, <1>2, <2>1
    <3> QED
      BY <3>1 DEF LastOf, n
  <2>2. CASE k # n
    <3>1. k \in 1..(n - 1) /\ k \in 1..n /\ k + 1 \in 1..n
      BY <1>1, <2>2
    <3> QED
      BY <1>1, <3>1 DEF Talk, n
  <2> QED
    BY <2>1, <2>2
<1>5. LastOf(w, r) = m.cmd
  BY <1>1 DEF LastOf
<1>6. b2 => r[1].cmd = "eof"
  BY <1>1, <1>2
<1> QED
  BY <1>1, <1>3, <1>4, <1>5, <1>6 DEF Talk, r

(* Consuming a word; release and data leave nothing to be done.            *)
LEMMA TalkTail ==
  ASSUME NEW w, NEW q \in Seq(Messages), NEW p, NEW a, NEW b,
         Talk(w, q, p, a, b), q # <<>>, q[1].cmd # "eof"
  PROVE  /\ Tail(q) \in Seq(Messages)
         /\ ~b
         /\ q[1].cmd # "release" => Talk(q[1].cmd, Tail(q), p, a, FALSE)
         /\ q[1].cmd = "release" => Talk("free", Tail(q), p, a, FALSE)
<1> DEFINE r == Tail(q)
           n == Len(q)
           v == IF q[1].cmd = "release" THEN "free" ELSE q[1].cmd
<1>1. /\ r \in Seq(Messages) /\ Len(r) = n - 1 /\ n \in Nat \ {0}
      /\ r = <<>> <=> n = 1
      /\ \A k \in 1..(n - 1) : r[k] = q[k + 1]
  <2>1. r \in Seq(Messages) /\ Len(r) = n - 1 /\ n \in Nat /\ n # 0
    OBVIOUS
  <2>3. r = <<>> <=> Len(r) = 0
    BY <2>1
  <2>2. ASSUME NEW k \in 1..(n - 1) PROVE r[k] = q[k + 1]
    BY <2>1
  <2> QED
    BY <2>1, <2>2, <2>3
<1>2. ~b
  BY DEF Talk
<1>3. Follow(v) = Follow(q[1].cmd)
  BY DEF Follow
<1> HIDE DEF r, n, v
<1>4. r # <<>> => r[1].cmd \in Follow(v)
  <2> SUFFICES ASSUME r # <<>> PROVE r[1].cmd \in Follow(v)
    OBVIOUS
  <2>1. 1 \in 1..(n - 1) /\ r[1] = q[1 + 1]
    BY <1>1
  <2> QED
    BY <1>3, <2>1 DEF Talk, n
<1>5. ASSUME NEW k \in 1..(Len(r) - 1)
      PROVE  r[k + 1].cmd \in Follow(r[k].cmd)
  <2>1. /\ k \in 1..(n - 1) /\ k + 1 \in 1..(n - 1)
        /\ r[k + 1] = q[(k + 1) + 1] /\ r[k] = q[k + 1]
    BY <1>1, SMTT(30)
  <2> QED
    BY <2>1 DEF Talk, n
<1>6. Stands(LastOf(v, r), p, a)
  <2>1. CASE n = 1
    <3>1. Stands(q[1].cmd, p, a)
      BY <2>1 DEF Talk, LastOf, n
    <3> QED
      BY <1>1, <2>1, <3>1 DEF Stands, LastOf, v
  <2>2. CASE n # 1
    <3>1. n - 1 \in 1..(n - 1) /\ r[n - 1] = q[n] /\ r # <<>>
      BY <1>1, <2>2
    <3> QED
      BY <1>1, <3>1 DEF Talk, LastOf, n
  <2> QED
    BY <2>1, <2>2
<1> QED
  BY <1>1, <1>2, <1>4, <1>5, <1>6 DEF Talk, r, v

(* Where the client is, if nothing is under way.                           *)
LEMMA TalkEmpty ==
  ASSUME NEW w, NEW p, NEW a, NEW b
  PROVE  Talk(w, <<>>, p, a, b) <=> Stands(w, p, a) /\ ~b
BY DEF Talk, LastOf

(* From a client that said it goes nothing else comes, and nothing came    *)
(* before but what was still under way.                                    *)
LEMMA TalkEnd ==
  ASSUME NEW w, NEW q \in Seq(Messages), NEW p, NEW a, NEW b,
         Talk(w, q, p, a, b), q # <<>>, q[1].cmd = "eof"
  PROVE  Len(q) = 1 /\ p = "off" /\ a = None
<1>1. Follow("eof") = {}
  BY DEF Follow
<1>2. Len(q) = 1
  <2> SUFFICES ASSUME Len(q) # 1 PROVE FALSE
    OBVIOUS
  <2>1. Len(q) \in Nat /\ Len(q) # 0
    OBVIOUS
  <2>2. \A n \in Nat : n # 0 /\ n # 1 => 1 \in 1..(n - 1)
    OBVIOUS
  <2>3. 1 \in 1..(Len(q) - 1)
    BY <2>1, <2>2
  <2> QED
    BY <1>1, <2>3 DEF Talk
<1> QED
  BY <1>2 DEF Talk, LastOf, Stands

(* There is never more than a post, a question and the end under way.      *)
Rank(w) == CASE w \in {"free", "held"} -> 0
             [] w = "content" -> 1
             [] w \in {"data", "release"} -> 2
             [] w \in {"pull", "post"} -> 3
             [] OTHER -> 4

(* Every word on the way has a higher rank than the one before it.         *)
LEMMA TalkShort ==
  ASSUME NEW w, NEW q \in Seq(Messages), NEW p, NEW a, NEW b, Talk(w, q, p, a, b)
  PROVE  Len(q) <= 4
<1>1. ASSUME NEW v \in CmdWords, NEW u \in Follow(v)
      PROVE  Rank(u) >= Rank(v) + 1 /\ Rank(u) \in 0..4 /\ Rank(v) \in 0..4
  BY DEF Follow, Rank, CmdWords
<1>2. \A v \in CmdWords : Rank(v) \in 1..4
  BY DEF Rank, CmdWords
<1> SUFFICES ASSUME Len(q) >= 5 PROVE FALSE
  OBVIOUS
<1> DEFINE R(k) == Rank(q[k].cmd)
<1>3. \A k \in 1..5 : q[k].cmd \in CmdWords
  BY Words
<1>4. \A k \in 1..4 : R(k + 1) >= R(k) + 1 /\ R(k) \in 1..4
  <2> SUFFICES ASSUME NEW k \in 1..4
               PROVE  R(k + 1) >= R(k) + 1 /\ R(k) \in 1..4
    OBVIOUS
  <2>1. q[k + 1].cmd \in Follow(q[k].cmd)
    BY DEF Talk
  <2> QED
    BY <1>1, <1>2, <1>3, <2>1
<1>5. R(5) \in 1..4
  BY <1>2, <1>3
<1> HIDE DEF R
<1>6. R(2) >= R(1) + 1 /\ R(3) >= R(2) + 1 /\ R(4) >= R(3) + 1 /\ R(5) >= R(4) + 1
  BY <1>4
<1>7. R(1) \in 1..4 /\ R(2) \in 1..4 /\ R(3) \in 1..4 /\ R(4) \in 1..4
  BY <1>4
<1> QED
  BY <1>5, <1>6, <1>7

-----------------------------------------------------------------------------
(* What servers do, as values of op.                                       *)
LEMMA OpTypes ==
  /\ Select0 \in Op
  /\ Select0.do = "select" /\ Select0.who = None /\ Select0.seen = <<>>
  /\ \A d \in Doings, c \in Clients :
       /\ Doing(d, c) \in Op
       /\ Doing(d, c).do = d /\ Doing(d, c).who = c /\ Doing(d, c).seen = <<>>
       /\ Doing(d, c).at = 0
<1>1. /\ Select0 \in Op
      /\ Select0.do = "select" /\ Select0.who = None /\ Select0.seen = <<>>
  BY DEF Select0, Op, Doings
<1>2. ASSUME NEW d \in Doings, NEW c \in Clients
      PROVE  /\ Doing(d, c) \in Op
             /\ Doing(d, c).do = d /\ Doing(d, c).who = c
             /\ Doing(d, c).seen = <<>> /\ Doing(d, c).at = 0
  <2>1. Doing(d, c) \in Op
    BY <1>1 DEF Doing, Op
  <2>2. Doing(d, c).do = d /\ Doing(d, c).who = c
    BY DEF Doing, Select0
  <2>3. Doing(d, c).seen = <<>> /\ Doing(d, c).at = 0
    BY DEF Doing, Select0
  <2> QED
    BY <2>1, <2>2, <2>3
<1> QED
  BY <1>1, <1>2

(* The first of what is under way.                                         *)
LEMMA HeadOf ==
  ASSUME NEW T, NEW q \in Seq(T), q # <<>>
  PROVE  Head(q) = q[1] /\ q[1] \in T /\ Tail(q) \in Seq(T)
OBVIOUS

(* No connection, no lock, whole posts.                                    *)
LEMMA InitInv == Init => IInv
<1> SUFFICES ASSUME Init PROVE IInv
  OBVIOUS
<1>1. Typed
  <2>1. file \in [Records -> [from : Cells, content : Cells]]
    BY DEF Init, Whole, Cells
  <2>2. last \in [Servers -> Records]
    BY DEF Init, Records
  <2> QED
    BY <2>1, <2>2, OpTypes DEF Init, Typed, Places
<1>2. \A s \in Servers : LinkedTo(s) = {} /\ slots[s] = {} /\ InBacklog(s) = {}
  BY DEF Init, LinkedTo, InBacklog
<1>3. ASSUME NEW s \in Servers PROVE Links(s)
  <2>1. IsFiniteSet({}) /\ Cardinality({}) <= MAX_CLIENTS
    BY FS_EmptySet
  <2> QED
    BY <1>2, <2>1, OpTypes DEF Init, Links, Serving, Room, Queue, Apart
<1>4. \A c \in Clients : Unlinked(c)
  BY DEF Init, Unlinked
<1>5. LocksAgree
  BY OpTypes DEF Init, LocksAgree
<1>6. \A s \in Servers : InHand(s)
  BY OpTypes DEF Init, InHand
<1>7. (\A s \in Servers : Reservations(s)) /\ NoneShared
  BY <1>2 DEF Init, Reservations, NoneShared
<1>8. \A s \in Servers : Conversation(s)
  BY <1>2 DEF Conversation
<1>9. InStep
  BY DEF Init, InStep
<1>10. Halves
  BY OpTypes DEF Init, Halves, Whole, Writing
<1>11. \A s \in Servers : SeenWhole(s)
  BY OpTypes DEF Init, SeenWhole
<1> QED
  BY <1>1, <1>3, <1>4, <1>5, <1>6, <1>7, <1>8, <1>9, <1>10, <1>11 DEF IInv

-----------------------------------------------------------------------------
(* What a client does to the connection.                                   *)
LEMMA ClientTypes ==
  ASSUME IInv, NEW c \in Clients, ClientStep(c)
  PROVE  Typed'
<1> USE DEF IInv, Typed, network, client, locks, Places, Answers
<1>1. ASSUME NEW m \in Messages, Send(c, m)
      PROVE  stream' \in [Clients -> Seq(Messages)]
  BY <1>1 DEF Send
<1>2. ASSUME NEW from, NEW to \in Places, NEW w \in {"pull", "post", "content", "release"},
             ClientSends(c, from, to, w),
             granted' \in [Clients -> BOOLEAN]
      PROVE  Typed'
  <2>1. stream' \in [Clients -> Seq(Messages)]
    BY <1>1, <1>2, Words DEF ClientSends
  <2> QED
    BY <1>2, <2>1 DEF ClientSends, At
<1>3. CASE Pull(c) \/ Post(c) \/ GiveUp(c) \/ SendContent(c)
  BY <1>2, <1>3 DEF Pull, Post, GiveUp, SendContent
<1>4. CASE SendData(c)
  <2>1. stream' \in [Clients -> Seq(Messages)]
    BY <1>1, <1>4, Words DEF SendData
  <2> QED
    BY <1>4, <2>1 DEF SendData, At
<1>5. CASE TakeReply(c)
  BY <1>5 DEF TakeReply, At
<1>6. CASE ReadFails(c)
  BY <1>6 DEF ReadFails, At
<1>7. CASE Leave(c)
  <2>1. stream' \in [Clients -> Seq(Messages)]
    BY <1>1, <1>7, Words DEF Leave
  <2> QED
    BY <1>7, <2>1 DEF Leave, At
<1>8. ASSUME NEW s \in Servers, Start(c, s) PROVE Typed'
  <2>1. stream' \in [Clients -> Seq(Messages)]
    BY <1>8, Words DEF Start
  <2> QED
    BY <1>8, <2>1 DEF Start, At
<1> QED
  BY <1>3, <1>4, <1>5, <1>6, <1>7, <1>8 DEF ClientStep

(* Functions to sets, of which one value gains or loses a member.          *)
Gains(f, g, s, r) == g = [f EXCEPT ![s] = @ \cup {r}]
Loses(f, g, s, r) == g = [f EXCEPT ![s] = @ \ {r}]

(* The set that gains a member stays one of members of T.                  *)
LEMMA SetGains ==
  ASSUME NEW S, NEW T, NEW f \in [S -> SUBSET T], NEW s \in S, NEW g, NEW r \in T,
         Gains(f, g, s, r)
  PROVE  g \in [S -> SUBSET T]
<1>1. f[s] \cup {r} \in SUBSET T
  OBVIOUS
<1> QED
  BY <1>1 DEF Gains

(* So does the set that loses one.                                         *)
LEMMA SetLoses ==
  ASSUME NEW S, NEW T, NEW f \in [S -> SUBSET T], NEW s \in S, NEW g, NEW r,
         Loses(f, g, s, r)
  PROVE  g \in [S -> SUBSET T]
<1>1. f[s] \ {r} \in SUBSET T
  OBVIOUS
<1> QED
  BY <1>1 DEF Loses

(* The scan of the records never leaves them.                              *)
LEMMA Modulo == \A x \in Nat : x % RECORD_NUM \in Records
BY DEF Records

(* Serving a client: what comes next from it.                              *)
Consume(c) == /\ stream' = [stream EXCEPT ![c] = Tail(@)]
              /\ UNCHANGED <<slots, reset>>

Served(s, c, w) ==
    /\ op[s].do = "select" /\ op[s].who = None
    /\ c \in ready[s] /\ c \in slots[s] /\ c \in Clients
    /\ stream[c] # <<>> /\ w = stream[c][1].cmd /\ w \in CmdWords
    /\ ready' = [ready EXCEPT ![s] = @ \ {c}]
    /\ \/ w = "eof" /\ Disconnect(s, c)
       \/ /\ \/ w = "pull" /\ Become(s, Doing("pull", c))
             \/ w = "post" /\ Become(s, Doing("post", c))
             \/ w = "content" /\ Become(s, Doing("recv", c))
          /\ Consume(c) /\ UNCHANGED <<locks, write_locked, post_id>>
       \/ w = "release" /\ ReleaseWriteLock(s, c) /\ Consume(c) /\ UNCHANGED op
    /\ UNCHANGED <<file, up, last, backlog, reply, client>>

(* What Serve does to the client it picks, and which word it finds.        *)
LEMMA ServeFacts ==
  ASSUME IInv, NEW s \in Servers, Serve(s)
  PROVE  \E c \in Clients, w \in CmdWords : Served(s, c, w)
<1>1. PICK c \in ready[s] :
        LET cmd == Head(stream[c]).cmd
            Eats == /\ stream' = [stream EXCEPT ![c] = Tail(@)]
                    /\ UNCHANGED <<slots, reset>>
            NoLock == UNCHANGED <<locks, write_locked, post_id>>
        IN
        /\ ready' = [ready EXCEPT ![s] = @ \ {c}]
        /\ \/ cmd = "eof"     /\ Disconnect(s, c)
           \/ cmd = "pull"    /\ Become(s, Doing("pull", c)) /\ Eats /\ NoLock
           \/ cmd = "post"    /\ Become(s, Doing("post", c)) /\ Eats /\ NoLock
           \/ cmd = "content" /\ Become(s, Doing("recv", c)) /\ Eats /\ NoLock
           \/ /\ cmd = "release" /\ ReleaseWriteLock(s, c)
              /\ Eats /\ UNCHANGED op
  BY DEF Serve
<1>2. /\ c \in Clients /\ c \in slots[s] /\ stream[c] # <<>>
      /\ stream[c] \in Seq(Messages)
  BY DEF IInv, Typed, Links, Serving
<1>3. Head(stream[c]) = stream[c][1] /\ stream[c][1] \in Messages
  BY <1>2, HeadOf
<1>4. Head(stream[c]).cmd = stream[c][1].cmd /\ stream[c][1].cmd \in CmdWords
  BY <1>3, Words
<1>5. /\ op[s].do = "select" /\ op[s].who = None
      /\ UNCHANGED <<file, up, last, backlog, reply, client>>
  BY DEF Serve, IInv, Links, Serving
<1>6. Served(s, c, stream[c][1].cmd)
  BY <1>1, <1>2, <1>4, <1>5 DEF Served, Consume
<1> QED
  BY <1>2, <1>4, <1>6

(* What is locked and given back has its type.                             *)
LEMMA LockTypes ==
  ASSUME Typed, NEW s \in Servers, NEW c \in Clients, ReleaseWriteLock(s, c)
  PROVE  /\ wlock' \in [Servers -> SUBSET Records]
         /\ rlock' \in [Servers -> SUBSET Records]
         /\ write_locked' \in [Servers -> SUBSET Records]
         /\ post_id' \in [Clients -> Records \cup {None}]
<1>1. CASE post_id[c] \in write_locked[s]
  <2> DEFINE r == post_id[c]
  <2>0. Loses(wlock, wlock', s, r) /\ Loses(rlock, rlock', s, r)
        /\ Loses(write_locked, write_locked', s, r)
    BY <1>1 DEF ReleaseWriteLock, Unlock, Loses
  <2> HIDE DEF r
  <2>1. wlock' \in [Servers -> SUBSET Records] /\ rlock' \in [Servers -> SUBSET Records]
    BY <2>0, SetLoses DEF Typed
  <2>2. write_locked' \in [Servers -> SUBSET Records]
    BY <2>0, SetLoses DEF Typed
  <2>3. post_id' \in [Clients -> Records \cup {None}]
    BY <1>1 DEF ReleaseWriteLock, Typed
  <2> QED
    BY <2>1, <2>2, <2>3
<1>2. CASE post_id[c] \notin write_locked[s]
  BY <1>2 DEF ReleaseWriteLock, Typed, locks
<1> QED
  BY <1>1, <1>2

(* So has what a closed connection leaves.                                 *)
LEMMA DisconnectTypes ==
  ASSUME Typed, NEW s \in Servers, NEW c \in Clients, Disconnect(s, c)
  PROVE  /\ wlock' \in [Servers -> SUBSET Records]
         /\ rlock' \in [Servers -> SUBSET Records]
         /\ write_locked' \in [Servers -> SUBSET Records]
         /\ post_id' \in [Clients -> Records \cup {None}]
         /\ stream' \in [Clients -> Seq(Messages)]
         /\ reset' \in [Clients -> BOOLEAN]
         /\ slots' \in [Servers -> SUBSET Clients]
         /\ op' \in [Servers -> Op]
<1>1. /\ wlock' \in [Servers -> SUBSET Records]
      /\ rlock' \in [Servers -> SUBSET Records]
      /\ write_locked' \in [Servers -> SUBSET Records]
      /\ post_id' \in [Clients -> Records \cup {None}]
  BY LockTypes DEF Disconnect
<1>2. stream' \in [Clients -> Seq(Messages)] /\ reset' \in [Clients -> BOOLEAN]
  BY DEF Disconnect, Forget, Unread, Typed
<1>3. op' \in [Servers -> Op]
  BY OpTypes DEF Disconnect, Become, Typed
<1> QED
  BY <1>1, <1>2, <1>3 DEF Disconnect, Typed

(* What leaves a server's hands, and what it accepts, has its type.        *)
LEMMA ServerTypes ==
  ASSUME IInv, NEW s \in Servers, ServerStep(s)
  PROVE  Typed'
<1>0. Typed /\ s \in DOMAIN op /\ op[s] \in Op
  BY DEF IInv, Typed
<1> USE DEF Typed, network, client, locks
<1>1. ASSUME NEW o \in Op, Become(s, o) PROVE op' \in [Servers -> Op]
  BY <1>0, <1>1 DEF Become
<1>2. ASSUME NEW c, NEW a \in Answers, Write(c, a)
      PROVE  /\ reply' \in [Clients -> Answers \cup {None}]
             /\ reset' \in [Clients -> BOOLEAN]
  <2>1. CASE pc[c] = "off"
    BY <1>0, <1>2, <2>1 DEF Write
  <2>2. CASE pc[c] # "off"
    <3>1. reply' = [reply EXCEPT ![c] = a] /\ reset' = reset
      BY <1>2, <2>2 DEF Write
    <3> QED
      BY <1>0, <3>1
  <2> QED
    BY <2>1, <2>2
<1>3. ASSUME op[s].who # None PROVE op[s].who \in Clients
  BY <1>0, <1>3 DEF Op
<1>4. op[s].do # "select" => op[s].who \in Clients
  BY <1>3 DEF IInv, Links, Serving
<1>6. CASE Select(s)
  <2>1. /\ slots' \in [Servers -> SUBSET Clients]
        /\ backlog' \in [Servers -> Seq(Clients)]
        /\ stream' \in [Clients -> Seq(Messages)]
        /\ reset' \in [Clients -> BOOLEAN]
    <3>1. CASE backlog[s] = <<>>
      BY <1>0, <1>6, <3>1 DEF Select, Accept
    <3>2. CASE backlog[s] # <<>>
      <4>1. Head(backlog[s]) \in Clients /\ Tail(backlog[s]) \in Seq(Clients)
        BY <1>0, <3>2, HeadOf
      <4>2. backlog' \in [Servers -> Seq(Clients)]
        BY <1>0, <1>6, <3>2, <4>1 DEF Select, Accept
      <4>3. CASE Cardinality(slots[s]) < MAX_CLIENTS
        <5>1. slots' \in [Servers -> SUBSET Clients]
          <6>1. Gains(slots, slots', s, Head(backlog[s]))
            BY <1>6, <3>2, <4>3 DEF Select, Accept, Gains
          <6>2. slots \in [Servers -> SUBSET Clients]
            BY <1>0
          <6> HIDE DEF Typed
          <6> QED
            BY <4>1, <6>1, <6>2, SetGains
        <5> QED
          BY <1>0, <1>6, <3>2, <4>2, <4>3, <5>1 DEF Select, Accept
      <4>4. CASE ~(Cardinality(slots[s]) < MAX_CLIENTS)
        <5>1. Forget(Head(backlog[s])) /\ UNCHANGED slots
          BY <1>6, <3>2, <4>4 DEF Select, Accept
        <5>2. stream' \in [Clients -> Seq(Messages)] /\ reset' \in [Clients -> BOOLEAN]
          BY <1>0, <4>1, <5>1 DEF Forget, Unread
        <5> QED
          BY <1>0, <4>2, <5>1, <5>2
      <4> QED
        BY <4>3, <4>4
    <3> QED
      BY <3>1, <3>2
  <2>2. ready' \in [Servers -> SUBSET Clients]
    BY <1>0, <1>6 DEF Select, Readable
  <2> QED
    BY <1>0, <1>6, <2>1, <2>2 DEF Select
<1>7. CASE Serve(s)
  <2>1. PICK c \in Clients, w \in CmdWords : Served(s, c, w)
    BY <1>7, ServeFacts
  <2>2. [stream EXCEPT ![c] = Tail(@)] \in [Clients -> Seq(Messages)]
    BY <1>0, <2>1, HeadOf DEF Served
  <2>3. Doing("pull", c) \in Op /\ Doing("post", c) \in Op /\ Doing("recv", c) \in Op
    BY OpTypes DEF Doings
  <2>4. ready' \in [Servers -> SUBSET Clients]
    BY <1>0, <2>1 DEF Served
  <2>5. CASE Disconnect(s, c)
    BY <1>0, <2>1, <2>4, <2>5, DisconnectTypes DEF Served
  <2>6. CASE Consume(c) /\ op' \in [Servers -> Op] /\ UNCHANGED <<locks, write_locked, post_id>>
    BY <1>0, <2>1, <2>2, <2>4, <2>6 DEF Served, Consume
  <2>7. CASE Consume(c) /\ UNCHANGED op /\ ReleaseWriteLock(s, c)
    BY <1>0, <2>1, <2>2, <2>4, <2>7, LockTypes DEF Served, Consume
  <2> QED
    BY <1>1, <2>1, <2>3, <2>5, <2>6, <2>7 DEF Served
<1>8. CASE PullTry(s)
  <2> DEFINE i == op[s].at
  <2>1. i \in Records /\ i + 1 \in 0..RECORD_NUM
    BY <1>0, <1>8 DEF PullTry, Op, Records
  <2>2. /\ [op[s] EXCEPT !.do = "pread"] \in Op
        /\ [op[s] EXCEPT !.at = i + 1] \in Op
    BY <1>0, <2>1 DEF Op, Doings
  <2>3. op' \in [Servers -> Op]
    BY <1>1, <1>8, <2>2 DEF PullTry
  <2>4. wlock' \in [Servers -> SUBSET Records] /\ rlock' \in [Servers -> SUBSET Records]
    <3>1. CASE MayRead(s, i)
      <4>1. Gains(rlock, rlock', s, i) /\ Loses(wlock, wlock', s, i)
        BY <1>8, <3>1 DEF PullTry, ReadLock, Gains, Loses
      <4>2. /\ wlock \in [Servers -> SUBSET Records]
            /\ rlock \in [Servers -> SUBSET Records]
        BY <1>0
      <4> HIDE DEF Typed, i
      <4>3. rlock' \in [Servers -> SUBSET Records]
        BY <2>1, <4>1, <4>2, SetGains
      <4>4. wlock' \in [Servers -> SUBSET Records]
        BY <4>1, <4>2, SetLoses
      <4> QED
        BY <1>8, <4>3, <4>4 DEF PullTry
    <3>2. CASE ~MayRead(s, i)
      BY <1>0, <1>8, <3>2 DEF PullTry
    <3> QED
      BY <3>1, <3>2
  <2> QED
    BY <1>0, <1>8, <2>3, <2>4 DEF PullTry
<1>9. CASE PullRead(s)
  <2> DEFINE i == op[s].at
  <2>1. i \in Records /\ i + 1 \in 0..RECORD_NUM
    BY <1>0, <1>9 DEF PullRead, Op, Records, IInv, InHand
  <2>2. /\ Append(op[s].seen, file[i]) \in Seq([from : Cells, content : Cells])
        /\ op[s].seen \in Seq([from : Cells, content : Cells])
    BY <1>0, <2>1 DEF Op
  <2>3. [op[s] EXCEPT !.do = "pull", !.at = i + 1,
            !.seen = IF file[i] = Whole(Blank) THEN @ ELSE Append(@, file[i])] \in Op
    <3> HIDE DEF i
    <3>1. ASSUME NEW q \in Seq([from : Cells, content : Cells])
          PROVE  [op[s] EXCEPT !.do = "pull", !.at = i + 1, !.seen = q] \in Op
      BY <1>0, <2>1 DEF Op, Doings
    <3> QED
      BY <2>2, <3>1
  <2>4. op' \in [Servers -> Op]
    BY <1>1, <1>9, <2>3 DEF PullRead
  <2>5. wlock' \in [Servers -> SUBSET Records] /\ rlock' \in [Servers -> SUBSET Records]
    BY <1>0, <1>9 DEF PullRead, Unlock
  <2> QED
    BY <1>0, <1>9, <2>4, <2>5 DEF PullRead
<1>10. CASE PullAnswer(s)
  <2>1. op' \in [Servers -> Op]
    BY <1>1, <1>10, OpTypes DEF PullAnswer
  <2>2. reply' \in [Clients -> Answers \cup {None}] /\ reset' \in [Clients -> BOOLEAN]
    BY <1>2, <1>10 DEF PullAnswer, Answers
  <2> QED
    BY <1>0, <1>10, <2>1, <2>2 DEF PullAnswer
<1>11. CASE PostTry(s)
  <2> DEFINE c == op[s].who
             r == Candidate(s)
  <2>1. c \in Clients /\ r \in Records /\ After(r) \in Records
    <3>1. last[s] + op[s].at \in Nat
      BY <1>0 DEF Op, Records
    <3>2. r \in Records
      BY <3>1, Modulo DEF Candidate
    <3>3. r + 1 \in Nat
      BY <3>2 DEF Records
    <3> QED
      BY <1>4, <1>11, <3>2, <3>3, Modulo DEF PostTry, After
  <2> HIDE DEF r
  <2>2. CASE MayTake(s, r)
    <3>1. op' \in [Servers -> Op]
      BY <1>1, <1>11, <2>2, OpTypes DEF PostTry, r
    <3>2. reply' \in [Clients -> Answers \cup {None}] /\ reset' \in [Clients -> BOOLEAN]
      BY <1>2, <1>11, <2>2 DEF PostTry, Answers, r
    <3>3. /\ wlock' \in [Servers -> SUBSET Records]
          /\ rlock' \in [Servers -> SUBSET Records]
          /\ write_locked' \in [Servers -> SUBSET Records]
      <4>1. Gains(wlock, wlock', s, r) /\ Loses(rlock, rlock', s, r)
            /\ Gains(write_locked, write_locked', s, r)
        BY <1>11, <2>2 DEF PostTry, WriteLock, Gains, Loses, r
      <4> QED
        BY <1>0, <2>1, <4>1, SetGains, SetLoses
    <3>4. post_id' \in [Clients -> Records \cup {None}] /\ last' \in [Servers -> Records]
      <4>1. /\ post_id' = [post_id EXCEPT ![c] = r]
            /\ last' = [last EXCEPT ![s] = After(r)]
        BY <1>11, <2>2 DEF PostTry, r
      <4> QED
        BY <1>0, <2>1, <4>1
    <3> QED
      BY <1>0, <1>11, <3>1, <3>2, <3>3, <3>4 DEF PostTry
  <2>3. CASE ~MayTake(s, r) /\ op[s].at + 1 < RECORD_NUM
    <3>1. [op[s] EXCEPT !.at = @ + 1] \in Op
      <4>1. op[s].at + 1 \in 0..RECORD_NUM
        BY <1>0, <2>3 DEF Op
      <4> QED
        BY <1>0, <4>1 DEF Op
    <3>2. op' \in [Servers -> Op]
      BY <1>1, <1>11, <2>3, <3>1 DEF PostTry, r
    <3> QED
      BY <1>0, <1>11, <2>3, <3>2 DEF PostTry, r
  <2>4. CASE ~MayTake(s, r) /\ ~(op[s].at + 1 < RECORD_NUM)
    <3>1. op' \in [Servers -> Op]
      BY <1>1, <1>11, <2>4, OpTypes DEF PostTry, r
    <3>2. reply' \in [Clients -> Answers \cup {None}] /\ reset' \in [Clients -> BOOLEAN]
      BY <1>2, <1>11, <2>4 DEF PostTry, Answers, r
    <3> QED
      BY <1>0, <1>11, <2>4, <3>1, <3>2 DEF PostTry, r
  <2> QED
    BY <2>2, <2>3, <2>4
<1>12. CASE RecvContent(s)
  <2> DEFINE c == op[s].who
  <2>1. /\ c \in Clients /\ stream[c] # <<>>
        /\ Tail(stream[c]) \in Seq(Messages) /\ Head(stream[c]) \in Messages
    BY <1>0, <1>4, <1>12, HeadOf DEF RecvContent
  <2>2. CASE Head(stream[c]).cmd = "eof"
    BY <1>0, <1>12, <2>1, <2>2, DisconnectTypes DEF RecvContent
  <2>3. CASE Head(stream[c]).cmd # "eof"
    <3>1. Head(stream[c]).post \in Posts \cup {None}
      BY <2>1 DEF Messages, Message
    <3>2. [op[s] EXCEPT !.do = "write", !.post = Head(stream[c]).post] \in Op
      BY <1>0, <3>1 DEF Op, Doings
    <3>3. op' \in [Servers -> Op]
      BY <1>1, <1>12, <2>3, <3>2, OpTypes DEF RecvContent
    <3>4. stream' \in [Clients -> Seq(Messages)]
      BY <1>0, <1>12, <2>1, <2>3 DEF RecvContent
    <3> QED
      BY <1>0, <1>12, <2>3, <3>3, <3>4 DEF RecvContent
  <2> QED
    BY <2>2, <2>3
<1>13. ASSUME [op[s] EXCEPT !.do = "written"] \in Op, WriteFrom(s)
       PROVE  Typed'
  <2>1. op[s].post \in Cells
    BY <1>13 DEF WriteFrom, IInv, InHand, Cells
  <2>2. file' \in [Records -> [from : Cells, content : Cells]]
    <3> DEFINE r == post_id[op[s].who]
    <3>1. file' = [file EXCEPT ![r].from = op[s].post]
      BY <1>13 DEF WriteFrom
    <3>2. \A h \in [from : Cells, content : Cells] :
             [h EXCEPT !.from = op[s].post] \in [from : Cells, content : Cells]
      BY <2>1
    <3> HIDE DEF r
    <3> QED
      BY <1>0, <3>1, <3>2
  <2>3. op' \in [Servers -> Op]
    BY <1>1, <1>13 DEF WriteFrom
  <2> QED
    BY <1>0, <1>13, <2>2, <2>3 DEF WriteFrom
<1>14. CASE WriteContent(s)
  <2>1. op[s].post \in Cells /\ op[s].who \in Clients
    BY <1>4, <1>14 DEF WriteContent, IInv, InHand, Cells
  <2>2. file' \in [Records -> [from : Cells, content : Cells]]
    <3> DEFINE r == post_id[op[s].who]
    <3>1. file' = [file EXCEPT ![r].content = op[s].post]
      BY <1>14 DEF WriteContent
    <3>2. \A h \in [from : Cells, content : Cells] :
             [h EXCEPT !.content = op[s].post] \in [from : Cells, content : Cells]
      BY <2>1
    <3> HIDE DEF r
    <3> QED
      BY <1>0, <3>1, <3>2
  <2>3. op' \in [Servers -> Op]
    BY <1>1, <1>14, OpTypes DEF WriteContent
  <2>4. /\ wlock' \in [Servers -> SUBSET Records]
        /\ rlock' \in [Servers -> SUBSET Records]
        /\ write_locked' \in [Servers -> SUBSET Records]
        /\ post_id' \in [Clients -> Records \cup {None}]
    BY <1>0, <1>14, <2>1, LockTypes DEF WriteContent
  <2> QED
    BY <1>0, <1>14, <2>2, <2>3, <2>4 DEF WriteContent
<1>15. [op[s] EXCEPT !.do = "written"] \in Op
  BY <1>0 DEF Op, Doings
<1> QED
  BY <1>6, <1>7, <1>8, <1>9, <1>10, <1>11, <1>12, <1>13, <1>14, <1>15 DEF ServerStep

(* Every step keeps the types.                                             *)
LEMMA TypesStep ==
  ASSUME IInv, [Next]_vars
  PROVE  Typed'
<1>0. Typed
  BY DEF IInv
<1>1. ASSUME NEW s \in Servers, StartServer(s) PROVE Typed'
  <2>1. 0 \in Records
    BY DEF Records
  <2> QED
    BY <1>0, <1>1, <2>1 DEF StartServer, Typed, locks, network, client
<1>2. ASSUME NEW s \in Servers, Die(s) PROVE Typed'
  <2>1. /\ post_id' \in [Clients -> Records \cup {None}]
        /\ stream' \in [Clients -> Seq(Messages)]
    BY <1>0, <1>2 DEF Die, Typed
  <2>3. reset' \in [Clients -> BOOLEAN]
    BY <1>0, <1>2 DEF Die, Typed, Unread
  <2>2. op' \in [Servers -> Op]
    BY <1>0, <1>2, OpTypes DEF Die, Typed
  <2> QED
    BY <1>0, <1>2, <2>1, <2>2, <2>3 DEF Die, Typed, client
<1>3. CASE UNCHANGED vars
  BY <1>0, <1>3 DEF Typed, vars, locks, network, client
<1> QED
  BY <1>1, <1>2, <1>3, ClientTypes, ServerTypes DEF Next

-----------------------------------------------------------------------------
(* Giving a record back, whether the client had one or not.                *)
Released(s, c) ==
    /\ post_id' = [post_id EXCEPT ![c] = None]
    /\ write_locked' = [write_locked EXCEPT ![s] = @ \ {post_id[c]}]
    /\ wlock' = [wlock EXCEPT ![s] = @ \ {post_id[c]}]
    /\ rlock' = rlock

(* release_write_lock comes to that: whoever has a record has it locked.   *)
LEMMA ReleaseFacts ==
  ASSUME IInv, NEW s \in Servers, NEW c \in slots[s],
         op[s].do # "pread", ReleaseWriteLock(s, c)
  PROVE  Released(s, c)
<1>1. /\ Typed /\ c \in Clients /\ rlock[s] = {}
      /\ post_id[c] # None => post_id[c] \in write_locked[s]
      /\ write_locked[s] = wlock[s]
  BY DEF IInv, Typed, LocksAgree, Reservations
<1>2. /\ wlock \in [Servers -> SUBSET Records]
      /\ rlock \in [Servers -> SUBSET Records]
      /\ write_locked \in [Servers -> SUBSET Records]
      /\ post_id \in [Clients -> Records \cup {None}]
  BY <1>1 DEF Typed
<1>3. CASE post_id[c] \in write_locked[s]
  <2>1. [rlock EXCEPT ![s] = @ \ {post_id[c]}] = rlock
    BY <1>1, <1>2
  <2> QED
    BY <1>3, <2>1 DEF ReleaseWriteLock, Unlock, Released
<1>4. CASE post_id[c] \notin write_locked[s]
  <2>1. post_id[c] = None /\ None \notin Records
    BY <1>1, <1>4
  <2>2. [post_id EXCEPT ![c] = None] = post_id
    BY <1>1, <1>2, <2>1
  <2>3. write_locked[s] \ {post_id[c]} = write_locked[s]
    BY <1>4
  <2>4. /\ [write_locked EXCEPT ![s] = @ \ {post_id[c]}] = write_locked
        /\ [wlock EXCEPT ![s] = @ \ {post_id[c]}] = wlock
    BY <1>1, <1>2, <2>3
  <2> QED
    BY <1>4, <2>2, <2>4 DEF ReleaseWriteLock, Released, locks
<1> QED
  BY <1>3, <1>4

(* Closing a connection of server s.                                       *)
Closed(s, c) ==
    /\ Released(s, c)
    /\ slots' = [slots EXCEPT ![s] = @ \ {c}]
    /\ Forget(c)
    /\ Become(s, Select0)

(* What close and free_client do together.                                 *)
LEMMA DisconnectFacts ==
  ASSUME IInv, NEW s \in Servers, NEW c \in slots[s],
         op[s].do # "pread", Disconnect(s, c)
  PROVE  Closed(s, c)
BY ReleaseFacts DEF Disconnect, Closed

-----------------------------------------------------------------------------
(* Queues of connections: who is in one that gains or loses one.           *)
Elems(q)    == {q[k] : k \in 1..Len(q)}
Distinct(q) == \A j, k \in 1..Len(q) : q[j] = q[k] => j = k

(* A connection is queued last.                                            *)
LEMMA QueueGains ==
  ASSUME NEW q \in Seq(Clients), NEW c \in Clients, Distinct(q), c \notin Elems(q)
  PROVE  Elems(Append(q, c)) = Elems(q) \cup {c} /\ Distinct(Append(q, c))
<1> DEFINE r == Append(q, c)
           n == Len(q)
<1>1. /\ n \in Nat /\ Len(r) = n + 1 /\ r[n + 1] = c
      /\ \A k \in 1..n : r[k] = q[k]
      /\ \A k \in 1..(n + 1) : k \in 1..n \/ k = n + 1
      /\ n + 1 \in 1..(n + 1) /\ \A k \in 1..n : k \in 1..(n + 1)
  OBVIOUS
<1>2. \A k \in 1..n : q[k] # c
  BY DEF Elems
<1>3. \A j, k \in 1..n : q[j] = q[k] => j = k
  BY DEF Distinct
<1> HIDE DEF r
<1>4. Distinct(r)
  BY <1>1, <1>2, <1>3 DEF Distinct
<1>5. Elems(r) = {q[k] : k \in 1..n} \cup {c}
  <2> HIDE DEF n
  <2>1. Elems(r) \subseteq {q[k] : k \in 1..n} \cup {c}
    BY <1>1 DEF Elems
  <2>2. \A k \in 1..n : q[k] \in Elems(r)
    BY <1>1 DEF Elems
  <2>3. c \in Elems(r)
    BY <1>1 DEF Elems
  <2> QED
    BY <2>1, <2>2, <2>3
<1> QED
  BY <1>4, <1>5 DEF Elems, r

(* The oldest connection leaves the queue.                                 *)
LEMMA QueueLoses ==
  ASSUME NEW q \in Seq(Clients), q # <<>>, Distinct(q)
  PROVE  /\ Head(q) \in Elems(q)
         /\ Elems(Tail(q)) = Elems(q) \ {Head(q)} /\ Distinct(Tail(q))
<1> DEFINE r == Tail(q)
           n == Len(q)
<1>1. n \in Nat /\ n # 0 /\ Len(r) = n - 1 /\ Head(q) = q[1]
  OBVIOUS
<1>2. ASSUME NEW k \in 1..(n - 1)
      PROVE  r[k] = q[k + 1] /\ k + 1 \in 1..n /\ k + 1 # 1
  BY <1>1
<1>3. 1 \in 1..n /\ \A k \in 1..n : k = 1 \/ (k - 1 \in 1..(n - 1) /\ (k - 1) + 1 = k)
  BY <1>1
<1>4. \A j, k \in 1..n : q[j] = q[k] => j = k
  BY DEF Distinct
<1> HIDE DEF r, n
<1>5. Distinct(r)
  <2> SUFFICES ASSUME NEW j \in 1..(n - 1), NEW k \in 1..(n - 1), r[j] = r[k]
               PROVE  j = k
    BY <1>1 DEF Distinct
  <2>1. j + 1 = k + 1
    BY <1>2, <1>4
  <2> QED
    BY <2>1
<1>6. ASSUME NEW x \in Elems(r) PROVE x \in {q[k] : k \in 1..n} \ {q[1]}
  <2>1. PICK k \in 1..(n - 1) : x = r[k]
    BY <1>1 DEF Elems
  <2>2. x = q[k + 1] /\ k + 1 \in 1..n /\ q[k + 1] # q[1]
    BY <1>2, <1>3, <1>4, <2>1
  <2> QED
    BY <2>2
<1>7. ASSUME NEW x \in {q[k] : k \in 1..n} \ {q[1]} PROVE x \in Elems(r)
  <2>1. PICK k \in 1..n : x = q[k] /\ k # 1
    OBVIOUS
  <2>2. k - 1 \in 1..(n - 1) /\ r[k - 1] = q[k]
    BY <1>2, <1>3, <2>1
  <2> QED
    BY <1>1, <2>1, <2>2 DEF Elems
<1>8. Elems(q) = {q[k] : k \in 1..n}
  BY DEF Elems, n
<1> QED
  BY <1>1, <1>3, <1>5, <1>6, <1>7, <1>8 DEF r

-----------------------------------------------------------------------------
(* What the steps do to connections: they start, wait, are accepted or not *)
(* and end.                                                                *)
Starts(s, c) ==
    /\ ~Linked(c)
    /\ backlog' = [backlog EXCEPT ![s] = Append(@, c)]
    /\ UNCHANGED slots

Ends(s) ==
    /\ slots' = [slots EXCEPT ![s] = {}]
    /\ backlog' = [backlog EXCEPT ![s] = <<>>]

Accepts(s) ==
    /\ backlog[s] # <<>>
    /\ backlog' = [backlog EXCEPT ![s] = Tail(@)]
    /\ \/ /\ Cardinality(slots[s]) < MAX_CLIENTS
          /\ slots' = [slots EXCEPT ![s] = @ \cup {Head(backlog[s])}]
       \/ UNCHANGED slots

Closes(s, c) ==
    /\ c \in slots[s]
    /\ slots' = [slots EXCEPT ![s] = @ \ {c}]
    /\ UNCHANGED backlog

(* Nothing else happens to slots and backlog.                              *)
LEMMA ConnectionMoves ==
  ASSUME IInv, [Next]_vars
  PROVE  \/ UNCHANGED <<slots, backlog>>
         \/ \E s \in Servers, c \in Clients : Starts(s, c)
         \/ \E s \in Servers : Ends(s) \/ Accepts(s)
         \/ \E s \in Servers, c \in Clients : Closes(s, c)
<1>1. ASSUME NEW c \in Clients, ClientStep(c)
      PROVE  \/ UNCHANGED <<slots, backlog>>
             \/ \E s \in Servers : Starts(s, c)
  BY <1>1 DEF ClientStep, Pull, Post, GiveUp, SendContent, ClientSends,
     SendData, TakeReply, ReadFails, Leave, Start, Starts
<1>2. ASSUME NEW s \in Servers, ServerStep(s)
      PROVE  \/ UNCHANGED <<slots, backlog>>
             \/ Accepts(s)
             \/ \E c \in Clients : Closes(s, c)
  <2>1. CASE Select(s)
    BY <2>1 DEF Select, Accept, Accepts
  <2>2. CASE Serve(s)
    <3>1. PICK c \in Clients, w \in CmdWords : Served(s, c, w)
      BY <2>2, ServeFacts
    <3> QED
      BY <3>1 DEF Served, Disconnect, Consume, Closes
  <2>3. CASE RecvContent(s)
    <3>1. op[s].who \in slots[s] /\ slots[s] \subseteq Clients
      BY <2>3 DEF RecvContent, IInv, Links, Serving, Typed
    <3> QED
      BY <2>3, <3>1 DEF RecvContent, Disconnect, Closes
  <2>4. CASE \/ PullTry(s) \/ PullRead(s) \/ PullAnswer(s) \/ PostTry(s)
             \/ WriteFrom(s) \/ WriteContent(s)
    BY <2>4 DEF PullTry, PullRead, PullAnswer, PostTry, WriteFrom, WriteContent
  <2> QED
    BY <1>2, <2>1, <2>2, <2>3, <2>4 DEF ServerStep
<1>3. ASSUME NEW s \in Servers, StartServer(s) \/ Die(s)
      PROVE  UNCHANGED <<slots, backlog>> \/ Ends(s)
  BY <1>3 DEF StartServer, Die, Ends
<1>4. CASE UNCHANGED vars
  BY <1>4 DEF vars
<1> QED
  BY <1>1, <1>2, <1>3, <1>4 DEF Next

(* A server never has more connections than it may, and a client never     *)
(* two.                                                                    *)
LEMMA ConnectionsStep ==
  ASSUME IInv, [Next]_vars
  PROVE  \A t \in Servers : Room(t)' /\ Queue(t)' /\ Apart(t)'
<1>0. /\ slots \in [Servers -> SUBSET Clients]
      /\ backlog \in [Servers -> Seq(Clients)]
      /\ \A t \in Servers : Room(t) /\ Queue(t) /\ Apart(t)
  BY DEF IInv, Typed, Links
<1>1. CASE UNCHANGED <<slots, backlog>>
  <2>1. \A t \in Servers : InBacklog(t)' = InBacklog(t)
    BY <1>1 DEF InBacklog
  <2>2. slots' = slots /\ backlog' = backlog
    BY <1>1
  <2>3. \A t \in Servers : Room(t)'
    BY <1>0, <2>2 DEF Room
  <2>4. \A t \in Servers : Queue(t)' /\ Apart(t)'
    BY <1>0, <2>1, <2>2 DEF Queue, Apart, LinkedTo
  <2> QED
    BY <2>3, <2>4
<1>2. ASSUME NEW s \in Servers, NEW c \in Clients, Starts(s, c)
      PROVE  \A t \in Servers : Room(t)' /\ Queue(t)' /\ Apart(t)'
  <2>1. \A t \in Servers : c \notin slots[t] /\ c \notin InBacklog(t)
    BY <1>2 DEF Starts, Linked, LinkedTo
  <2>2. /\ InBacklog(s)' = InBacklog(s) \cup {c}
        /\ Distinct(backlog'[s])
    <3>1. backlog'[s] = Append(backlog[s], c)
      BY <1>0, <1>2 DEF Starts
    <3>2. c \notin Elems(backlog[s]) /\ Distinct(backlog[s])
      BY <1>0, <2>1 DEF Elems, Distinct, InBacklog, Queue
    <3>3. Elems(backlog'[s]) = Elems(backlog[s]) \cup {c} /\ Distinct(backlog'[s])
      BY <1>0, <3>1, <3>2, QueueGains
    <3> QED
      BY <3>3 DEF InBacklog, Elems
  <2>3. \A t \in Servers \ {s} : backlog'[t] = backlog[t] /\ InBacklog(t)' = InBacklog(t)
    BY <1>0, <1>2 DEF Starts, InBacklog
  <2>4. slots' = slots
    BY <1>2 DEF Starts
  <2>5. \A t \in Servers : Room(t)'
    BY <1>0, <2>4 DEF Room
  <2>6. \A t \in Servers : Queue(t)'
    BY <1>0, <2>1, <2>2, <2>3, <2>4 DEF Queue, Distinct
  <2>7. \A t \in Servers : Apart(t)'
    BY <1>0, <2>1, <2>2, <2>3, <2>4, SMTT(30) DEF Apart, LinkedTo
  <2> QED
    BY <2>5, <2>6, <2>7
<1>3. ASSUME NEW s \in Servers, Ends(s)
      PROVE  \A t \in Servers : Room(t)' /\ Queue(t)' /\ Apart(t)'
  <2>1. /\ slots'[s] = {} /\ backlog'[s] = <<>>
        /\ \A t \in Servers \ {s} : slots'[t] = slots[t] /\ backlog'[t] = backlog[t]
    BY <1>0, <1>3 DEF Ends
  <2>2. Len(backlog'[s]) = 0 /\ InBacklog(s)' = {}
    BY <2>1 DEF InBacklog
  <2>3. \A t \in Servers \ {s} : InBacklog(t)' = InBacklog(t)
    BY <2>1 DEF InBacklog
  <2>4. \A t \in Servers : Room(t)'
    <3>1. Room(s)'
      BY <2>1, FS_EmptySet DEF Room
    <3> QED
      BY <1>0, <2>1, <3>1 DEF Room
  <2>5. \A t \in Servers : Queue(t)'
    BY <1>0, <2>1, <2>2, <2>3 DEF Queue
  <2>6. \A t \in Servers : Apart(t)'
    BY <1>0, <2>1, <2>2, <2>3 DEF Apart, LinkedTo
  <2> QED
    BY <2>4, <2>5, <2>6
<1>4. ASSUME NEW s \in Servers, Accepts(s)
      PROVE  \A t \in Servers : Room(t)' /\ Queue(t)' /\ Apart(t)'
  <2> DEFINE c == Head(backlog[s])
  <2>1. /\ c \in Clients /\ c \in InBacklog(s)
        /\ InBacklog(s)' = InBacklog(s) \ {c} /\ Distinct(backlog'[s])
    <3>1. backlog'[s] = Tail(backlog[s]) /\ backlog[s] # <<>>
      BY <1>0, <1>4 DEF Accepts
    <3>2. Distinct(backlog[s]) /\ backlog[s] \in Seq(Clients)
      BY <1>0 DEF Distinct, Queue
    <3>3. /\ c \in Elems(backlog[s])
          /\ Elems(backlog'[s]) = Elems(backlog[s]) \ {c} /\ Distinct(backlog'[s])
      BY <3>1, <3>2, QueueLoses
    <3>4. c \in Clients
      BY <3>1, <3>2, HeadOf
    <3> HIDE DEF c
    <3>5. InBacklog(s) = Elems(backlog[s]) /\ InBacklog(s)' = Elems(backlog'[s])
      BY DEF InBacklog, Elems
    <3> QED
      BY <3>3, <3>4, <3>5
  <2>2. /\ \A t \in Servers \ {s} : /\ backlog'[t] = backlog[t]
                                    /\ InBacklog(t)' = InBacklog(t)
                                    /\ slots'[t] = slots[t]
        /\ \/ slots'[s] = slots[s]
           \/ /\ slots'[s] = slots[s] \cup {c}
              /\ Cardinality(slots[s]) < MAX_CLIENTS
    BY <1>0, <1>4 DEF Accepts, InBacklog
  <2> HIDE DEF c
  <2>3. Room(s)'
    <3>1. IsFiniteSet(slots[s]) /\ Cardinality(slots[s]) \in Nat
          /\ Cardinality(slots[s]) <= MAX_CLIENTS
      BY <1>0, FS_CardinalityType DEF Room
    <3>2. /\ IsFiniteSet(slots[s] \cup {c})
          /\ Cardinality(slots[s] \cup {c}) \in {Cardinality(slots[s]),
                                                 Cardinality(slots[s]) + 1}
      BY <3>1, FS_AddElement
    <3>3. \A n, m \in Nat : n < m => n + 1 <= m
      OBVIOUS
    <3>4. /\ IsFiniteSet(slots'[s])
          /\ Cardinality(slots'[s]) <= MAX_CLIENTS
      BY <2>2, <3>1, <3>2, <3>3
    <3> QED
      BY <3>4 DEF Room
  <2>4. \A t \in Servers : Room(t)'
    BY <1>0, <2>2, <2>3 DEF Room
  <2>5. \A t \in Servers : Queue(t)'
    BY <1>0, <2>1, <2>2 DEF Queue, Distinct
  <2>6. \A t \in Servers : Apart(t)'
    BY <1>0, <2>1, <2>2, SMTT(30) DEF Apart, LinkedTo
  <2> QED
    BY <2>4, <2>5, <2>6
<1>5. ASSUME NEW s \in Servers, NEW c \in Clients, Closes(s, c)
      PROVE  \A t \in Servers : Room(t)' /\ Queue(t)' /\ Apart(t)'
  <2>1. /\ \A t \in Servers : backlog'[t] = backlog[t] /\ InBacklog(t)' = InBacklog(t)
        /\ slots'[s] = slots[s] \ {c}
        /\ \A t \in Servers \ {s} : slots'[t] = slots[t]
    BY <1>0, <1>5 DEF Closes, InBacklog
  <2>2. Room(s)'
    <3>1. IsFiniteSet(slots[s]) /\ Cardinality(slots[s]) \in Nat
          /\ Cardinality(slots[s]) <= MAX_CLIENTS
      BY <1>0, FS_CardinalityType DEF Room
    <3>2. /\ IsFiniteSet(slots[s] \ {c})
          /\ Cardinality(slots[s] \ {c}) \in {Cardinality(slots[s]),
                                                Cardinality(slots[s]) - 1}
      BY <3>1, FS_RemoveElement
    <3> QED
      BY <2>1, <3>1, <3>2 DEF Room
  <2>3. \A t \in Servers : Room(t)'
    BY <1>0, <2>1, <2>2 DEF Room
  <2>4. \A t \in Servers : slots'[t] \subseteq slots[t]
    BY <2>1
  <2>5. \A t \in Servers : Queue(t)'
    BY <1>0, <2>1, <2>4 DEF Queue
  <2>6. \A t \in Servers : Apart(t)'
    BY <1>0, <2>1, <2>4 DEF Apart, LinkedTo
  <2> QED
    BY <2>3, <2>5, <2>6
<1> QED
  BY <1>1, <1>2, <1>3, <1>4, <1>5, ConnectionMoves

-----------------------------------------------------------------------------
(* What a step leaves alone: a client's step, all the servers but for the  *)
(* data that arrive; a server's step, the other servers and their clients. *)
LEMMA ClientFrame ==
  ASSUME IInv, NEW c \in Clients, ClientStep(c)
  PROVE  /\ UNCHANGED <<file, wlock, rlock, up, write_locked, last, slots,
                        post_id, ready, op>>
         /\ \A d \in Clients \ {c} : /\ stream'[d] = stream[d]
                                     /\ reply'[d] = reply[d]
                                     /\ reset'[d] = reset[d]
                                     /\ pc'[d] = pc[d]
         /\ stream[c] # <<>> => stream'[c] # <<>>
<1>0. Typed
  BY DEF IInv
<1>1. ASSUME NEW m \in Messages, Send(c, m)
      PROVE  /\ \A d \in Clients \ {c} : stream'[d] = stream[d]
             /\ stream[c] # <<>> => stream'[c] # <<>>
  <2>1. Append(stream[c], m) # <<>>
    <3>1. stream[c] \in Seq(Messages)
      BY <1>0 DEF Typed
    <3>2. Len(Append(stream[c], m)) = Len(stream[c]) + 1 /\ Len(stream[c]) \in Nat
      BY <3>1
    <3> QED
      BY <3>2
  <2> QED
    BY <1>0, <1>1, <2>1 DEF Send, Typed
<1>2. ASSUME NEW from, NEW to, NEW w \in {"pull", "post", "content", "release"},
             ClientSends(c, from, to, w)
      PROVE  /\ UNCHANGED <<file, wlock, rlock, up, write_locked, last, slots,
                            post_id, ready, op>>
             /\ \A d \in Clients \ {c} : /\ stream'[d] = stream[d]
                                         /\ reply'[d] = reply[d]
                                         /\ reset'[d] = reset[d]
                                         /\ pc'[d] = pc[d]
             /\ stream[c] # <<>> => stream'[c] # <<>>
  BY <1>0, <1>1, <1>2, Words DEF ClientSends, At, Typed, locks
<1>3. CASE Pull(c) \/ Post(c) \/ GiveUp(c) \/ SendContent(c)
  BY <1>2, <1>3 DEF Pull, Post, GiveUp, SendContent
<1>4. CASE SendData(c)
  BY <1>0, <1>1, <1>4, Words DEF SendData, At, Typed, locks
<1>5. CASE TakeReply(c) \/ ReadFails(c)
  BY <1>0, <1>5 DEF TakeReply, ReadFails, At, Typed, locks, network
<1>6. CASE Leave(c)
  BY <1>0, <1>1, <1>6, Words DEF Leave, At, Typed, locks
<1>7. ASSUME NEW s \in Servers, Start(c, s)
      PROVE  /\ UNCHANGED <<file, wlock, rlock, up, write_locked, last, slots,
                            post_id, ready, op>>
             /\ \A d \in Clients \ {c} : /\ stream'[d] = stream[d]
                                         /\ reply'[d] = reply[d]
                                         /\ reset'[d] = reset[d]
                                         /\ pc'[d] = pc[d]
             /\ stream[c] # <<>> => stream'[c] # <<>>
  BY <1>0, <1>7 DEF Start, At, Typed, locks
<1> QED
  BY <1>3, <1>4, <1>5, <1>6, <1>7 DEF ClientStep

SameServer(t) ==
    /\ op'[t] = op[t] /\ ready'[t] = ready[t]
    /\ slots'[t] = slots[t] /\ backlog'[t] = backlog[t]
    /\ write_locked'[t] = write_locked[t]
    /\ wlock'[t] = wlock[t] /\ rlock'[t] = rlock[t]

SameClient(c) ==
    /\ stream'[c] = stream[c] /\ reply'[c] = reply[c]
    /\ reset'[c] = reset[c] /\ post_id'[c] = post_id[c]

(* A server's step changes neither other servers nor their clients.        *)
LEMMA ServerFrame ==
  ASSUME IInv, NEW s \in Servers, ServerStep(s) \/ StartServer(s) \/ Die(s)
  PROVE  /\ pc' = pc /\ granted' = granted
         /\ \A t \in Servers \ {s} : SameServer(t)
         /\ \A t \in Servers \ {s} : \A c \in LinkedTo(t) : SameClient(c)
<1>0. /\ Typed
      /\ op[s].do # "select" => op[s].who \in LinkedTo(s)
      /\ \A t \in Servers : LinkedTo(t) \subseteq Clients
      /\ \A t \in Servers \ {s} : \A c \in LinkedTo(t) : c \in Clients \ LinkedTo(s)
  BY DEF IInv, Typed, Links, Serving, Apart, LinkedTo, InBacklog
<1>1. ASSUME NEW c, ReleaseWriteLock(s, c)
      PROVE  /\ \A t \in Servers \ {s} : /\ write_locked'[t] = write_locked[t]
                                         /\ wlock'[t] = wlock[t]
                                         /\ rlock'[t] = rlock[t]
             /\ \A d \in Clients \ {c} : post_id'[d] = post_id[d]
  BY <1>0, <1>1 DEF ReleaseWriteLock, Unlock, locks, Typed
<1>2. ASSUME NEW c, Forget(c)
      PROVE  \A d \in Clients \ {c} : stream'[d] = stream[d] /\ reset'[d] = reset[d]
  BY <1>0, <1>2 DEF Forget, Typed
<1>3. ASSUME NEW o, Become(s, o)
      PROVE  \A t \in Servers \ {s} : op'[t] = op[t]
  BY <1>0, <1>3 DEF Become, Typed
<1>4. ASSUME NEW c, NEW a, Write(c, a)
      PROVE  \A d \in Clients \ {c} : reply'[d] = reply[d] /\ reset'[d] = reset[d]
  BY <1>0, <1>4 DEF Write, Typed
<1>5. CASE Select(s)
  <2>1. \A t \in Servers \ {s} : SameServer(t)
    BY <1>0, <1>5 DEF Select, Accept, SameServer, Typed, locks
  <2>2. \A c \in Clients \ LinkedTo(s) : stream'[c] = stream[c] /\ reset'[c] = reset[c]
    <3>1. CASE UNCHANGED <<stream, reset>>
      BY <3>1
    <3>2. CASE backlog[s] # <<>> /\ Forget(Head(backlog[s]))
      <4>1. Head(backlog[s]) \in LinkedTo(s)
        <5>1. backlog[s] \in Seq(Clients)
          BY <1>0 DEF Typed
        <5>2. Distinct(backlog[s])
          BY DEF IInv, Links, Queue, Distinct
        <5> QED
          BY <3>2, <5>1, <5>2, QueueLoses DEF Elems, LinkedTo, InBacklog
      <4> QED
        BY <1>2, <3>2, <4>1
    <3> QED
      BY <1>5, <3>1, <3>2 DEF Select, Accept
  <2> QED
    BY <1>0, <1>5, <2>1, <2>2 DEF Select, SameClient, client
<1>6. CASE Serve(s)
  <2>1. PICK c \in Clients, w \in CmdWords : Served(s, c, w)
    BY <1>6, ServeFacts
  <2>2. c \in LinkedTo(s) /\ pc' = pc /\ granted' = granted /\ reply' = reply
        /\ backlog' = backlog
    BY <2>1 DEF Served, LinkedTo, client
  <2>3. \A t \in Servers \ {s} : ready'[t] = ready[t]
    BY <1>0, <2>1 DEF Served, Typed
  <2>4. CASE Disconnect(s, c)
    <3>1. \A t \in Servers \ {s} : SameServer(t)
      BY <1>0, <1>1, <1>3, <2>2, <2>3, <2>4 DEF Disconnect, SameServer, Typed
    <3> QED
      BY <1>0, <1>1, <1>2, <2>2, <2>4, <3>1 DEF Disconnect, SameClient
  <2>5. CASE Consume(c) /\ (\E o : Become(s, o)) /\ UNCHANGED <<locks, write_locked, post_id>>
    <3>1. \A t \in Servers \ {s} : SameServer(t)
      BY <1>3, <2>2, <2>3, <2>5 DEF Consume, SameServer, locks
    <3> QED
      BY <1>0, <2>2, <2>5, <3>1 DEF Consume, SameClient, Typed
  <2>6. CASE ReleaseWriteLock(s, c) /\ Consume(c) /\ UNCHANGED op
    <3>1. \A t \in Servers \ {s} : SameServer(t)
      BY <1>1, <2>2, <2>3, <2>6 DEF Consume, SameServer
    <3> QED
      BY <1>0, <1>1, <2>2, <2>6, <3>1 DEF Consume, SameClient, Typed
  <2> QED
    BY <2>1, <2>4, <2>5, <2>6 DEF Served
<1>7. CASE PullTry(s) \/ PullRead(s)
  <2>1. \A t \in Servers \ {s} : SameServer(t)
    BY <1>0, <1>3, <1>7 DEF PullTry, PullRead, ReadLock, Unlock, SameServer, Typed,
       locks
  <2> QED
    BY <1>7, <2>1 DEF PullTry, PullRead, SameClient, network, client
<1>8. CASE PullAnswer(s)
  <2>1. \A t \in Servers \ {s} : SameServer(t)
    BY <1>3, <1>8 DEF PullAnswer, SameServer, locks
  <2> QED
    BY <1>0, <1>4, <1>8, <2>1 DEF PullAnswer, SameClient, client
<1>9. CASE PostTry(s)
  <2> DEFINE c == op[s].who
             r == Candidate(s)
  <2>0. c \in LinkedTo(s) /\ pc' = pc /\ granted' = granted
        /\ UNCHANGED <<slots, backlog, ready, stream>>
    BY <1>0, <1>9 DEF PostTry, client
  <2>1. CASE MayTake(s, r)
    <3>1. \A t \in Servers \ {s} : SameServer(t)
      BY <1>0, <1>3, <1>9, <2>0, <2>1 DEF PostTry, WriteLock, SameServer, Typed
    <3>2. Write(c, "grant") /\ post_id' = [post_id EXCEPT ![c] = r]
      BY <1>9, <2>1 DEF PostTry
    <3> HIDE DEF r
    <3> QED
      BY <1>0, <1>4, <2>0, <3>1, <3>2 DEF SameClient, Typed
  <2>2. CASE ~MayTake(s, r)
    <3>1. \A t \in Servers \ {s} : SameServer(t)
      BY <1>3, <1>9, <2>0, <2>2 DEF PostTry, SameServer, locks
    <3>2. Write(c, "refuse") \/ UNCHANGED <<reply, reset>>
      BY <1>9, <2>2 DEF PostTry
    <3>3. UNCHANGED post_id
      BY <1>9, <2>2 DEF PostTry
    <3> QED
      BY <1>0, <1>4, <2>0, <3>1, <3>2, <3>3 DEF SameClient
  <2> QED
    BY <2>1, <2>2
<1>10. CASE RecvContent(s)
  <2> DEFINE c == op[s].who
  <2>0. c \in LinkedTo(s) /\ pc' = pc /\ granted' = granted /\ reply' = reply
        /\ UNCHANGED <<backlog, ready>>
    BY <1>0, <1>10 DEF RecvContent, client
  <2>1. CASE Disconnect(s, c)
    <3>1. \A t \in Servers \ {s} : SameServer(t)
      BY <1>0, <1>1, <1>3, <2>0, <2>1 DEF Disconnect, SameServer, Typed
    <3> QED
      BY <1>0, <1>1, <1>2, <2>0, <2>1, <3>1 DEF Disconnect, SameClient
  <2>2. CASE /\ stream' = [stream EXCEPT ![c] = Tail(@)]
             /\ \E o : Become(s, o)
             /\ UNCHANGED <<locks, write_locked, post_id, slots, reset>>
    <3>1. \A t \in Servers \ {s} : SameServer(t)
      BY <1>3, <2>0, <2>2 DEF SameServer, locks
    <3> QED
      BY <1>0, <2>0, <2>2, <3>1 DEF SameClient, Typed
  <2> QED
    BY <1>10, <2>1, <2>2 DEF RecvContent
<1>11. CASE WriteFrom(s)
  <2>1. \A t \in Servers \ {s} : SameServer(t)
    BY <1>3, <1>11 DEF WriteFrom, SameServer, locks
  <2> QED
    BY <1>11, <2>1 DEF WriteFrom, SameClient, network, client
<1>12. CASE WriteContent(s)
  <2>1. \A t \in Servers \ {s} : SameServer(t)
    BY <1>1, <1>3, <1>12 DEF WriteContent, SameServer
  <2> QED
    BY <1>0, <1>1, <1>12, <2>1 DEF WriteContent, SameClient, network, client
<1>13. CASE StartServer(s)
  BY <1>13 DEF StartServer, SameServer, SameClient, locks, network, client
<1>14. CASE Die(s)
  <2>1. \A t \in Servers \ {s} : SameServer(t)
    BY <1>0, <1>14 DEF Die, SameServer, Typed
  <2>2. \A c \in Clients \ LinkedTo(s) : SameClient(c)
    BY <1>14 DEF Die, SameClient, LinkedTo
  <2> QED
    BY <1>0, <1>14, <2>1, <2>2 DEF Die, client
<1> QED
  BY <1>5, <1>6, <1>7, <1>8, <1>9, <1>10, <1>11, <1>12, <1>13, <1>14 DEF ServerStep

(* What a server does next.                                                *)
Continues(s, d, i) ==
    /\ op'[s].do = d /\ op'[s].at = i
    /\ op'[s].who = op[s].who

(* What each step of server.c leaves in op[s].                             *)
LEMMA OpMoves ==
  ASSUME Typed, NEW s \in Servers
  PROVE  /\ \A o : Become(s, o) => op'[s] = o
         /\ PullTry(s) =>
              /\ op[s].do = "pull" /\ op'[s].seen = op[s].seen
              /\ IF MayRead(s, op[s].at) THEN Continues(s, "pread", op[s].at)
                 ELSE Continues(s, "pull", op[s].at + 1)
         /\ PullRead(s) =>
              /\ op[s].do = "pread" /\ Continues(s, "pull", op[s].at + 1)
              /\ op'[s].seen = IF file[op[s].at] = Whole(Blank) THEN op[s].seen
                               ELSE Append(op[s].seen, file[op[s].at])
         /\ PostTry(s) =>
              /\ op[s].do = "post"
              /\ \/ op'[s] = Select0
                 \/ Continues(s, "post", op[s].at + 1) /\ op'[s].seen = op[s].seen
         /\ RecvContent(s) =>
              /\ op[s].do = "recv"
              /\ \/ op'[s] = Select0
                 \/ /\ Continues(s, "write", op[s].at) /\ op'[s].seen = op[s].seen
                    /\ op'[s].post = Head(stream[op[s].who]).post
                    /\ Head(stream[op[s].who]).cmd # "eof"
                    /\ post_id[op[s].who] # None
         /\ WriteFrom(s) =>
              /\ op[s].do = "write" /\ Continues(s, "written", op[s].at)
              /\ op'[s].seen = op[s].seen /\ op'[s].post = op[s].post
         /\ PullAnswer(s) => op[s].do = "pull" /\ op'[s] = Select0
         /\ WriteContent(s) => op[s].do = "written" /\ op'[s] = Select0
<1>0. op[s] \in Op /\ s \in DOMAIN op
  BY DEF Typed
<1>1. ASSUME NEW o, Become(s, o) PROVE op'[s] = o
  BY <1>0, <1>1 DEF Become
<1>2. ASSUME NEW d, op'[s] = [op[s] EXCEPT !.do = d]
      PROVE  Continues(s, d, op[s].at) /\ op'[s].seen = op[s].seen
             /\ op'[s].post = op[s].post
  BY <1>0, <1>2 DEF Op, Continues
<1>3. ASSUME NEW i, op'[s] = [op[s] EXCEPT !.at = i]
      PROVE  Continues(s, op[s].do, i) /\ op'[s].seen = op[s].seen
  BY <1>0, <1>3 DEF Op, Continues
<1>6. ASSUME PullTry(s)
      PROVE  /\ op[s].do = "pull" /\ op'[s].seen = op[s].seen
             /\ IF MayRead(s, op[s].at) THEN Continues(s, "pread", op[s].at)
                ELSE Continues(s, "pull", op[s].at + 1)
  <2>0. op[s].do = "pull"
    BY <1>6 DEF PullTry
  <2>1. CASE MayRead(s, op[s].at)
    <3>1. op'[s] = [op[s] EXCEPT !.do = "pread"]
      BY <1>1, <1>6, <2>1 DEF PullTry
    <3> QED
      BY <1>2, <2>0, <2>1, <3>1
  <2>2. CASE ~MayRead(s, op[s].at)
    <3>1. op'[s] = [op[s] EXCEPT !.at = op[s].at + 1]
      BY <1>1, <1>6, <2>2 DEF PullTry
    <3> QED
      BY <1>3, <2>0, <2>2, <3>1
  <2> QED
    BY <2>1, <2>2
<1>7. ASSUME PullRead(s)
      PROVE  /\ op[s].do = "pread" /\ Continues(s, "pull", op[s].at + 1)
             /\ op'[s].seen = IF file[op[s].at] = Whole(Blank) THEN op[s].seen
                              ELSE Append(op[s].seen, file[op[s].at])
  <2> DEFINE q == IF file[op[s].at] = Whole(Blank) THEN op[s].seen
                  ELSE Append(op[s].seen, file[op[s].at])
  <2>1. op[s].do = "pread"
        /\ op'[s] = [op[s] EXCEPT !.do = "pull", !.at = op[s].at + 1, !.seen = q]
    BY <1>1, <1>7 DEF PullRead
  <2> HIDE DEF q
  <2>2. Continues(s, "pull", op[s].at + 1) /\ op'[s].seen = q
    BY <1>0, <2>1 DEF Op, Continues
  <2> QED
    BY <2>1, <2>2 DEF q
<1>8. ASSUME PostTry(s)
      PROVE  /\ op[s].do = "post"
             /\ \/ op'[s] = Select0
                \/ Continues(s, "post", op[s].at + 1) /\ op'[s].seen = op[s].seen
  <2>1. /\ op[s].do = "post"
        /\ op'[s] = Select0 \/ op'[s] = [op[s] EXCEPT !.at = op[s].at + 1]
    BY <1>1, <1>8 DEF PostTry
  <2> QED
    BY <1>3, <2>1
<1>9. ASSUME RecvContent(s)
      PROVE  /\ op[s].do = "recv"
             /\ \/ op'[s] = Select0
                \/ /\ Continues(s, "write", op[s].at) /\ op'[s].seen = op[s].seen
                   /\ op'[s].post = Head(stream[op[s].who]).post
                   /\ Head(stream[op[s].who]).cmd # "eof"
                   /\ post_id[op[s].who] # None
  <2> DEFINE m == Head(stream[op[s].who])
  <2>1. /\ op[s].do = "recv"
        /\ \/ op'[s] = Select0
           \/ /\ op'[s] = [op[s] EXCEPT !.do = "write", !.post = m.post]
              /\ m.cmd # "eof" /\ post_id[op[s].who] # None
    BY <1>1, <1>9 DEF RecvContent, Disconnect
  <2>2. ASSUME NEW p, op'[s] = [op[s] EXCEPT !.do = "write", !.post = p]
        PROVE  Continues(s, "write", op[s].at) /\ op'[s].seen = op[s].seen
               /\ op'[s].post = p
    BY <1>0, <2>2 DEF Op, Continues
  <2> QED
    BY <2>1, <2>2
<1>10. ASSUME WriteFrom(s)
       PROVE  /\ op[s].do = "write" /\ Continues(s, "written", op[s].at)
              /\ op'[s].seen = op[s].seen /\ op'[s].post = op[s].post
  <2>1. op[s].do = "write" /\ op'[s] = [op[s] EXCEPT !.do = "written"]
    BY <1>1, <1>10 DEF WriteFrom
  <2> QED
    BY <1>2, <2>1
<1>11. /\ PullAnswer(s) => op[s].do = "pull" /\ op'[s] = Select0
       /\ WriteContent(s) => op[s].do = "written" /\ op'[s] = Select0
  BY <1>1 DEF PullAnswer, WriteContent
<1> QED
  BY <1>1, <1>6, <1>7, <1>8, <1>9, <1>10, <1>11

(* A client that waits or is accepted is linked.                           *)
LEMMA LinkedGrow ==
  ASSUME IInv, NEW c \in Clients, ClientStep(c)
  PROVE  /\ \A t \in Servers : LinkedTo(t) \subseteq LinkedTo(t)'
         /\ \A t \in Servers : LinkedTo(t)' \subseteq LinkedTo(t) \cup {c}
         /\ \A s \in Servers : Start(c, s) => ~Linked(c) /\ c \in LinkedTo(s)'
         /\ \/ \A t \in Servers : LinkedTo(t)' = LinkedTo(t)
            \/ \E s \in Servers : Start(c, s)
<1>0. Typed /\ slots' = slots
  BY ClientFrame DEF IInv
<1>1. ASSUME UNCHANGED backlog
      PROVE  \A t \in Servers : LinkedTo(t)' = LinkedTo(t)
  BY <1>0, <1>1 DEF LinkedTo, InBacklog
<1>2. ASSUME NEW s \in Servers, Start(c, s)
      PROVE  /\ ~Linked(c) /\ LinkedTo(s)' = LinkedTo(s) \cup {c}
             /\ \A t \in Servers \ {s} : LinkedTo(t)' = LinkedTo(t)
  <2>1. /\ backlog' = [backlog EXCEPT ![s] = Append(@, c)]
        /\ ~Linked(c)
    BY <1>2 DEF Start
  <2>2. /\ backlog'[s] = Append(backlog[s], c) /\ backlog[s] \in Seq(Clients)
        /\ \A t \in Servers \ {s} : backlog'[t] = backlog[t]
    BY <1>0, <2>1 DEF Typed
  <2>3. c \notin Elems(backlog[s]) /\ Distinct(backlog[s])
    BY <2>1 DEF Elems, Linked, LinkedTo, InBacklog, IInv, Links, Queue, Distinct
  <2>4. Elems(backlog'[s]) = Elems(backlog[s]) \cup {c}
    BY <2>2, <2>3, QueueGains
  <2>5. \A t \in Servers : /\ LinkedTo(t) = slots[t] \cup Elems(backlog[t])
                           /\ LinkedTo(t)' = slots[t] \cup Elems(backlog'[t])
    BY <1>0 DEF LinkedTo, InBacklog, Elems
  <2> QED
    BY <2>1, <2>2, <2>4, <2>5
<1>3. UNCHANGED backlog \/ \E s \in Servers : Start(c, s)
  BY DEF ClientStep, Pull, Post, GiveUp, SendContent, ClientSends, SendData,
     TakeReply, ReadFails, Leave
<1> QED
  BY <1>1, <1>2, <1>3

(* A server always serves a client of its own that it has not met yet in   *)
(* this pass, and for those it still has to meet something has arrived.    *)
LEMMA ServingStep ==
  ASSUME IInv, [Next]_vars
  PROVE  \A t \in Servers : Serving(t)'
<1>0. /\ Typed
      /\ \A t \in Servers : Serving(t) /\ slots[t] \subseteq LinkedTo(t)
      /\ \A t \in Servers : slots[t] \subseteq Clients
  BY DEF IInv, Typed, Links, LinkedTo
<1>1. ASSUME NEW c \in Clients, ClientStep(c)
      PROVE  \A t \in Servers : Serving(t)'
  BY <1>0, <1>1, ClientFrame DEF Serving
<1>2. ASSUME NEW s \in Servers, ServerStep(s) \/ StartServer(s) \/ Die(s), Serving(s)'
      PROVE  \A t \in Servers : Serving(t)'
  <2>1. ASSUME NEW t \in Servers \ {s} PROVE Serving(t)'
    <3>1. /\ op'[t] = op[t] /\ ready'[t] = ready[t] /\ slots'[t] = slots[t]
          /\ \A c \in slots[t] : stream'[c] = stream[c]
      BY <1>0, <1>2, ServerFrame DEF SameServer, SameClient
    <3> QED
      BY <1>0, <3>1 DEF Serving
  <2> QED
    BY <1>2, <2>1
<1>3. ASSUME NEW s \in Servers, ServerStep(s) PROVE Serving(s)'
  <2>0. Serving(s)
    BY <1>0
  <2>1. ASSUME NEW c, NEW o, Become(s, o) PROVE op'[s] = o
    BY <1>0, <2>1 DEF Become, Typed
  <2>2. CASE Select(s)
    <3>1. op' = op /\ ready' = [ready EXCEPT ![s] = Readable(s)]
          /\ op[s].do = "select"
      BY <2>2 DEF Select
    <3>2. \A c \in slots[s] : c \in slots'[s] /\ stream'[c] = stream[c]
      <4>1. CASE UNCHANGED <<stream, reset>>
        BY <1>0, <2>2, <4>1 DEF Select, Accept, Typed
      <4>2. CASE /\ backlog[s] # <<>> /\ Forget(Head(backlog[s])) /\ UNCHANGED slots
        <5>1. backlog[s] \in Seq(Clients) /\ Distinct(backlog[s])
              /\ slots[s] \cap InBacklog(s) = {}
          BY <1>0 DEF Typed, IInv, Links, Queue, Distinct
        <5>2. Head(backlog[s]) \notin slots[s]
          BY <4>2, <5>1, QueueLoses DEF Elems, InBacklog
        <5> QED
          BY <1>0, <4>2, <5>2 DEF Forget, Typed
      <4> QED
        BY <2>2, <4>1, <4>2 DEF Select, Accept
    <3>3. ready'[s] = {c \in slots[s] : stream[c] # <<>>}
      BY <1>0, <3>1 DEF Readable, Typed
    <3> QED
      BY <2>0, <3>1, <3>2, <3>3 DEF Serving
  <2>3. CASE Serve(s)
    <3>1. PICK c \in Clients, w \in CmdWords : Served(s, c, w)
      BY <2>3, ServeFacts
    <3>2. /\ ready'[s] = ready[s] \ {c} /\ c \in slots[s] /\ op[s].who = None
      BY <1>0, <3>1 DEF Served, Typed
    <3>3. CASE Disconnect(s, c)
      <4>1. op'[s] = Select0 /\ slots'[s] = slots[s] \ {c}
            /\ \A d \in Clients \ {c} : stream'[d] = stream[d]
        BY <1>0, <3>3 DEF Disconnect, Become, Forget, Typed
      <4> QED
        BY <1>0, <2>0, <3>2, <4>1, OpTypes DEF Serving
    <3>4. CASE Consume(c) /\ \/ UNCHANGED op
                             \/ \E d \in {"pull", "post", "recv"} : Become(s, Doing(d, c))
      <4>1. slots' = slots /\ \A d \in Clients \ {c} : stream'[d] = stream[d]
        BY <1>0, <3>4 DEF Consume, Typed
      <4>2. CASE UNCHANGED op
        BY <1>0, <2>0, <3>2, <4>1, <4>2 DEF Serving
      <4>3. CASE \E d \in {"pull", "post", "recv"} : Become(s, Doing(d, c))
        <5>1. op'[s].who = c /\ op'[s].do # "select"
          BY <2>1, <4>3, OpTypes DEF Doings
        <5> QED
          BY <1>0, <2>0, <3>2, <4>1, <5>1 DEF Serving
      <4> QED
        BY <3>4, <4>2, <4>3
    <3> QED
      BY <3>1, <3>3, <3>4 DEF Served
  <2>4. CASE PullTry(s) \/ PullRead(s) \/ WriteFrom(s)
    <3>1. /\ op'[s].who = op[s].who /\ op[s].do # "select" /\ op'[s].do # "select"
          /\ UNCHANGED <<slots, ready, stream>>
      <4>1. UNCHANGED <<slots, ready, stream>>
        BY <2>4 DEF PullTry, PullRead, WriteFrom, network
      <4> QED
        BY <1>0, <2>4, <4>1, OpMoves DEF Continues
    <3> QED
      BY <2>0, <3>1 DEF Serving
  <2>5. CASE PullAnswer(s) \/ PostTry(s) \/ WriteContent(s)
    <3>1. \/ op'[s] = Select0
          \/ op'[s].who = op[s].who /\ op[s].do # "select" /\ op'[s].do # "select"
      BY <1>0, <2>5, OpMoves DEF Continues
    <3>2. UNCHANGED <<slots, ready, stream>>
      BY <2>5 DEF PullAnswer, PostTry, WriteContent, network
    <3> QED
      BY <1>0, <2>0, <3>1, <3>2, OpTypes DEF Serving, Typed
  <2>6. CASE RecvContent(s)
    <3> DEFINE c == op[s].who
    <3>0. c \in slots[s] /\ c \notin ready[s] /\ ready' = ready
      BY <2>0, <2>6 DEF RecvContent, Serving
    <3>1. \A d \in Clients \ {c} : stream'[d] = stream[d]
      BY <1>0, <2>6 DEF RecvContent, Disconnect, Forget, Typed
    <3>2. \/ op'[s] = Select0 /\ slots'[s] \in {slots[s], slots[s] \ {c}}
          \/ op'[s].who = c /\ op'[s].do = "write" /\ slots' = slots
      <4>1. \/ op'[s] = Select0
            \/ op'[s].who = c /\ op'[s].do = "write" /\ Head(stream[c]).cmd # "eof"
        BY <1>0, <2>6, OpMoves DEF Continues
      <4>2. CASE Head(stream[c]).cmd = "eof"
        <5>1. Disconnect(s, c)
          BY <2>6, <4>2 DEF RecvContent
        <5> QED
          BY <1>0, <4>1, <4>2, <5>1 DEF Disconnect, Typed
      <4>3. CASE Head(stream[c]).cmd # "eof"
        <5>1. slots' = slots
          BY <2>6, <4>3 DEF RecvContent
        <5> QED
          BY <4>1, <5>1
      <4> QED
        BY <4>2, <4>3
    <3> HIDE DEF c
    <3>3. \A d \in ready[s] : d \in Clients \ {c} /\ stream'[d] # <<>>
      BY <1>0, <2>0, <3>0, <3>1 DEF Serving
    <3>4. CASE op'[s] = Select0 /\ slots'[s] \in {slots[s], slots[s] \ {c}}
      BY <2>0, <3>0, <3>3, <3>4, OpTypes DEF Serving
    <3>5. CASE op'[s].who = c /\ op'[s].do = "write" /\ slots' = slots
      BY <1>0, <2>0, <3>0, <3>3, <3>5 DEF Serving
    <3> QED
      BY <3>2, <3>4, <3>5
  <2> QED
    BY <1>3, <2>2, <2>3, <2>4, <2>5, <2>6 DEF ServerStep
<1>4. ASSUME NEW s \in Servers, StartServer(s) PROVE Serving(s)'
  BY <1>0, <1>4 DEF StartServer, Serving, network
<1>5. ASSUME NEW s \in Servers, Die(s) PROVE Serving(s)'
  <2>1. op'[s] = Select0 /\ ready'[s] = {}
    BY <1>0, <1>5 DEF Die, Typed
  <2> QED
    BY <2>1, OpTypes DEF Serving
<1>6. CASE UNCHANGED vars
  BY <1>0, <1>6 DEF vars, Serving, network
<1> QED
  BY <1>1, <1>2, <1>3, <1>4, <1>5, <1>6 DEF Next

(* A client that is connected to no server has nothing under way and no    *)
(* record.                                                                 *)
LEMMA UnlinkedStep ==
  ASSUME IInv, [Next]_vars
  PROVE  \A c \in Clients : Unlinked(c)'
<1>0. /\ Typed
      /\ \A c \in Clients : Unlinked(c)
      /\ \A t \in Servers : LinkedTo(t) \subseteq Clients
  BY DEF IInv, Typed, LinkedTo, InBacklog
<1>1. ASSUME NEW c \in Clients, ClientStep(c), NEW d \in Clients
      PROVE  Unlinked(d)'
  <2>1. post_id' = post_id /\ \A e \in Clients \ {c} : stream'[e] = stream[e]
    BY <1>1, ClientFrame
  <2>2. Linked(d) => Linked(d)'
    BY <1>1, LinkedGrow DEF Linked
  <2>3. ~Linked(d)' => stream'[d] = stream[d]
    <3>1. CASE d = c
      <4>1. CASE \E s \in Servers : Start(c, s)
        BY <1>1, <2>2, <3>1, <4>1, LinkedGrow DEF Linked
      <4>2. CASE ~\E s \in Servers : Start(c, s)
        BY <1>0, <1>1, <2>2, <3>1, <4>2 DEF ClientStep, Pull, Post, GiveUp,
           SendContent, ClientSends, SendData, TakeReply, ReadFails, Leave, Send,
           Typed, network
      <4> QED
        BY <4>1, <4>2
    <3>2. CASE d # c
      BY <2>1, <3>2
    <3> QED
      BY <3>1, <3>2
  <2> QED
    BY <1>0, <2>1, <2>2, <2>3 DEF Unlinked
<1>2. ASSUME NEW s \in Servers, NEW c \in slots[s], op[s].do # "pread",
             Disconnect(s, c), backlog' = backlog, NEW d \in Clients
      PROVE  Unlinked(d)'
  <2>1. Closed(s, c) /\ c \in Clients
    BY <1>0, <1>2, DisconnectFacts DEF LinkedTo
  <2>2. /\ post_id'[c] = None /\ stream'[c] = <<>>
        /\ \A e \in Clients \ {c} : post_id'[e] = post_id[e] /\ stream'[e] = stream[e]
    BY <1>0, <2>1 DEF Closed, Released, Forget, Typed
  <2>3. Linked(d) => Linked(d)' \/ d = c
    BY <1>0, <1>2, <2>1 DEF Closed, Linked, LinkedTo, InBacklog, Typed
  <2> QED
    BY <1>0, <2>2, <2>3 DEF Unlinked
<1>3. ASSUME NEW s \in Servers, ServerStep(s), NEW d \in Clients
      PROVE  Unlinked(d)'
  <2>1. CASE Select(s)
    <3>1. post_id' = post_id
      BY <2>1 DEF Select
    <3>2. CASE backlog[s] = <<>>
      <4>1. UNCHANGED <<backlog, slots, stream>>
        BY <2>1, <3>2 DEF Select, Accept
      <4> QED
        BY <1>0, <3>1, <4>1 DEF Unlinked, Linked, LinkedTo, InBacklog
    <3>3. CASE backlog[s] # <<>>
      <4> DEFINE c == Head(backlog[s])
      <4>1. /\ backlog' = [backlog EXCEPT ![s] = Tail(@)]
            /\ \/ /\ slots' = [slots EXCEPT ![s] = @ \cup {c}]
                  /\ UNCHANGED <<stream, reset>>
               \/ Forget(c) /\ UNCHANGED slots
        BY <2>1, <3>3 DEF Select, Accept
      <4>2. /\ c \in Elems(backlog[s]) /\ Elems(Tail(backlog[s])) = Elems(backlog[s]) \ {c}
        <5>1. backlog[s] \in Seq(Clients) /\ Distinct(backlog[s])
          BY <1>0 DEF Typed, IInv, Links, Queue, Distinct
        <5> QED
          BY <3>3, <5>1, QueueLoses
      <4>3. \A t \in Servers : /\ LinkedTo(t) = slots[t] \cup Elems(backlog[t])
                               /\ LinkedTo(t)' = slots'[t] \cup Elems(backlog'[t])
        BY DEF LinkedTo, InBacklog, Elems
      <4>4. c \in InBacklog(s) /\ c \in Clients
        BY <1>0, <4>2 DEF InBacklog, Elems, LinkedTo
      <4>5. post_id[c] = None
        BY <4>4 DEF IInv, Reservations
      <4> HIDE DEF c
      <4>6. /\ backlog'[s] = Tail(backlog[s])
            /\ \A t \in Servers \ {s} : backlog'[t] = backlog[t] /\ slots'[t] = slots[t]
        BY <1>0, <4>1 DEF Typed
      <4>7. CASE slots' = [slots EXCEPT ![s] = @ \cup {c}] /\ UNCHANGED <<stream, reset>>
        <5>1. slots'[s] = slots[s] \cup {c}
          BY <1>0, <4>7 DEF Typed
        <5>2. Linked(d) => Linked(d)'
          BY <4>2, <4>3, <4>6, <5>1 DEF Linked
        <5> QED
          BY <1>0, <3>1, <4>7, <5>2 DEF Unlinked
      <4>8. CASE Forget(c) /\ UNCHANGED slots
        <5>1. Linked(d) => Linked(d)' \/ d = c
          BY <4>2, <4>3, <4>6, <4>8 DEF Linked
        <5>2. stream'[c] = <<>> /\ \A e \in Clients \ {c} : stream'[e] = stream[e]
          BY <1>0, <4>4, <4>8 DEF Forget, Typed
        <5> QED
          BY <1>0, <3>1, <4>5, <5>1, <5>2 DEF Unlinked
      <4> QED
        BY <4>1, <4>7, <4>8
    <3> QED
      BY <3>2, <3>3
  <2>2. CASE Serve(s)
    <3>1. PICK c \in Clients, w \in CmdWords : Served(s, c, w)
      BY <2>2, ServeFacts
    <3>2. CASE Disconnect(s, c)
      BY <1>2, <3>1, <3>2 DEF Served
    <3>3. CASE Consume(c)
      <4>1. /\ backlog' = backlog /\ slots' = slots /\ c \in slots[s]
            /\ \A e \in Clients \ {c} : stream'[e] = stream[e] /\ post_id'[e] = post_id[e]
        <5>1. \/ UNCHANGED post_id
              \/ ReleaseWriteLock(s, c)
          BY <3>1, <3>3 DEF Served, Disconnect
        <5>2. \A e \in Clients \ {c} : post_id'[e] = post_id[e]
          BY <1>0, <5>1 DEF ReleaseWriteLock, Typed
        <5> QED
          BY <1>0, <3>1, <3>3, <5>2 DEF Served, Consume, Typed
      <4>2. \A e : Linked(e)' = Linked(e)
        BY <4>1 DEF Linked, LinkedTo, InBacklog
      <4>3. Linked(c)
        BY <4>1 DEF Linked, LinkedTo
      <4> QED
        BY <1>0, <4>1, <4>2, <4>3 DEF Unlinked
    <3> QED
      BY <3>1, <3>2, <3>3 DEF Served
  <2>3. CASE RecvContent(s) /\ Disconnect(s, op[s].who)
    <3>1. op[s].who \in slots[s] /\ op[s].do = "recv" /\ backlog' = backlog
      BY <2>3 DEF RecvContent, IInv, Links, Serving
    <3> QED
      BY <1>2, <2>3, <3>1
  <2>4. CASE \/ PullTry(s) \/ PullRead(s) \/ PullAnswer(s) \/ WriteFrom(s)
             \/ PostTry(s) \/ WriteContent(s)
             \/ RecvContent(s) /\ ~Disconnect(s, op[s].who)
    <3> DEFINE c == op[s].who
    <3>1. c \in slots[s] /\ c \in Clients
      BY <1>0, <2>4 DEF PullTry, PullRead, PullAnswer, WriteFrom, PostTry, WriteContent,
         RecvContent, IInv, Links, Serving, LinkedTo
    <3>2. slots' = slots /\ backlog' = backlog
      BY <2>4 DEF PullTry, PullRead, PullAnswer, WriteFrom, PostTry, WriteContent,
         RecvContent
    <3>3. \A e \in Clients \ {c} : stream'[e] = stream[e] /\ post_id'[e] = post_id[e]
      BY <1>0, <2>4 DEF PullTry, PullRead, PullAnswer, WriteFrom, PostTry, WriteContent,
         RecvContent, ReleaseWriteLock, Typed, network
    <3>4. Linked(c) /\ \A e : Linked(e)' = Linked(e)
      BY <3>1, <3>2 DEF Linked, LinkedTo, InBacklog
    <3> HIDE DEF c
    <3> QED
      BY <1>0, <3>3, <3>4 DEF Unlinked
  <2> QED
    BY <1>3, <2>1, <2>2, <2>3, <2>4 DEF ServerStep
<1>4. ASSUME NEW s \in Servers, StartServer(s) \/ Die(s), NEW d \in Clients
      PROVE  Unlinked(d)'
  <2>1. CASE StartServer(s)
    BY <1>0, <2>1 DEF StartServer, Unlinked, Linked, LinkedTo, InBacklog, network
  <2>2. CASE Die(s)
    <3>1. CASE d \in LinkedTo(s)
      <4>1. d \notin slots[s] => post_id[d] = None
        BY <3>1 DEF LinkedTo, IInv, Reservations
      <4> QED
        BY <2>2, <3>1, <4>1 DEF Die, Unlinked
    <3>2. CASE d \notin LinkedTo(s)
      <4>1. stream'[d] = stream[d] /\ post_id'[d] = post_id[d]
        BY <2>2, <3>2 DEF Die, LinkedTo
      <4>2. Linked(d) => Linked(d)'
        <5>1. \A t \in Servers \ {s} : LinkedTo(t)' = LinkedTo(t)
          BY <1>0, <2>2 DEF Die, LinkedTo, InBacklog, Typed
        <5> QED
          BY <3>2, <5>1 DEF Linked
      <4> QED
        BY <1>0, <4>1, <4>2 DEF Unlinked
    <3> QED
      BY <3>1, <3>2
  <2> QED
    BY <1>4, <2>1, <2>2
<1>5. CASE UNCHANGED vars
  BY <1>0, <1>5 DEF vars, Unlinked, Linked, LinkedTo, InBacklog, network
<1> QED
  BY <1>1, <1>3, <1>4, <1>5 DEF Next

-----------------------------------------------------------------------------
(* Locks: the kernel's and the flags change together.                      *)
LocksOf(s) ==
    /\ write_locked[s] = wlock[s]
    /\ rlock[s] = IF op[s].do = "pread" THEN {op[s].at} ELSE {}

Disjoint(s) == \A t \in Servers \ {s} : wlock[s] \cap (wlock[t] \cup rlock[t]) = {}

(* Flags and kernel locks go on agreeing.                                  *)
LEMMA LocksStep ==
  ASSUME IInv, [Next]_vars
  PROVE  LocksAgree'
<1>0. /\ Typed
      /\ \A t \in Servers : LocksOf(t) /\ Disjoint(t) /\ InHand(t)
  BY DEF IInv, LocksAgree, LocksOf, Disjoint
<1>1. ASSUME UNCHANGED <<wlock, rlock, write_locked, op>>
      PROVE  LocksAgree'
  BY <1>0, <1>1 DEF LocksAgree, LocksOf, Disjoint
<1>2. ASSUME NEW s \in Servers, ServerStep(s) \/ Die(s), LocksOf(s)',
             \A t \in Servers \ {s} :
                /\ wlock'[s] \cap (wlock[t] \cup rlock[t]) = {}
                /\ rlock'[s] \cap wlock[t] = {}
      PROVE  LocksAgree'
  <2>1. \A t \in Servers \ {s} : /\ op'[t] = op[t] /\ write_locked'[t] = write_locked[t]
                                 /\ wlock'[t] = wlock[t] /\ rlock'[t] = rlock[t]
    BY <1>2, ServerFrame DEF SameServer
  <2>2. \A t \in Servers : LocksOf(t)'
    BY <1>0, <1>2, <2>1 DEF LocksOf
  <2>3. \A t \in Servers : Disjoint(t)'
    BY <1>0, <1>2, <2>1 DEF Disjoint
  <2> QED
    BY <2>2, <2>3 DEF LocksAgree, LocksOf, Disjoint
<1>3. ASSUME NEW s \in Servers, ServerStep(s), NEW c, op[s].do # "pread",
             op'[s].do # "pread", Released(s, c)
      PROVE  LocksAgree'
  <2>1. /\ wlock'[s] = wlock[s] \ {post_id[c]} /\ rlock'[s] = rlock[s]
        /\ write_locked'[s] = write_locked[s] \ {post_id[c]}
    BY <1>0, <1>3 DEF Released, Typed
  <2>2. LocksOf(s)'
    BY <1>0, <1>3, <2>1 DEF LocksOf
  <2>3. \A t \in Servers \ {s} : /\ wlock'[s] \cap (wlock[t] \cup rlock[t]) = {}
                                 /\ rlock'[s] \cap wlock[t] = {}
    BY <1>0, <1>3, <2>1 DEF Disjoint, LocksOf
  <2> QED
    BY <1>2, <1>3, <2>2, <2>3
<1>4. ASSUME NEW s \in Servers, ServerStep(s), op[s].do # "pread", op'[s].do # "pread",
             UNCHANGED <<wlock, rlock, write_locked>>
      PROVE  LocksAgree'
  BY <1>0, <1>2, <1>4 DEF LocksOf, Disjoint
<1>5. ASSUME NEW c \in Clients, ClientStep(c) PROVE LocksAgree'
  BY <1>1, <1>5, ClientFrame
<1>6. ASSUME NEW s \in Servers, StartServer(s) PROVE LocksAgree'
  BY <1>1, <1>6 DEF StartServer, locks
<1>7. ASSUME NEW s \in Servers, Die(s) PROVE LocksAgree'
  <2>1. /\ wlock'[s] = {} /\ rlock'[s] = {} /\ write_locked'[s] = {}
        /\ op'[s] = Select0
    BY <1>0, <1>7 DEF Die, Typed
  <2>2. LocksOf(s)'
    BY <2>1, OpTypes DEF LocksOf
  <2> QED
    BY <1>2, <1>7, <2>1, <2>2
<1>8. ASSUME NEW s \in Servers, ServerStep(s) PROVE LocksAgree'
  <2>1. CASE Select(s)
    BY <1>1, <2>1 DEF Select, locks
  <2>2. CASE Serve(s)
    <3>1. PICK c \in Clients, w \in CmdWords : Served(s, c, w)
      BY <2>2, ServeFacts
    <3>2. CASE Disconnect(s, c)
      <4>1. Closed(s, c) /\ op[s].do # "pread"
        BY <3>1, <3>2, DisconnectFacts DEF Served
      <4>2. op'[s].do # "pread"
        BY <1>0, <4>1, OpMoves, OpTypes DEF Closed
      <4> QED
        BY <1>3, <1>8, <4>1, <4>2 DEF Closed
    <3>3. CASE UNCHANGED <<locks, write_locked>> /\
               \E d \in {"pull", "post", "recv"} : Become(s, Doing(d, c))
      <4>1. op'[s].do # "pread" /\ op[s].do # "pread"
        BY <1>0, <3>1, <3>3, OpMoves, OpTypes DEF Doings, Served
      <4> QED
        BY <1>4, <1>8, <3>3, <4>1 DEF locks
    <3>4. CASE ReleaseWriteLock(s, c) /\ UNCHANGED op
      <4>1. Released(s, c) /\ op[s].do # "pread" /\ op'[s].do # "pread"
        BY <3>1, <3>4, ReleaseFacts DEF Served
      <4> QED
        BY <1>3, <1>8, <4>1
    <3> QED
      BY <3>1, <3>2, <3>3, <3>4 DEF Served
  <2>3. CASE PullTry(s)
    <3> DEFINE i == op[s].at
    <3>1. op[s].do = "pull"
      BY <2>3 DEF PullTry
    <3>2. CASE MayRead(s, i)
      <4>1. /\ op'[s].do = "pread" /\ op'[s].at = i
            /\ i \notin write_locked[s] /\ \A t \in Servers \ {s} : i \notin wlock[t]
        BY <1>0, <2>3, <3>2, OpMoves DEF Continues, MayRead, ReadLockFree
      <4>2. /\ rlock'[s] = rlock[s] \cup {i} /\ wlock'[s] = wlock[s] \ {i}
            /\ write_locked'[s] = write_locked[s]
        BY <1>0, <2>3, <3>2 DEF PullTry, ReadLock, Typed
      <4> HIDE DEF i
      <4>3. rlock[s] = {} /\ wlock'[s] = wlock[s]
        <5>1. rlock[s] = {} /\ write_locked[s] = wlock[s]
          BY <1>0, <3>1 DEF LocksOf
        <5>2. i \notin wlock[s]
          BY <4>1, <5>1
        <5> QED
          BY <4>2, <5>1, <5>2
      <4>4. LocksOf(s)'
        BY <1>0, <4>1, <4>2, <4>3 DEF LocksOf
      <4>5. \A t \in Servers \ {s} : /\ wlock'[s] \cap (wlock[t] \cup rlock[t]) = {}
                                     /\ rlock'[s] \cap wlock[t] = {}
        BY <1>0, <4>1, <4>2, <4>3 DEF Disjoint
      <4> QED
        BY <1>2, <1>8, <4>4, <4>5
    <3>3. CASE ~MayRead(s, i)
      <4>1. op'[s].do # "pread"
        BY <1>0, <2>3, <3>3, OpMoves DEF Continues
      <4> QED
        BY <1>4, <1>8, <2>3, <3>1, <3>3, <4>1 DEF PullTry, locks
    <3> QED
      BY <3>2, <3>3
  <2>4. CASE PullRead(s)
    <3> DEFINE i == op[s].at
    <3>1. op[s].do = "pread" /\ op'[s].do = "pull"
      BY <1>0, <2>4, OpMoves DEF Continues
    <3>2. /\ rlock'[s] = rlock[s] \ {i} /\ wlock'[s] = wlock[s] \ {i}
          /\ write_locked'[s] = write_locked[s]
      BY <1>0, <2>4 DEF PullRead, Unlock, Typed
    <3>3. rlock'[s] = {} /\ wlock'[s] = wlock[s]
      <4>1. rlock[s] = {i} /\ i \notin wlock[s]
        BY <1>0, <3>1 DEF LocksOf, InHand
      <4> QED
        BY <3>2, <4>1
    <3>4. LocksOf(s)'
      BY <1>0, <3>1, <3>2, <3>3 DEF LocksOf
    <3> QED
      BY <1>0, <1>2, <1>8, <3>3, <3>4 DEF Disjoint
  <2>5. CASE PullAnswer(s)
    <3>1. op[s].do # "pread" /\ op'[s].do # "pread"
      BY <1>0, <2>5, OpMoves, OpTypes
    <3> QED
      BY <1>4, <1>8, <2>5, <3>1 DEF PullAnswer, locks
  <2>6. CASE PostTry(s)
    <3> DEFINE r == Candidate(s)
    <3>1. op[s].do # "pread" /\ op'[s].do # "pread"
      BY <1>0, <2>6, OpMoves, OpTypes DEF Continues
    <3>2. CASE MayTake(s, r)
      <4>1. /\ wlock'[s] = wlock[s] \cup {r} /\ rlock'[s] = rlock[s] \ {r}
            /\ write_locked'[s] = write_locked[s] \cup {r}
        BY <1>0, <2>6, <3>2 DEF PostTry, WriteLock, Typed
      <4>2. \A t \in Servers \ {s} : r \notin wlock[t] \cup rlock[t]
        BY <3>2 DEF MayTake, WriteLockFree
      <4> HIDE DEF r
      <4>3. LocksOf(s)'
        BY <1>0, <3>1, <4>1 DEF LocksOf
      <4>4. \A t \in Servers \ {s} : /\ wlock'[s] \cap (wlock[t] \cup rlock[t]) = {}
                                     /\ rlock'[s] \cap wlock[t] = {}
        <5>1. rlock[s] = {}
          BY <1>0, <3>1 DEF LocksOf
        <5>2. \A t \in Servers \ {s} : wlock[s] \cap (wlock[t] \cup rlock[t]) = {}
          BY <1>0 DEF Disjoint
        <5> QED
          BY <4>1, <4>2, <5>1, <5>2
      <4> QED
        BY <1>2, <1>8, <4>3, <4>4
    <3>3. CASE ~MayTake(s, r)
      BY <1>4, <1>8, <2>6, <3>1, <3>3 DEF PostTry, locks
    <3> QED
      BY <3>2, <3>3
  <2>7. CASE RecvContent(s)
    <3>1. /\ op[s].do # "pread" /\ op'[s].do # "pread"
          /\ op[s].who \in slots[s]
      BY <1>0, <2>7, OpMoves, OpTypes DEF Continues, IInv, Links, Serving
    <3>2. CASE Disconnect(s, op[s].who)
      BY <1>3, <1>8, <3>1, <3>2, DisconnectFacts DEF Closed
    <3>3. CASE UNCHANGED <<locks, write_locked>>
      BY <1>4, <1>8, <3>1, <3>3 DEF locks
    <3> QED
      BY <2>7, <3>2, <3>3 DEF RecvContent
  <2>8. CASE WriteFrom(s)
    <3>1. op[s].do # "pread" /\ op'[s].do # "pread"
      BY <1>0, <2>8, OpMoves DEF Continues
    <3> QED
      BY <1>4, <1>8, <2>8, <3>1 DEF WriteFrom, locks
  <2>9. CASE WriteContent(s)
    <3>1. /\ op[s].do # "pread" /\ op'[s].do # "pread"
          /\ op[s].who \in slots[s]
      BY <1>0, <2>9, OpMoves, OpTypes DEF IInv, Links, Serving
    <3>2. Released(s, op[s].who)
      BY <2>9, <3>1, ReleaseFacts DEF WriteContent
    <3> QED
      BY <1>3, <1>8, <3>1, <3>2
  <2> QED
    BY <1>8, <2>1, <2>2, <2>3, <2>4, <2>5, <2>6, <2>7, <2>8, <2>9 DEF ServerStep
<1>9. CASE UNCHANGED vars
  BY <1>1, <1>9 DEF vars, locks
<1> QED
  BY <1>5, <1>6, <1>7, <1>8, <1>9 DEF Next

-----------------------------------------------------------------------------
(* What comes first from a client, by where the server stands with it.     *)
LEMMA FirstWord ==
  ASSUME IInv, NEW s \in Servers, NEW c \in LinkedTo(s), stream[c] # <<>>
  PROVE  stream[c][1].cmd \in Follow(Standing(s, c))
BY DEF IInv, Conversation, Talk

(* Whoever asks for a post has none; whoever sends one has a record.       *)
LEMMA ServeRecord ==
  ASSUME IInv, NEW s \in Servers, NEW c, NEW w, Served(s, c, w)
  PROVE  /\ w \in {"pull", "post"} => post_id[c] = None
         /\ w \in {"content", "release"} => post_id[c] # None
<1>1. w \in Follow(Standing(s, c))
  BY FirstWord DEF Served, LinkedTo
<1>2. Standing(s, c) = IF post_id[c] = None THEN "free" ELSE "held"
  BY DEF Served, Standing
<1> QED
  BY <1>1, <1>2 DEF Follow

(* The post a server waits for.                                            *)
LEMMA RecvPost ==
  ASSUME IInv, NEW s \in Servers, RecvContent(s),
         Head(stream[op[s].who]).cmd # "eof"
  PROVE  /\ stream[op[s].who][1].cmd = "data"
         /\ Head(stream[op[s].who]).post \in Posts
<1> DEFINE c == op[s].who
<1>1. /\ c \in slots[s] /\ c \in Clients /\ c \in LinkedTo(s) /\ op[s].do = "recv"
      /\ stream[c] # <<>> /\ stream[c] \in Seq(Messages)
  BY DEF RecvContent, IInv, Links, Serving, Typed, LinkedTo
<1>2. Standing(s, c) = "content"
  BY <1>1 DEF Standing, Word
<1>3. stream[c][1].cmd \in {"data", "eof"}
  BY <1>1, <1>2, FirstWord DEF Follow
<1>4. Head(stream[c]) = stream[c][1] /\ stream[c][1] \in Messages
  BY <1>1, HeadOf
<1> QED
  BY <1>3, <1>4, Words

(* What a server has in hand stays what it needs for its next step.        *)
LEMMA InHandStep ==
  ASSUME IInv, [Next]_vars
  PROVE  \A t \in Servers : InHand(t)'
<1>0. /\ Typed /\ None \notin Clients
      /\ \A t \in Servers : /\ InHand(t) /\ Serving(t)
                            /\ slots[t] \subseteq LinkedTo(t)
      /\ \A t \in Servers : write_locked[t] = wlock[t]
  BY DEF IInv, LinkedTo, Links, LocksAgree
<1>1. ASSUME UNCHANGED <<op, wlock, post_id>> PROVE \A t \in Servers : InHand(t)'
  BY <1>0, <1>1 DEF InHand
<1>2. ASSUME NEW s \in Servers, ServerStep(s) \/ Die(s), InHand(s)'
      PROVE  \A t \in Servers : InHand(t)'
  <2>1. ASSUME NEW t \in Servers \ {s} PROVE InHand(t)'
    <3>1. op'[t] = op[t] /\ wlock'[t] = wlock[t]
      BY <1>2, ServerFrame DEF SameServer
    <3>2. op[t].do # "select" => post_id'[op[t].who] = post_id[op[t].who]
      <4>1. op[t].do # "select" => op[t].who \in LinkedTo(t)
        BY <1>0 DEF Serving
      <4> QED
        BY <1>2, <4>1, ServerFrame DEF SameClient
    <3> QED
      BY <1>0, <3>1, <3>2 DEF InHand
  <2> QED
    BY <1>2, <2>1
<1>3. ASSUME NEW s \in Servers, op'[s] = Select0 PROVE InHand(s)'
  BY <1>3, OpTypes DEF InHand
<1>4. ASSUME NEW s \in Servers, ServerStep(s) PROVE InHand(s)'
  <2>1. CASE Select(s)
    BY <1>1, <2>1 DEF Select, locks
  <2>2. CASE Serve(s)
    <3>1. PICK c \in Clients, w \in CmdWords : Served(s, c, w)
      BY <2>2, ServeFacts
    <3>2. CASE Disconnect(s, c)
      BY <1>0, <1>3, <3>2, OpMoves DEF Disconnect
    <3>3. CASE /\ \/ w = "pull" /\ Become(s, Doing("pull", c))
                  \/ w = "post" /\ Become(s, Doing("post", c))
                  \/ w = "content" /\ Become(s, Doing("recv", c))
               /\ UNCHANGED post_id
      <4>1. \/ w = "pull" /\ op'[s] = Doing("pull", c)
            \/ w = "post" /\ op'[s] = Doing("post", c)
            \/ w = "content" /\ op'[s] = Doing("recv", c)
        BY <1>0, <3>3, OpMoves
      <4>2. /\ op'[s].seen = <<>> /\ op'[s].who = c
            /\ \/ w = "pull" /\ op'[s].do = "pull"
               \/ w = "post" /\ op'[s].do = "post"
               \/ w = "content" /\ op'[s].do = "recv"
        BY <4>1, OpTypes DEF Doings
      <4> QED
        BY <3>1, <3>3, <4>2, ServeRecord DEF InHand
    <3>4. CASE ReleaseWriteLock(s, c) /\ UNCHANGED op
      <4>1. op'[s].do = "select" /\ op'[s].seen = <<>>
        BY <1>0, <3>1, <3>4 DEF Served, InHand
      <4> QED
        BY <4>1 DEF InHand
    <3> QED
      BY <3>1, <3>2, <3>3, <3>4 DEF Served
  <2>3. CASE PullTry(s)
    <3> DEFINE i == op[s].at
    <3>1. /\ op[s].do = "pull" /\ op'[s].who = op[s].who /\ i < RECORD_NUM
          /\ UNCHANGED post_id
      BY <1>0, <2>3, OpMoves DEF Continues, PullTry
    <3>2. CASE MayRead(s, i)
      <4>1. /\ op'[s].do = "pread" /\ op'[s].at = i /\ i \notin write_locked[s]
            /\ wlock'[s] = wlock[s] \ {i}
        BY <1>0, <2>3, <3>2, OpMoves DEF Continues, MayRead, PullTry, ReadLock, Typed
      <4>2. i \in Records
        BY <1>0, <3>1 DEF Typed, Op, Records
      <4> HIDE DEF i
      <4> QED
        BY <1>0, <3>1, <4>1, <4>2 DEF InHand
    <3>3. CASE ~MayRead(s, i)
      <4>1. op'[s].do = "pull"
        BY <1>0, <2>3, <3>3, OpMoves DEF Continues
      <4> QED
        BY <1>0, <3>1, <4>1 DEF InHand
    <3> QED
      BY <3>2, <3>3
  <2>4. CASE PullRead(s)
    <3>1. /\ op[s].do = "pread" /\ op'[s].do = "pull" /\ op'[s].who = op[s].who
          /\ UNCHANGED post_id
      BY <1>0, <2>4, OpMoves DEF Continues, PullRead
    <3> QED
      BY <1>0, <3>1 DEF InHand
  <2>5. CASE PullAnswer(s) \/ WriteContent(s)
    BY <1>0, <1>3, <2>5, OpMoves
  <2>6. CASE PostTry(s)
    <3>1. CASE op'[s] = Select0
      BY <1>3, <3>1
    <3>2. CASE op'[s] # Select0
      <4>1. /\ op[s].do = "post" /\ op'[s].do = "post" /\ op'[s].who = op[s].who
            /\ op'[s].seen = op[s].seen
        BY <1>0, <2>6, <3>2, OpMoves DEF Continues
      <4>2. UNCHANGED post_id
        BY <1>0, <2>6, <3>2, OpMoves DEF PostTry
      <4> QED
        BY <1>0, <4>1, <4>2 DEF InHand
    <3> QED
      BY <3>1, <3>2
  <2>7. CASE RecvContent(s)
    <3>1. CASE op'[s] = Select0
      BY <1>3, <3>1
    <3>2. CASE op'[s] # Select0
      <4>1. /\ op[s].do = "recv" /\ op'[s].do = "write" /\ op'[s].who = op[s].who
            /\ op'[s].seen = op[s].seen
            /\ op'[s].post = Head(stream[op[s].who]).post
            /\ Head(stream[op[s].who]).cmd # "eof"
        BY <1>0, <2>7, <3>2, OpMoves DEF Continues
      <4>2. UNCHANGED post_id /\ op'[s].post \in Posts
        BY <2>7, <4>1, RecvPost DEF RecvContent
      <4> QED
        BY <1>0, <4>1, <4>2 DEF InHand
    <3> QED
      BY <3>1, <3>2
  <2>8. CASE WriteFrom(s)
    <3>1. /\ op[s].do = "write" /\ op'[s].do = "written" /\ op'[s].who = op[s].who
          /\ op'[s].seen = op[s].seen /\ op'[s].post = op[s].post /\ UNCHANGED post_id
      BY <1>0, <2>8, OpMoves DEF Continues, WriteFrom
    <3> QED
      BY <1>0, <3>1 DEF InHand
  <2> QED
    BY <1>4, <2>1, <2>2, <2>3, <2>4, <2>5, <2>6, <2>7, <2>8 DEF ServerStep
<1>5. ASSUME NEW s \in Servers, Die(s) PROVE InHand(s)'
  BY <1>0, <1>3, <1>5 DEF Die, Typed
<1>6. ASSUME NEW c \in Clients, ClientStep(c) PROVE \A t \in Servers : InHand(t)'
  BY <1>1, <1>6, ClientFrame
<1>7. ASSUME NEW s \in Servers, StartServer(s) PROVE \A t \in Servers : InHand(t)'
  BY <1>1, <1>7 DEF StartServer, locks
<1>8. CASE UNCHANGED vars
  BY <1>1, <1>8 DEF vars, locks
<1> QED
  BY <1>2, <1>4, <1>5, <1>6, <1>7, <1>8 DEF Next

-----------------------------------------------------------------------------
(* Who holds a record: nobody holds one that a server may take.            *)
LEMMA HeldIsLocked ==
  ASSUME IInv, NEW c \in Clients, post_id[c] # None
  PROVE  \E s \in Servers : c \in slots[s] /\ post_id[c] \in wlock[s]
<1>1. PICK s \in Servers : c \in LinkedTo(s)
  BY DEF IInv, Unlinked, Linked
<1>2. c \in slots[s]
  BY <1>1 DEF IInv, Reservations, LinkedTo
<1> QED
  BY <1>2 DEF IInv, Reservations, LocksAgree

(* A record that the kernel would lock for s belongs to no client.         *)
LEMMA TakenByNone ==
  ASSUME IInv, NEW s \in Servers, NEW r \in Records,
         r \notin wlock[s], WriteLockFree(s, r) \/ ReadLockFree(s, r)
  PROVE  \A c \in Clients : post_id[c] # r
<1> SUFFICES ASSUME NEW c \in Clients, post_id[c] = r PROVE FALSE
  OBVIOUS
<1>1. post_id[c] # None
  OBVIOUS
<1>2. PICK t \in Servers : post_id[c] \in wlock[t]
  BY <1>1, HeldIsLocked
<1> QED
  BY <1>2 DEF WriteLockFree, ReadLockFree

(* Taking a record.                                                        *)
Takes(s, c, r) ==
    /\ c \in slots[s] /\ post_id[c] = None /\ r \in Records
    /\ \A d \in Clients : post_id[d] # r
    /\ post_id' = [post_id EXCEPT ![c] = r]
    /\ write_locked' = [write_locked EXCEPT ![s] = @ \cup {r}]
    /\ wlock' = [wlock EXCEPT ![s] = @ \cup {r}]
    /\ UNCHANGED <<slots, backlog>>

(* post_req takes a free record and says so, refuses, or goes on.          *)
LEMMA GrantFacts ==
  ASSUME IInv, NEW s \in Servers, PostTry(s)
  PROVE  /\ \/ /\ Takes(s, op[s].who, Candidate(s)) /\ Write(op[s].who, "grant")
               /\ op'[s] = Select0
            \/ /\ UNCHANGED <<wlock, rlock, post_id, write_locked>>
               /\ \/ op'[s] = Select0 /\ Write(op[s].who, "refuse")
                  \/ op'[s] # Select0 /\ UNCHANGED <<reply, reset>>
         /\ UNCHANGED <<file, slots, backlog, ready, stream>>
<1> DEFINE c == op[s].who
           r == Candidate(s)
<1>0. /\ Typed /\ c \in slots[s] /\ post_id[c] = None
      /\ UNCHANGED <<file, slots, backlog, ready, stream>>
  BY DEF IInv, Links, Serving, InHand, PostTry
<1>1. r \in Records
  <2>1. last[s] + op[s].at \in Nat
    BY <1>0 DEF Typed, Op, Records
  <2> QED
    BY <2>1, Modulo DEF Candidate
<1>2. CASE MayTake(s, r)
  <2>1. \A d \in Clients : post_id[d] # r
    <3>1. r \notin wlock[s] /\ WriteLockFree(s, r)
      BY <1>2 DEF MayTake, IInv, LocksAgree
    <3> QED
      BY <1>1, <3>1, TakenByNone
  <2>2. Takes(s, c, r) /\ Write(c, "grant")
    BY <1>0, <1>1, <1>2, <2>1 DEF PostTry, WriteLock, Takes
  <2>3. op'[s] = Select0
    BY <1>0, <1>2, OpMoves DEF PostTry
  <2> QED
    BY <1>0, <2>2, <2>3
<1>3. CASE ~MayTake(s, r)
  <2>1. UNCHANGED <<wlock, rlock, post_id, write_locked>>
    BY <1>3 DEF PostTry, locks
  <2>2. CASE op[s].at + 1 < RECORD_NUM
    <3>1. /\ op'[s] = [op[s] EXCEPT !.at = op[s].at + 1]
          /\ UNCHANGED <<reply, reset>>
      BY <1>0, <1>3, <2>2, OpMoves DEF PostTry
    <3>2. op'[s].do = "post"
      BY <1>0, <3>1 DEF Typed, Op, PostTry
    <3> QED
      BY <1>0, <2>1, <3>1, <3>2, OpTypes
  <2>3. CASE ~(op[s].at + 1 < RECORD_NUM)
    BY <1>0, <1>3, <2>1, <2>3, OpMoves DEF PostTry
  <2> QED
    BY <2>2, <2>3
<1> QED
  BY <1>2, <1>3

(* What the steps do to records: they are taken, given back by a client or *)
(* all at once.                                                            *)
GivesBack(s, c) ==
    /\ c \in slots[s] /\ Released(s, c)
    /\ slots' \in {slots, [slots EXCEPT ![s] = @ \ {c}]}
    /\ UNCHANGED backlog

(* Every step is one of these, or leaves records and connections alone.    *)
LEMMA RecordMoves ==
  ASSUME IInv, [Next]_vars
  PROVE  \/ UNCHANGED <<post_id, write_locked, slots, backlog>>
         \/ /\ \/ \E s \in Servers, c \in Clients : Starts(s, c)
               \/ \E s \in Servers : Accepts(s)
            /\ UNCHANGED <<post_id, write_locked>>
         \/ \E s \in Servers, c \in Clients :
               GivesBack(s, c) \/ \E r \in Records : Takes(s, c, r)
         \/ \E s \in Servers : Die(s)
<1>0. Typed /\ \A s \in Servers : slots[s] \subseteq Clients
  BY DEF IInv, Typed
<1>1. ASSUME NEW c \in Clients, ClientStep(c)
      PROVE  \/ UNCHANGED <<post_id, write_locked, slots, backlog>>
             \/ /\ \E s \in Servers : Starts(s, c)
                /\ UNCHANGED <<post_id, write_locked>>
  <2>1. UNCHANGED <<post_id, write_locked, slots>>
    BY <1>1, ClientFrame
  <2>2. UNCHANGED backlog \/ \E s \in Servers : Start(c, s)
    BY <1>1 DEF ClientStep, Pull, Post, GiveUp, SendContent, ClientSends,
       SendData, TakeReply, ReadFails, Leave
  <2> QED
    BY <2>1, <2>2 DEF Start, Starts
<1>2. ASSUME NEW s \in Servers, ServerStep(s)
      PROVE  \/ UNCHANGED <<post_id, write_locked, slots, backlog>>
             \/ Accepts(s) /\ UNCHANGED <<post_id, write_locked>>
             \/ \E c \in Clients : GivesBack(s, c) \/ \E r \in Records : Takes(s, c, r)
  <2>1. CASE Select(s)
    BY <2>1 DEF Select, Accept, Accepts
  <2>2. CASE Serve(s)
    <3>1. PICK c \in Clients, w \in CmdWords : Served(s, c, w)
      BY <2>2, ServeFacts
    <3>2. CASE Disconnect(s, c)
      <4>1. Closed(s, c)
        BY <3>1, <3>2, DisconnectFacts DEF Served
      <4>2. GivesBack(s, c)
        BY <3>1, <4>1 DEF Closed, GivesBack, Served
      <4> QED
        BY <4>2
    <3>3. CASE Consume(c) /\ UNCHANGED <<locks, write_locked, post_id>>
      BY <3>1, <3>3 DEF Served, Consume
    <3>4. CASE ReleaseWriteLock(s, c) /\ Consume(c)
      <4>1. Released(s, c)
        BY <3>1, <3>4, ReleaseFacts DEF Served
      <4>2. GivesBack(s, c)
        BY <3>1, <3>4, <4>1 DEF GivesBack, Served, Consume
      <4> QED
        BY <4>2
    <3> QED
      BY <3>1, <3>2, <3>3, <3>4 DEF Served
  <2>3. CASE PullTry(s) \/ PullRead(s) \/ PullAnswer(s) \/ WriteFrom(s)
    BY <2>3 DEF PullTry, PullRead, PullAnswer, WriteFrom
  <2>4. CASE PostTry(s)
    <3>1. op[s].who \in Clients
      BY <2>4 DEF PostTry, IInv, Links, Serving, Typed
    <3>2. CASE Takes(s, op[s].who, Candidate(s))
      <4>1. Candidate(s) \in Records
        BY <3>2 DEF Takes
      <4> QED
        BY <3>1, <3>2, <4>1
    <3>3. CASE UNCHANGED <<post_id, write_locked, slots, backlog>>
      BY <3>3
    <3> QED
      BY <2>4, <3>2, <3>3, GrantFacts
  <2>5. CASE RecvContent(s)
    <3>1. op[s].do = "recv" /\ op[s].who \in slots[s] /\ op[s].who \in Clients
          /\ UNCHANGED backlog
      BY <2>5 DEF RecvContent, IInv, Links, Serving, Typed
    <3>2. CASE Disconnect(s, op[s].who)
      <4>1. Closed(s, op[s].who)
        BY <3>1, <3>2, DisconnectFacts
      <4>2. GivesBack(s, op[s].who)
        BY <3>1, <4>1 DEF Closed, GivesBack
      <4> QED
        BY <3>1, <4>2
    <3>3. CASE UNCHANGED <<locks, write_locked, post_id, slots, reset>>
      BY <3>1, <3>3
    <3> QED
      BY <2>5, <3>2, <3>3 DEF RecvContent
  <2>6. CASE WriteContent(s)
    <3>1. op[s].do = "written" /\ op[s].who \in slots[s] /\ op[s].who \in Clients
          /\ UNCHANGED <<slots, backlog>>
      BY <2>6 DEF WriteContent, IInv, Links, Serving, Typed
    <3>2. Released(s, op[s].who)
      BY <2>6, <3>1, ReleaseFacts DEF WriteContent
    <3>3. GivesBack(s, op[s].who)
      BY <3>1, <3>2 DEF GivesBack
    <3> QED
      BY <3>1, <3>3
  <2> QED
    BY <1>2, <2>1, <2>2, <2>3, <2>4, <2>5, <2>6 DEF ServerStep
<1>3. ASSUME NEW s \in Servers, StartServer(s)
      PROVE  UNCHANGED <<post_id, write_locked, slots, backlog>>
  BY <1>3 DEF StartServer
<1>4. CASE UNCHANGED vars
  BY <1>4 DEF vars
<1> QED
  BY <1>1, <1>2, <1>3, <1>4 DEF Next

(* Records stay with the connection they were granted to.                  *)
LEMMA ReservationsStep ==
  ASSUME IInv, [Next]_vars
  PROVE  (\A t \in Servers : Reservations(t)') /\ NoneShared'
<1>0. /\ Typed
      /\ \A t \in Servers : /\ Reservations(t) /\ slots[t] \subseteq LinkedTo(t)
                            /\ LinkedTo(t) \subseteq Clients
                            /\ None \notin write_locked[t]
      /\ NoneShared
      /\ \A c \in Clients : Unlinked(c)
  BY DEF IInv, Typed, LinkedTo, InBacklog
<1> USE <1>0
<1>1. CASE UNCHANGED <<post_id, write_locked, slots, backlog>>
  <2>1. \A t \in Servers : InBacklog(t)' = InBacklog(t)
    BY <1>1 DEF InBacklog
  <2> QED
    BY <1>1, <2>1 DEF Reservations, NoneShared
<1>2. CASE /\ UNCHANGED <<post_id, write_locked>>
           /\ \E s \in Servers, c \in Clients : Starts(s, c)
  <2>1. PICK s \in Servers, c \in Clients : Starts(s, c)
    BY <1>2
  <2>2. post_id[c] = None /\ c \notin Elems(backlog[s]) /\ Distinct(backlog[s])
    BY <2>1 DEF Starts, Unlinked, Linked, LinkedTo, InBacklog, Elems, IInv, Links,
       Queue, Distinct
  <2>3. backlog'[s] = Append(backlog[s], c) /\ backlog[s] \in Seq(Clients)
        /\ \A t \in Servers \ {s} : backlog'[t] = backlog[t]
    BY <2>1 DEF Starts, Typed
  <2>4. Elems(backlog'[s]) = Elems(backlog[s]) \cup {c}
    BY <2>2, <2>3, QueueGains
  <2>5. \A t \in Servers : InBacklog(t)' \subseteq InBacklog(t) \cup {c}
    BY <2>3, <2>4 DEF InBacklog, Elems
  <2> QED
    BY <1>2, <2>1, <2>2, <2>5 DEF Starts, Reservations, NoneShared
<1>3. CASE /\ UNCHANGED <<post_id, write_locked>>
           /\ \E s \in Servers : Accepts(s)
  <2>1. PICK s \in Servers : Accepts(s)
    BY <1>3
  <2> DEFINE c == Head(backlog[s])
  <2>2. /\ c \in Elems(backlog[s]) /\ Elems(Tail(backlog[s])) = Elems(backlog[s]) \ {c}
    <3>1. backlog[s] \in Seq(Clients) /\ Distinct(backlog[s])
      BY DEF Typed, IInv, Links, Queue, Distinct
    <3> QED
      BY <2>1, <3>1, QueueLoses DEF Accepts
  <2>3. post_id[c] = None
    BY <2>2 DEF Reservations, InBacklog, Elems
  <2>4. \A t \in Servers : /\ InBacklog(t)' \subseteq InBacklog(t)
                           /\ slots[t] \subseteq slots'[t]
                           /\ slots'[t] \subseteq slots[t] \cup {c}
    <3>1. ASSUME NEW t \in Servers
          PROVE  Elems(backlog'[t]) \subseteq Elems(backlog[t])
      BY <2>1, <2>2 DEF Accepts, Typed
    <3>2. ASSUME NEW t \in Servers
          PROVE  slots[t] \subseteq slots'[t] /\ slots'[t] \subseteq slots[t] \cup {c}
      <4>1. slots' = slots \/ slots' = [slots EXCEPT ![s] = @ \cup {c}]
        BY <2>1 DEF Accepts
      <4>2. slots \in [Servers -> SUBSET Clients]
        BY DEF Typed
      <4> HIDE DEF c
      <4>3. CASE slots' = slots
        BY <4>3
      <4>4. CASE slots' = [slots EXCEPT ![s] = @ \cup {c}]
        <5>1. slots'[t] = IF t = s THEN slots[s] \cup {c} ELSE slots[t]
          BY <4>2, <4>4
        <5> QED
          BY <5>1
      <4> QED
        BY <4>1, <4>3, <4>4
    <3> QED
      BY <3>1, <3>2 DEF InBacklog, Elems
  <2> HIDE DEF c
  <2>5. NoneShared'
    BY <1>3 DEF NoneShared
  <2>6. \A t \in Servers : Reservations(t)'
    BY <1>3, <2>3, <2>4 DEF Reservations
  <2> QED
    BY <2>5, <2>6
<1>4. ASSUME NEW s \in Servers, NEW c \in Clients, GivesBack(s, c)
      PROVE  (\A t \in Servers : Reservations(t)') /\ NoneShared'
  <2>1. /\ post_id'[c] = None /\ \A d \in Clients \ {c} : post_id'[d] = post_id[d]
        /\ write_locked'[s] = write_locked[s] \ {post_id[c]}
        /\ \A t \in Servers \ {s} : write_locked'[t] = write_locked[t]
        /\ c \in slots[s]
    BY <1>4 DEF GivesBack, Released, Typed
  <2>2. \A t \in Servers : InBacklog(t)' = InBacklog(t)
    BY <1>4 DEF GivesBack, InBacklog
  <2>3. /\ slots'[s] \subseteq slots[s] /\ slots[s] \ {c} \subseteq slots'[s]
        /\ \A t \in Servers \ {s} : slots'[t] = slots[t] /\ c \notin slots[t]
    <3>1. slots'[s] \subseteq slots[s] /\ slots[s] \ {c} \subseteq slots'[s]
          /\ \A t \in Servers \ {s} : slots'[t] = slots[t]
      BY <1>4 DEF GivesBack, Typed
    <3>2. \A t \in Servers \ {s} : c \notin slots[t]
      BY <2>1 DEF IInv, Links, Apart
    <3> QED
      BY <3>1, <3>2
  <2>4. Reservations(s)'
    <3>1. \A d \in slots'[s] : post_id'[d] # None => post_id'[d] \in write_locked'[s]
      BY <2>1, <2>3 DEF Reservations, NoneShared
    <3>2. \A r \in write_locked'[s] : \E d \in slots'[s] : post_id'[d] = r
      BY <2>1, <2>3 DEF Reservations
    <3>3. \A d \in InBacklog(s)' : post_id'[d] = None
      BY <2>1, <2>2 DEF Reservations, LinkedTo
    <3> QED
      BY <3>1, <3>2, <3>3 DEF Reservations
  <2>5. ASSUME NEW t \in Servers \ {s} PROVE Reservations(t)'
    <3>1. \A d \in slots[t] : d \in Clients \ {c}
      BY <2>3
    <3>2. \A d \in InBacklog(t) : post_id'[d] = None
      BY <2>1 DEF Reservations, LinkedTo
    <3> QED
      BY <2>1, <2>2, <2>3, <3>1, <3>2 DEF Reservations
  <2>6. NoneShared'
    BY <2>1 DEF NoneShared
  <2> QED
    BY <2>4, <2>5, <2>6
<1>5. ASSUME NEW s \in Servers, NEW c \in Clients, NEW r \in Records, Takes(s, c, r)
      PROVE  (\A t \in Servers : Reservations(t)') /\ NoneShared'
  <2>1. /\ post_id'[c] = r /\ \A d \in Clients \ {c} : post_id'[d] = post_id[d]
        /\ write_locked'[s] = write_locked[s] \cup {r}
        /\ \A t \in Servers \ {s} : write_locked'[t] = write_locked[t]
        /\ c \in slots[s] /\ post_id[c] = None
        /\ \A d \in Clients : post_id[d] # r
    BY <1>5 DEF Takes, Typed
  <2>2. slots' = slots /\ \A t \in Servers : InBacklog(t)' = InBacklog(t)
    BY <1>5 DEF Takes, InBacklog
  <2>3. /\ c \notin InBacklog(s)
        /\ \A t \in Servers \ {s} : c \notin slots[t] /\ c \notin InBacklog(t)
    BY <2>1 DEF IInv, Links, Apart, Queue, LinkedTo
  <2>4. Reservations(s)'
    <3>1. \A d \in slots[s] : post_id'[d] # None => post_id'[d] \in write_locked'[s]
      BY <2>1 DEF Reservations
    <3>2. \A q \in write_locked'[s] : \E d \in slots[s] : post_id'[d] = q
      <4>1. ASSUME NEW q \in write_locked[s]
            PROVE  \E d \in slots[s] : post_id'[d] = q
        BY <2>1 DEF Reservations
      <4> QED
        BY <2>1, <4>1
    <3>3. \A d \in InBacklog(s) : post_id'[d] = None
      BY <2>1, <2>3 DEF Reservations, LinkedTo
    <3> QED
      BY <2>2, <3>1, <3>2, <3>3 DEF Reservations
  <2>5. ASSUME NEW t \in Servers \ {s} PROVE Reservations(t)'
    <3>1. \A d \in slots[t] \cup InBacklog(t) : d \in Clients \ {c}
      BY <2>3 DEF LinkedTo
    <3> QED
      BY <2>1, <2>2, <3>1 DEF Reservations
  <2>6. NoneShared'
    BY <2>1 DEF NoneShared
  <2> QED
    BY <2>4, <2>5, <2>6
<1>6. ASSUME NEW s \in Servers, Die(s)
      PROVE  (\A t \in Servers : Reservations(t)') /\ NoneShared'
  <2>1. /\ \A d \in slots[s] : post_id'[d] = None
        /\ \A d \in Clients \ slots[s] : post_id'[d] = post_id[d]
    BY <1>6 DEF Die
  <2>2. write_locked'[s] = {} /\ slots'[s] = {} /\ backlog'[s] = <<>>
        /\ \A t \in Servers \ {s} : SameServer(t)
    BY <1>6, ServerFrame DEF Die, Typed
  <2>3. Reservations(s)'
    <3>1. InBacklog(s)' = {}
      <4>1. Len(backlog'[s]) = 0
        BY <2>2
      <4> QED
        BY <4>1 DEF InBacklog
    <3> QED
      BY <2>2, <3>1 DEF Reservations
  <2>4. ASSUME NEW t \in Servers \ {s} PROVE Reservations(t)'
    <3>1. \A d \in slots[t] \cup InBacklog(t) : d \in Clients \ slots[s]
      BY DEF IInv, Links, Apart, LinkedTo
    <3>2. InBacklog(t)' = InBacklog(t) /\ slots'[t] = slots[t]
          /\ write_locked'[t] = write_locked[t]
      BY <2>2 DEF SameServer, InBacklog
    <3> QED
      BY <2>1, <3>1, <3>2 DEF Reservations
  <2>5. NoneShared'
    BY <2>1 DEF NoneShared
  <2> QED
    BY <2>3, <2>4, <2>5
<1> QED
  BY <1>1, <1>2, <1>3, <1>4, <1>5, <1>6, RecordMoves

-----------------------------------------------------------------------------
(* Answering a question: the client that asked it learns of it, or is gone *)
(* and its kernel says so.                                                 *)
LEMMA TalkAnswer ==
  ASSUME NEW w \in {"pull", "post"}, NEW v \in {"free", "held"},
         NEW q \in Seq(Messages), NEW p, NEW a, NEW b, Talk(w, q, p, a, b),
         NEW answer, Stands(v, IF w = "pull" THEN "pulling" ELSE "asking", answer)
  PROVE  /\ p = "off" => Talk(v, q, p, a, TRUE)
         /\ p # "off" => Talk(v, q, p, answer, b)
<1>1. CASE q = <<>>
  <2>1. Stands(w, p, a) /\ ~b
    BY <1>1, TalkEmpty
  <2>2. p = IF w = "pull" THEN "pulling" ELSE "asking"
    BY <2>1 DEF Stands
  <2> QED
    BY <1>1, <2>1, <2>2, TalkEmpty
<1>2. CASE q # <<>>
  <2>1. q[1].cmd = "eof"
    BY <1>2 DEF Talk, Follow
  <2>2. p = "off"
    BY <1>2, <2>1, TalkEnd
  <2>3. "eof" \in Follow(v)
    BY DEF Follow
  <2> QED
    BY <1>2, <2>1, <2>2, <2>3 DEF Talk, LastOf
<1> QED
  BY <1>1, <1>2

(* Having written a post.                                                  *)
LEMMA TalkDone ==
  ASSUME NEW q, NEW p, NEW a, NEW b, Talk("data", q, p, a, b)
  PROVE  Talk("free", q, p, a, b)
<1>1. Follow("data") = Follow("free")
  BY DEF Follow
<1>2. ~b
  BY DEF Talk
<1>3. Stands(LastOf("free", q), p, a)
  BY DEF Talk, LastOf, Stands
<1> QED
  BY <1>1, <1>2, <1>3 DEF Talk

(* A last word of the server's own means that nothing is under way.        *)
LEMMA TalkQuiet ==
  ASSUME NEW w, NEW q \in Seq(Messages), LastOf(w, q) \in {"free", "held"}
  PROVE  q = <<>> /\ w \in {"free", "held"}
<1>1. CASE q # <<>>
  <2>1. Len(q) \in 1..Len(q)
    BY <1>1
  <2>2. q[Len(q)].cmd \in CmdWords
    BY <2>1, Words
  <2> QED
    BY <1>1, <2>2 DEF LastOf, CmdWords
<1> QED
  BY <1>1 DEF LastOf

(* What a client does next goes on with what it has said.                  *)
LEMMA ClientTalks ==
  ASSUME IInv, NEW c \in Clients, ClientStep(c), NEW s \in Servers, c \in LinkedTo(s)
  PROVE  Talk(Standing(s, c), stream'[c], pc'[c], reply'[c], reset'[c])
<1> DEFINE w == Standing(s, c)
           q == stream[c]
<1>0. /\ Typed /\ q \in Seq(Messages) /\ Linked(c)
      /\ Talk(w, q, pc[c], reply[c], reset[c])
      /\ Stands(LastOf(w, q), pc[c], reply[c])
  BY DEF IInv, Typed, Conversation, Linked, Talk
<1> SUFFICES Talk(w, stream'[c], pc'[c], reply'[c], reset'[c])
  OBVIOUS
<1> HIDE DEF w
<1>1. ASSUME NEW m \in Messages, Send(c, m) PROVE stream'[c] = Append(q, m)
  BY <1>0, <1>1 DEF Send, Typed
<1>2. ASSUME NEW from, NEW to, NEW v \in {"pull", "post", "content", "release"},
             ClientSends(c, from, to, v),
             v \in Follow(LastOf(w, q)), Stands(v, to, reply[c])
      PROVE  Talk(w, stream'[c], pc'[c], reply'[c], reset'[c])
  <2>1. /\ stream'[c] = Append(q, Message(v, None)) /\ Message(v, None) \in Messages
        /\ Message(v, None).cmd = v
    BY <1>1, <1>2, Words DEF ClientSends
  <2>2. pc'[c] = to /\ reply'[c] = reply[c] /\ reset'[c] = FALSE
    BY <1>0, <1>2 DEF ClientSends, At, Typed
  <2> QED
    BY <1>0, <1>2, <2>1, <2>2, TalkAppend
<1>3. CASE Pull(c) \/ Post(c)
  <2>1. pc[c] = "menu"
    BY <1>3 DEF Pull, Post, ClientSends
  <2>2. reply[c] = None /\ LastOf(w, q) \in {"free", "release", "data"}
    BY <1>0, <2>1 DEF Stands
  <2>3. "pull" \in Follow(LastOf(w, q)) /\ "post" \in Follow(LastOf(w, q))
    BY <2>2 DEF Follow
  <2>4. Stands("pull", "pulling", reply[c]) /\ Stands("post", "asking", reply[c])
    BY <2>2 DEF Stands
  <2> QED
    BY <1>2, <1>3, <2>3, <2>4 DEF Pull, Post
<1>4. CASE GiveUp(c) \/ SendContent(c)
  <2>1. pc[c] = "editing"
    BY <1>4 DEF GiveUp, SendContent, ClientSends
  <2>2. reply[c] = None /\ LastOf(w, q) = "held"
    BY <1>0, <2>1 DEF Stands
  <2>3. "content" \in Follow(LastOf(w, q)) /\ "release" \in Follow(LastOf(w, q))
    BY <2>2 DEF Follow
  <2>4. Stands("content", "sending", reply[c]) /\ Stands("release", "menu", reply[c])
    BY <2>2 DEF Stands
  <2> QED
    BY <1>2, <1>4, <2>3, <2>4 DEF GiveUp, SendContent
<1>5. CASE SendData(c)
  <2>1. pc[c] = "sending"
    BY <1>5 DEF SendData
  <2>2. reply[c] = None /\ LastOf(w, q) = "content"
    BY <1>0, <2>1 DEF Stands
  <2>3. ~reset[c]
    <3> SUFFICES ASSUME reset[c] PROVE FALSE
      OBVIOUS
    <3>1. q # <<>> /\ q[1].cmd = "eof"
      BY <1>0 DEF Talk
    <3> QED
      BY <1>0, <2>1, <3>1, TalkEnd
  <2>4. PICK p \in Posts : Send(c, Message("data", p))
    BY <1>5 DEF SendData
  <2>5. /\ stream'[c] = Append(q, Message("data", p))
        /\ Message("data", p) \in Messages /\ Message("data", p).cmd = "data"
    BY <1>1, <2>4, Words
  <2>6. pc'[c] = "menu" /\ reply'[c] = reply[c] /\ reset'[c] = reset[c]
    BY <1>0, <1>5 DEF SendData, At, Typed
  <2>7. "data" \in Follow(LastOf(w, q)) /\ Stands("data", "menu", reply[c])
    BY <2>2 DEF Follow, Stands
  <2> QED
    BY <1>0, <2>3, <2>5, <2>6, <2>7, TalkAppend
<1>6. CASE TakeReply(c)
  <2>1. /\ reply[c] # None /\ reply'[c] = None
        /\ pc'[c] = IF reply[c] = "grant" THEN "editing" ELSE "menu"
        /\ stream'[c] = q /\ reset'[c] = reset[c]
    BY <1>0, <1>6 DEF TakeReply, At, Typed
  <2>2. Stands(LastOf(w, q), pc'[c], reply'[c])
    BY <1>0, <2>1 DEF Stands
  <2> QED
    BY <1>0, <2>1, <2>2 DEF Talk
<1>7. CASE ReadFails(c)
  BY <1>0, <1>7 DEF ReadFails
<1>8. CASE Leave(c)
  <2>1. /\ stream'[c] = Append(q, Message("eof", None))
        /\ Message("eof", None) \in Messages /\ Message("eof", None).cmd = "eof"
    BY <1>1, <1>8, Words DEF Leave
  <2>2. /\ pc[c] # "off" /\ pc'[c] = "off" /\ reply'[c] = None
        /\ reset'[c] => reply[c] # None
    BY <1>0, <1>8 DEF Leave, At, Typed
  <2>3. Stands("eof", "off", None) /\ "eof" \in Follow(LastOf(w, q))
    <3>1. LastOf(w, q) \in {"free", "held", "release", "data", "content", "pull", "post"}
      BY <1>0, <2>2 DEF Stands
    <3> QED
      BY <3>1 DEF Follow, Stands
  <2>4. reset'[c] => q = <<>> /\ w \in {"free", "held"}
    <3>1. reply[c] # None => LastOf(w, q) \in {"free", "held"}
      BY <1>0 DEF Stands
    <3> QED
      BY <1>0, <2>2, <3>1, TalkQuiet
  <2> QED
    BY <1>0, <2>1, <2>2, <2>3, <2>4, TalkAppend
<1>9. ASSUME NEW t \in Servers, Start(c, t)
      PROVE  Talk(w, stream'[c], pc'[c], reply'[c], reset'[c])
  BY <1>0, <1>9 DEF Start
<1> QED
  BY <1>3, <1>4, <1>5, <1>6, <1>7, <1>8, <1>9 DEF ClientStep

(* And a new one starts with a pull.                                       *)
LEMMA NewTalk ==
  ASSUME IInv, NEW c \in Clients, NEW s \in Servers, Start(c, s)
  PROVE  /\ \A t \in Servers : Standing(t, c) = "free"
         /\ Talk("free", stream'[c], pc'[c], reply'[c], reset'[c])
<1>0. Typed /\ ~Linked(c) /\ post_id[c] = None
  BY DEF IInv, Start, Unlinked
<1>1. reply[c] = None
  BY DEF IInv, InStep, Start
<1>2. \A t \in Servers : Standing(t, c) = "free"
  BY <1>0 DEF IInv, Links, Serving, Standing, Linked, LinkedTo
<1>3. /\ stream'[c] = <<Message("pull", None)>> /\ pc'[c] = "pulling"
      /\ reply'[c] = None /\ reset'[c] = FALSE
  BY <1>0, <1>1 DEF Start, At, Typed
<1>4. Message("pull", None).cmd = "pull"
  BY DEF Message
<1>5. /\ Len(stream'[c]) = 1 /\ stream'[c][1] = Message("pull", None)
      /\ stream'[c] # <<>>
  BY <1>3
<1> HIDE DEF Message
<1>6. "pull" \in Follow("free") /\ Stands("pull", "pulling", None)
  BY DEF Follow, Stands
<1> QED
  BY <1>2, <1>3, <1>4, <1>5, <1>6 DEF Talk, LastOf

(* A server moves on with one client: the conversations with its others    *)
(* stay where they were.                                                   *)
LEMMA OneTalk ==
  ASSUME IInv, NEW s \in Servers, NEW c, pc' = pc,
         LinkedTo(s)' \subseteq LinkedTo(s),
         op[s].who \in {None, c}, op'[s].who \in {None, c},
         \A d \in LinkedTo(s)' \ {c} : SameClient(d),
         c \in LinkedTo(s)' =>
           Talk(Standing(s, c)', stream'[c], pc'[c], reply'[c], reset'[c])
  PROVE  Conversation(s)'
<1>1. \A d \in LinkedTo(s) : d \in Clients
  BY DEF IInv, Typed, LinkedTo, InBacklog
<1>2. ASSUME NEW d \in LinkedTo(s)', d # c
      PROVE  Talk(Standing(s, d)', stream'[d], pc'[d], reply'[d], reset'[d])
  <2>1. d \in LinkedTo(s) /\ d # None /\ SameClient(d)
    BY <1>1, <1>2
  <2>2. Standing(s, d)' = Standing(s, d)
    BY <1>2, <2>1 DEF Standing, SameClient
  <2> QED
    BY <2>1, <2>2 DEF IInv, Conversation, SameClient
<1> QED
  BY <1>2 DEF Conversation

(* What closing a connection leaves of those of its server.                *)
LEMMA ClosedLinks ==
  ASSUME IInv, NEW s \in Servers, NEW c \in slots[s], Closed(s, c), UNCHANGED <<backlog, reply>>
  PROVE  /\ LinkedTo(s)' = LinkedTo(s) \ {c}
         /\ \A d \in LinkedTo(s)' : SameClient(d)
         /\ op'[s] = Select0 /\ Select0.who = None
<1>1. Typed /\ \A d \in LinkedTo(s) : d \in Clients
  BY DEF IInv, Typed, LinkedTo, InBacklog
<1>2. slots'[s] = slots[s] \ {c} /\ InBacklog(s)' = InBacklog(s)
      /\ c \notin InBacklog(s)
  BY <1>1 DEF Closed, InBacklog, Typed, IInv, Links, Queue
<1>3. LinkedTo(s)' = LinkedTo(s) \ {c}
  BY <1>2 DEF LinkedTo
<1>4. ASSUME NEW d \in Clients \ {c} PROVE SameClient(d)
  BY <1>1 DEF Closed, Released, Forget, SameClient, Typed
<1>5. op'[s] = Select0
  BY <1>1, OpMoves DEF Closed
<1> QED
  BY <1>1, <1>3, <1>4, <1>5, OpTypes

(* The conversations of a server that takes a step.                        *)
LEMMA ServerTalks ==
  ASSUME IInv, NEW s \in Servers, ServerStep(s)
  PROVE  Conversation(s)'
<1> PICK c0 : c0 = op[s].who
  OBVIOUS
<1>0. /\ Typed /\ pc' = pc /\ None \notin Clients
      /\ Links(s) /\ InHand(s) /\ slots[s] \subseteq LinkedTo(s)
      /\ \A d \in LinkedTo(s) : d \in Clients /\ stream[d] \in Seq(Messages)
      /\ op[s].do = "select" => c0 = None
      /\ op[s].do # "select" => c0 \in slots[s] /\ c0 \in LinkedTo(s)
  BY ServerFrame DEF IInv, Typed, LinkedTo, InBacklog, Links, Serving
<1>1. ASSUME NEW d \in LinkedTo(s)
      PROVE  Talk(Standing(s, d), stream[d], pc[d], reply[d], reset[d])
  BY DEF IInv, Conversation
<1>2. ASSUME UNCHANGED <<slots, backlog>> PROVE LinkedTo(s)' = LinkedTo(s)
  BY <1>2 DEF LinkedTo, InBacklog
<1>3. ASSUME NEW c \in slots[s], op[s].do # "pread", Disconnect(s, c), c0 \in {None, c},
             UNCHANGED <<backlog, reply>>
      PROVE  Conversation(s)'
  <2>1. Closed(s, c)
    BY <1>3, DisconnectFacts
  <2>2. /\ LinkedTo(s)' = LinkedTo(s) \ {c}
        /\ \A d \in LinkedTo(s)' : SameClient(d)
        /\ op'[s].who = None
    BY <1>3, <2>1, ClosedLinks
  <2> QED
    BY <1>0, <1>3, <2>2, OneTalk
<1>4. CASE Select(s)
  <2>1. op' = op /\ op[s].who = None /\ UNCHANGED <<post_id, reply>>
    BY <1>0, <1>4 DEF Select
  <2>2. CASE backlog[s] = <<>>
    <3>1. UNCHANGED <<backlog, slots, stream, reset>>
      BY <1>4, <2>2 DEF Select, Accept
    <3> QED
      BY <1>0, <1>2, <2>1, <3>1, OneTalk DEF SameClient
  <2>3. CASE backlog[s] # <<>>
    <3> DEFINE h == Head(backlog[s])
    <3>1. /\ backlog' = [backlog EXCEPT ![s] = Tail(@)]
          /\ \/ slots' = [slots EXCEPT ![s] = @ \cup {h}] /\ UNCHANGED <<stream, reset>>
             \/ Forget(h) /\ UNCHANGED slots
      BY <1>4, <2>3 DEF Select, Accept
    <3>2. backlog[s] \in Seq(Clients) /\ Distinct(backlog[s])
      BY <1>0 DEF Typed, Links, Queue, Distinct
    <3>3. h \in InBacklog(s) /\ InBacklog(s)' = InBacklog(s) \ {h}
      <4>1. backlog'[s] = Tail(backlog[s])
        BY <1>0, <3>1 DEF Typed
      <4>2. InBacklog(s) = Elems(backlog[s]) /\ InBacklog(s)' = Elems(backlog'[s])
        BY DEF InBacklog, Elems
      <4> QED
        BY <2>3, <3>2, <4>1, <4>2, QueueLoses
    <3>4. h \notin slots[s]
      BY <1>0, <3>3 DEF Links, Queue
    <3> HIDE DEF h
    <3>5. CASE slots' = [slots EXCEPT ![s] = @ \cup {h}] /\ UNCHANGED <<stream, reset>>
      <4>1. LinkedTo(s)' = LinkedTo(s)
        BY <1>0, <3>3, <3>5 DEF LinkedTo, Typed
      <4> QED
        BY <1>0, <2>1, <3>5, <4>1, OneTalk DEF SameClient
    <3>6. CASE Forget(h) /\ UNCHANGED slots
      <4>1. LinkedTo(s)' = LinkedTo(s) \ {h}
        BY <3>3, <3>4, <3>6 DEF LinkedTo
      <4>2. \A d \in LinkedTo(s)' : SameClient(d)
        BY <1>0, <2>1, <3>6, <4>1 DEF Forget, SameClient, Typed
      <4> QED
        BY <1>0, <2>1, <4>1, <4>2, OneTalk
    <3> QED
      BY <3>1, <3>5, <3>6
  <2> QED
    BY <2>2, <2>3
<1>5. CASE Serve(s)
  <2>1. PICK c \in Clients, w \in CmdWords : Served(s, c, w)
    BY <1>5, ServeFacts
  <2>2. /\ c \in LinkedTo(s) /\ c \in slots[s] /\ c0 = None /\ op[s].do = "select"
        /\ UNCHANGED <<backlog, reply>> /\ stream[c] # <<>> /\ stream[c][1].cmd = w
    BY <1>0, <2>1 DEF Served
  <2>3. CASE Disconnect(s, c)
    BY <1>3, <2>2, <2>3
  <2>4. ASSUME Consume(c)
        PROVE  /\ LinkedTo(s)' = LinkedTo(s)
               /\ stream'[c] = Tail(stream[c])
               /\ \A d \in Clients \ {c} : stream'[d] = stream[d]
               /\ reply' = reply /\ reset' = reset
    BY <1>0, <1>2, <2>2, <2>4 DEF Consume, Typed
  <2>5. CASE /\ \/ w = "pull" /\ Become(s, Doing("pull", c))
                \/ w = "post" /\ Become(s, Doing("post", c))
                \/ w = "content" /\ Become(s, Doing("recv", c))
             /\ Consume(c) /\ UNCHANGED post_id
    <3>1. \/ w = "pull" /\ op'[s] = Doing("pull", c)
          \/ w = "post" /\ op'[s] = Doing("post", c)
          \/ w = "content" /\ op'[s] = Doing("recv", c)
      BY <1>0, <2>5, OpMoves
    <3>2. /\ op'[s].who = c
          /\ \/ w = "pull" /\ op'[s].do = "pull"
             \/ w = "post" /\ op'[s].do = "post"
             \/ w = "content" /\ op'[s].do = "recv"
      BY <3>1, OpTypes DEF Doings
    <3>3. Standing(s, c)' = w
      BY <3>2 DEF Standing, Word
    <3>4. ~reset[c] /\ Talk(w, Tail(stream[c]), pc[c], reply[c], FALSE)
      BY <1>0, <1>1, <2>2, <3>2, TalkTail
    <3>5. reset'[c] = FALSE
      BY <1>0, <2>4, <2>5, <3>4 DEF Typed
    <3>6. Talk(Standing(s, c)', stream'[c], pc'[c], reply'[c], reset'[c])
      BY <1>0, <2>4, <2>5, <3>3, <3>4, <3>5
    <3>7. \A d \in LinkedTo(s)' \ {c} : SameClient(d)
      BY <1>0, <2>4, <2>5 DEF SameClient
    <3> QED
      BY <1>0, <2>2, <2>4, <2>5, <3>2, <3>6, <3>7, OneTalk
  <2>6. CASE w = "release" /\ ReleaseWriteLock(s, c) /\ Consume(c) /\ UNCHANGED op
    <3>1. post_id' = [post_id EXCEPT ![c] = None]
      BY <2>2, <2>6, ReleaseFacts DEF Released
    <3>2. Standing(s, c)' = "free"
      BY <1>0, <2>2, <2>6, <3>1 DEF Standing, Typed
    <3>3. ~reset[c] /\ Talk("free", Tail(stream[c]), pc[c], reply[c], FALSE)
      BY <1>0, <1>1, <2>2, <2>6, TalkTail
    <3>4. reset'[c] = FALSE
      BY <1>0, <2>4, <2>6, <3>3 DEF Typed
    <3>5. Talk(Standing(s, c)', stream'[c], pc'[c], reply'[c], reset'[c])
      BY <1>0, <2>4, <2>6, <3>2, <3>3, <3>4
    <3>6. \A d \in LinkedTo(s)' \ {c} : SameClient(d)
      BY <1>0, <2>4, <2>6, <3>1 DEF SameClient, Typed
    <3> QED
      BY <1>0, <2>2, <2>4, <2>6, <3>5, <3>6, OneTalk
  <2> QED
    BY <2>1, <2>3, <2>5, <2>6 DEF Served
<1>6. ASSUME UNCHANGED <<slots, backlog, stream, reply, reset, post_id>>,
             op[s].do # "select", op'[s].who = c0, Word(op'[s].do) = Word(op[s].do)
      PROVE  Conversation(s)'
  <2>1. Standing(s, c0)' = Standing(s, c0)
    BY <1>6 DEF Standing
  <2>2. Talk(Standing(s, c0)', stream'[c0], pc'[c0], reply'[c0], reset'[c0])
    BY <1>0, <1>1, <1>6, <2>1
  <2>3. op'[s].who \in {None, c0} /\ op[s].who \in {None, c0}
    BY <1>6
  <2>4. LinkedTo(s)' = LinkedTo(s) /\ \A d \in LinkedTo(s)' \ {c0} : SameClient(d)
    BY <1>2, <1>6 DEF SameClient
  <2> QED
    BY <1>0, <2>2, <2>3, <2>4, OneTalk
<1>7. CASE PullTry(s)
  <2>1. op[s].do = "pull" /\ op'[s].who = c0 /\ op'[s].do \in {"pull", "pread"}
    BY <1>0, <1>7, OpMoves DEF Continues
  <2> QED
    BY <1>6, <1>7, <2>1 DEF PullTry, network, Word
<1>8. CASE PullRead(s)
  <2>1. op[s].do = "pread" /\ op'[s].who = c0 /\ op'[s].do = "pull"
    BY <1>0, <1>8, OpMoves DEF Continues
  <2> QED
    BY <1>6, <1>8, <2>1 DEF PullRead, network, Word
<1>9. CASE WriteFrom(s)
  <2>1. op[s].do = "write" /\ op'[s].who = c0 /\ op'[s].do = "written"
    BY <1>0, <1>9, OpMoves DEF Continues
  <2> QED
    BY <1>6, <1>9, <2>1 DEF WriteFrom, network, Word
<1>10. ASSUME NEW w \in {"pull", "post"}, NEW v \in {"free", "held"}, NEW answer,
              op[s].do = w, Write(c0, answer),
              Stands(v, IF w = "pull" THEN "pulling" ELSE "asking", answer),
              op'[s] = Select0, UNCHANGED <<slots, backlog, stream>>,
              v = IF post_id'[c0] = None THEN "free" ELSE "held",
              \A d \in Clients \ {c0} : post_id'[d] = post_id[d]
       PROVE  Conversation(s)'
  <2>1. c0 \in LinkedTo(s) /\ c0 \in Clients /\ c0 # None
    BY <1>0, <1>10
  <2>2. Standing(s, c0) = w
    BY <1>10 DEF Standing, Word
  <2>3. Standing(s, c0)' = v /\ op'[s].who = None
    BY <1>10, <2>1, OpTypes DEF Standing
  <2>4. Talk(w, stream[c0], pc[c0], reply[c0], reset[c0])
    BY <1>1, <2>1, <2>2
  <2>5. /\ pc[c0] = "off" => Talk(v, stream[c0], pc[c0], reply[c0], TRUE)
        /\ pc[c0] # "off" => Talk(v, stream[c0], pc[c0], answer, reset[c0])
    BY <1>0, <1>10, <2>1, <2>4, TalkAnswer
  <2>6. /\ pc[c0] = "off" => reset'[c0] = TRUE /\ reply'[c0] = reply[c0]
        /\ pc[c0] # "off" => reset'[c0] = reset[c0] /\ reply'[c0] = answer
    BY <1>0, <1>10, <2>1 DEF Write, Typed
  <2>7. Talk(Standing(s, c0)', stream'[c0], pc'[c0], reply'[c0], reset'[c0])
    BY <1>0, <1>10, <2>3, <2>5, <2>6
  <2>8. /\ LinkedTo(s)' = LinkedTo(s)
        /\ \A d \in Clients \ {c0} : SameClient(d)
    BY <1>0, <1>2, <1>10 DEF SameClient, Write, Typed
  <2>9. \A d \in LinkedTo(s)' \ {c0} : SameClient(d)
    BY <1>0, <2>8
  <2>10. op[s].who \in {None, c0}
    OBVIOUS
  <2> QED
    BY <1>0, <2>3, <2>7, <2>8, <2>9, <2>10, OneTalk
<1>11. CASE PullAnswer(s)
  <2>1. /\ op[s].do = "pull" /\ op'[s] = Select0 /\ Write(c0, "posts")
        /\ UNCHANGED <<slots, backlog, stream, post_id>>
    BY <1>0, <1>11, OpMoves DEF PullAnswer
  <2>2. post_id'[c0] = None
    BY <1>0, <2>1 DEF InHand
  <2>3. Stands("free", "pulling", "posts")
    BY DEF Stands
  <2> QED
    BY <1>10, <2>1, <2>2, <2>3
<1>12. CASE PostTry(s)
  <2>0. op[s].do = "post" /\ UNCHANGED <<slots, backlog, stream>>
        /\ c0 \in Clients
    BY <1>0, <1>12, OpMoves, GrantFacts
  <2>1. CASE Takes(s, c0, Candidate(s)) /\ Write(c0, "grant") /\ op'[s] = Select0
    <3>1. /\ post_id'[c0] # None
          /\ \A d \in Clients \ {c0} : post_id'[d] = post_id[d]
      BY <1>0, <2>0, <2>1 DEF Takes, Typed
    <3>2. Stands("held", "asking", "grant")
      BY DEF Stands
    <3> QED
      BY <1>10, <2>0, <2>1, <3>1, <3>2
  <2>2. CASE Write(c0, "refuse") /\ op'[s] = Select0 /\ UNCHANGED post_id
    <3>1. post_id'[c0] = None
      BY <1>0, <2>0, <2>2 DEF InHand
    <3>2. Stands("free", "asking", "refuse")
      BY DEF Stands
    <3> QED
      BY <1>10, <2>0, <2>2, <3>1, <3>2
  <2>3. CASE op'[s] # Select0 /\ UNCHANGED <<reply, reset, post_id>>
    <3>1. op'[s].do = "post" /\ op'[s].who = c0
      BY <1>0, <1>12, <2>3, OpMoves DEF Continues
    <3> QED
      BY <1>6, <2>0, <2>3, <3>1
  <2> QED
    BY <1>12, <2>1, <2>2, <2>3, GrantFacts
<1>13. CASE RecvContent(s)
  <2>1. CASE Head(stream[c0]).cmd = "eof"
    BY <1>0, <1>3, <1>13, <2>1 DEF RecvContent
  <2>2. CASE Head(stream[c0]).cmd # "eof"
    <3>1. /\ op[s].do = "recv" /\ stream[c0] # <<>> /\ c0 \in LinkedTo(s)
          /\ UNCHANGED <<post_id, slots, reset, backlog, reply>>
          /\ stream' = [stream EXCEPT ![c0] = Tail(@)]
      BY <1>0, <1>13, <2>2 DEF RecvContent
    <3>2. op'[s].do = "write" /\ op'[s].who = c0
      <4>1. post_id[c0] # None
        BY <1>0, <3>1 DEF InHand
      <4>2. op'[s] = [op[s] EXCEPT !.do = "write", !.post = Head(stream[c0]).post]
        BY <1>0, <1>13, <2>2, <4>1, OpMoves DEF RecvContent
      <4>3. op[s] \in Op
        BY <1>0 DEF Typed
      <4> QED
        BY <4>2, <4>3 DEF Op
    <3>3. Standing(s, c0) = "content" /\ Standing(s, c0)' = "data"
      BY <3>1, <3>2 DEF Standing, Word
    <3>4. stream[c0][1].cmd = "data"
      BY <1>13, <2>2, RecvPost
    <3>5. Talk("content", stream[c0], pc[c0], reply[c0], reset[c0])
      BY <1>1, <3>1, <3>3
    <3>6. ~reset[c0] /\ Talk("data", Tail(stream[c0]), pc[c0], reply[c0], FALSE)
      <4> DEFINE q == stream[c0]
      <4>1. /\ q \in Seq(Messages) /\ q # <<>>
            /\ q[1].cmd # "eof" /\ q[1].cmd # "release"
        BY <1>0, <3>1, <3>4
      <4>2. ~reset[c0] /\ Talk(q[1].cmd, Tail(q), pc[c0], reply[c0], FALSE)
        BY <3>5, <4>1, TalkTail
      <4> QED
        BY <3>4, <4>2
    <3>7. /\ stream'[c0] = Tail(stream[c0]) /\ reset'[c0] = FALSE
          /\ \A d \in Clients \ {c0} : SameClient(d)
      BY <1>0, <3>1, <3>6 DEF Typed, SameClient
    <3>8. Talk(Standing(s, c0)', stream'[c0], pc'[c0], reply'[c0], reset'[c0])
      BY <1>0, <3>1, <3>3, <3>6, <3>7
    <3>9. /\ LinkedTo(s)' = LinkedTo(s)
          /\ \A d \in LinkedTo(s)' \ {c0} : SameClient(d)
          /\ op[s].who \in {None, c0}
      BY <1>0, <1>2, <3>1, <3>7
    <3> QED
      BY <1>0, <3>2, <3>8, <3>9, OneTalk
  <2> QED
    BY <2>1, <2>2
<1>14. CASE WriteContent(s)
  <2>1. /\ op[s].do = "written" /\ op'[s] = Select0 /\ c0 \in slots[s]
        /\ UNCHANGED <<slots, backlog, stream, reply, reset>>
    BY <1>0, <1>14, OpMoves DEF WriteContent, network
  <2>2. post_id' = [post_id EXCEPT ![c0] = None]
    BY <1>14, <2>1, ReleaseFacts DEF WriteContent, Released
  <2>3. /\ c0 \in LinkedTo(s) /\ c0 \in Clients /\ c0 # None
        /\ op'[s].who = None /\ op[s].who \in {None, c0}
    BY <1>0, <2>1, OpTypes
  <2>4. Standing(s, c0) = "data" /\ Standing(s, c0)' = "free"
    BY <1>0, <2>1, <2>2, <2>3 DEF Standing, Word, Typed
  <2>5. Talk("free", stream[c0], pc[c0], reply[c0], reset[c0])
    BY <1>1, <2>3, <2>4, TalkDone
  <2>6. Talk(Standing(s, c0)', stream'[c0], pc'[c0], reply'[c0], reset'[c0])
    BY <1>0, <2>1, <2>4, <2>5
  <2>7. /\ LinkedTo(s)' = LinkedTo(s)
        /\ \A d \in LinkedTo(s)' \ {c0} : SameClient(d)
    BY <1>0, <1>2, <2>1, <2>2 DEF SameClient, Typed
  <2> QED
    BY <1>0, <2>3, <2>6, <2>7, OneTalk
<1> QED
  BY <1>4, <1>5, <1>7, <1>8, <1>9, <1>11, <1>12, <1>13, <1>14 DEF ServerStep

(* The words still under way go on fitting where both ends stand.          *)
LEMMA ConversationStep ==
  ASSUME IInv, [Next]_vars
  PROVE  \A t \in Servers : Conversation(t)'
<1>1. ASSUME NEW s \in Servers, ServerStep(s) \/ StartServer(s) \/ Die(s),
             NEW t \in Servers \ {s}
      PROVE  Conversation(t)'
  <2>1. pc' = pc /\ SameServer(t) /\ \A d \in LinkedTo(t) : SameClient(d)
    BY <1>1, ServerFrame
  <2>2. LinkedTo(t)' = LinkedTo(t)
    BY <2>1 DEF LinkedTo, InBacklog, SameServer
  <2>3. \A d \in LinkedTo(t) : Standing(t, d)' = Standing(t, d)
    BY <2>1 DEF Standing, SameServer, SameClient
  <2> QED
    BY <2>1, <2>2, <2>3 DEF IInv, Conversation, SameClient
<1>2. ASSUME NEW s \in Servers, StartServer(s) PROVE Conversation(s)'
  BY <1>2 DEF StartServer, IInv, Conversation, Standing, LinkedTo, InBacklog,
     network, client
<1>3. ASSUME NEW s \in Servers, Die(s) PROVE Conversation(s)'
  <2>1. slots'[s] = {} /\ backlog'[s] = <<>>
    BY <1>3 DEF Die, IInv, Typed
  <2>2. Len(backlog'[s]) = 0
    BY <2>1
  <2>3. LinkedTo(s)' = {}
    BY <2>1, <2>2 DEF LinkedTo, InBacklog
  <2> QED
    BY <2>3 DEF Conversation
<1>4. ASSUME NEW c \in Clients, ClientStep(c), NEW t \in Servers
      PROVE  Conversation(t)'
  <2>1. \A d : Standing(t, d)' = Standing(t, d)
    BY <1>4, ClientFrame DEF Standing
  <2>2. ASSUME NEW d \in LinkedTo(t)', d # c
        PROVE  Talk(Standing(t, d)', stream'[d], pc'[d], reply'[d], reset'[d])
    <3>1. d \in LinkedTo(t)
      BY <1>4, <2>2, LinkedGrow
    <3>2. d \in Clients
      BY <3>1 DEF IInv, Typed, LinkedTo, InBacklog
    <3> QED
      BY <1>4, <2>1, <2>2, <3>1, <3>2, ClientFrame DEF IInv, Conversation
  <2>3. ASSUME c \in LinkedTo(t)'
        PROVE  Talk(Standing(t, c)', stream'[c], pc'[c], reply'[c], reset'[c])
    <3>1. CASE c \in LinkedTo(t)
      BY <1>4, <2>1, <3>1, ClientTalks
    <3>2. CASE c \notin LinkedTo(t)
      <4>1. PICK s \in Servers : Start(c, s)
        BY <1>4, <2>3, <3>2, LinkedGrow
      <4> QED
        BY <2>1, <4>1, NewTalk
    <3> QED
      BY <3>1, <3>2
  <2> QED
    BY <2>2, <2>3 DEF Conversation
<1>5. CASE UNCHANGED vars
  BY <1>5 DEF vars, locks, network, client, IInv, Conversation, Standing, LinkedTo,
     InBacklog
<1> QED
  BY <1>1, <1>2, <1>3, <1>4, <1>5, ServerTalks DEF Next

-----------------------------------------------------------------------------
(* A server answers clients that are connected to it, and stay so.         *)
LEMMA ReplyMoves ==
  ASSUME IInv, NEW s \in Servers, ServerStep(s)
  PROVE  \A d \in Clients : reply'[d] # reply[d] => d \in LinkedTo(s)'
<1>0. /\ Typed
      /\ op[s].do # "select" => op[s].who \in slots[s]
  BY DEF IInv, Links, Serving
<1>1. ASSUME NEW c \in slots[s], NEW a, Write(c, a) \/ UNCHANGED <<reply, reset>>,
             UNCHANGED <<slots, backlog>>
      PROVE  \A d \in Clients : reply'[d] # reply[d] => d \in LinkedTo(s)'
  <2>1. \A d \in Clients \ {c} : reply'[d] = reply[d]
    BY <1>0, <1>1 DEF Write, Typed
  <2>2. c \in LinkedTo(s)'
    BY <1>1 DEF LinkedTo
  <2> QED
    BY <2>1, <2>2
<1>2. CASE PullAnswer(s)
  BY <1>0, <1>1, <1>2 DEF PullAnswer
<1>3. CASE PostTry(s)
  <2>1. /\ op[s].do = "post" /\ UNCHANGED <<slots, backlog>>
        /\ \/ Write(op[s].who, "grant") \/ Write(op[s].who, "refuse")
           \/ UNCHANGED <<reply, reset>>
    BY <1>3, GrantFacts DEF PostTry
  <2> QED
    BY <1>0, <1>1, <2>1
<1>4. CASE UNCHANGED reply
  BY <1>4
<1> QED
  BY <1>2, <1>3, <1>4 DEF ServerStep, Select, Serve, PullTry, PullRead, RecvContent,
     WriteFrom, WriteContent, network

(* Answers go to clients that wait for them.                               *)
LEMMA InStepStep ==
  ASSUME IInv, [Next]_vars
  PROVE  InStep'
<1>0. Typed /\ InStep /\ \A t \in Servers : Conversation(t)'
  BY ConversationStep DEF IInv
<1>1. ASSUME NEW s \in Servers, ServerStep(s) PROVE InStep'
  <2>1. ASSUME NEW d \in Clients, reply'[d] # None
        PROVE  \/ pc'[d] = "pulling" /\ reply'[d] = "posts"
               \/ pc'[d] = "asking" /\ reply'[d] \in {"grant", "refuse"}
    <3>1. CASE reply'[d] = reply[d]
      BY <1>0, <1>1, <2>1, <3>1, ServerFrame DEF InStep
    <3>2. CASE reply'[d] # reply[d]
      <4>1. d \in LinkedTo(s)'
        BY <1>1, <3>2, ReplyMoves
      <4>2. Talk(Standing(s, d)', stream'[d], pc'[d], reply'[d], reset'[d])
        BY <1>0, <4>1 DEF Conversation
      <4>3. \E w : Stands(w, pc'[d], reply'[d])
        BY <4>2 DEF Talk
      <4> QED
        BY <2>1, <4>3 DEF Stands
    <3> QED
      BY <3>1, <3>2
  <2> QED
    BY <2>1 DEF InStep
<1>2. ASSUME UNCHANGED <<pc, reply>> PROVE InStep'
  BY <1>0, <1>2 DEF InStep
<1>3. ASSUME NEW c \in Clients, ClientStep(c) PROVE InStep'
  <2>1. \A d \in Clients \ {c} : pc'[d] = pc[d] /\ reply'[d] = reply[d]
    BY <1>3, ClientFrame
  <2>2. reply'[c] = None
    <3>1. pc[c] \notin {"pulling", "asking"} => reply[c] = None
      BY <1>0 DEF InStep
    <3>2. CASE TakeReply(c) \/ Leave(c)
      BY <1>0, <3>2 DEF TakeReply, Leave, Typed
    <3>3. CASE ReadFails(c)
      BY <3>3 DEF ReadFails, network
    <3>4. CASE Pull(c) \/ Post(c) \/ GiveUp(c) \/ SendContent(c)
      BY <3>1, <3>4 DEF Pull, Post, GiveUp, SendContent, ClientSends
    <3>5. CASE SendData(c) \/ \E s \in Servers : Start(c, s)
      BY <3>1, <3>5 DEF SendData, Start
    <3> QED
      BY <1>3, <3>2, <3>3, <3>4, <3>5 DEF ClientStep
  <2> QED
    BY <1>0, <2>1, <2>2 DEF InStep
<1>4. CASE UNCHANGED vars
  BY <1>2, <1>4 DEF vars, network, client
<1> QED
  BY <1>1, <1>2, <1>3, <1>4 DEF Next, StartServer, Die, network, client

(* Two servers do not write one record.                                    *)
LEMMA OneWriter ==
  ASSUME IInv, NEW s \in Servers, NEW t \in Servers \ {s}, NEW r,
         op[s].do \in {"write", "written"}, post_id[op[s].who] = r
  PROVE  ~Writing(t, r)
<1> SUFFICES ASSUME Writing(t, r) PROVE FALSE
  OBVIOUS
<1>1. op[s].who \in slots[s] /\ op[t].who \in slots[t]
  BY DEF Writing, IInv, Links, Serving
<1>2. op[s].who # op[t].who /\ op[s].who \in Clients /\ op[t].who \in Clients
  BY <1>1 DEF IInv, Links, Apart, LinkedTo, Typed
<1>3. post_id[op[s].who] # None
  BY DEF IInv, InHand
<1> QED
  BY <1>2, <1>3 DEF IInv, NoneShared, Writing

(* Only WriteFrom begins to write a record and only WriteContent ends it.  *)
LEMMA WritingStays ==
  ASSUME IInv, [Next]_vars,
         \A s \in Servers : ~WriteFrom(s) /\ ~WriteContent(s)
  PROVE  /\ UNCHANGED file
         /\ \A t \in Servers : \A r : Writing(t, r)' => Writing(t, r) /\ op'[t].post = op[t].post
         /\ \A t \in Servers : \A r : Writing(t, r) => Writing(t, r)'
<1> USE DEF Writing
<1>0. Typed /\ \A t \in Servers : op[t].do # "select" => op[t].who \in LinkedTo(t)
  BY DEF IInv, Links, Serving, LinkedTo
<1>1. ASSUME NEW s \in Servers, ServerStep(s) \/ StartServer(s) \/ Die(s),
             op[s].do # "written", op'[s].do # "written", UNCHANGED file
      PROVE  /\ UNCHANGED file
             /\ \A t \in Servers : \A r : Writing(t, r)' => Writing(t, r) /\ op'[t].post = op[t].post
             /\ \A t \in Servers : \A r : Writing(t, r) => Writing(t, r)'
  <2>1. ASSUME NEW t \in Servers \ {s}
        PROVE  /\ op'[t] = op[t]
               /\ op[t].do # "select" => post_id'[op[t].who] = post_id[op[t].who]
    BY <1>0, <1>1, ServerFrame DEF SameServer, SameClient
  <2> QED
    BY <1>1, <2>1
<1>2. ASSUME UNCHANGED <<file, op, post_id>>
      PROVE  /\ UNCHANGED file
             /\ \A t \in Servers : \A r : Writing(t, r)' => Writing(t, r) /\ op'[t].post = op[t].post
             /\ \A t \in Servers : \A r : Writing(t, r) => Writing(t, r)'
  BY <1>2
<1>3. ASSUME NEW s \in Servers, ServerStep(s)
      PROVE  op[s].do # "written" /\ op'[s].do # "written" /\ UNCHANGED file
  <2>0. Select0.do # "written"
    BY OpTypes
  <2>1. CASE Select(s)
    BY <1>0, <2>1 DEF Select
  <2>2. CASE Serve(s)
    <3>1. PICK c \in Clients, w \in CmdWords : Served(s, c, w)
      BY <2>2, ServeFacts
    <3>2. \/ op'[s] \in {Select0, Doing("pull", c), Doing("post", c), Doing("recv", c)}
          \/ op'[s] = op[s]
      BY <1>0, <3>1, OpMoves DEF Served, Disconnect
    <3>3. /\ Doing("pull", c).do # "written" /\ Doing("post", c).do # "written"
          /\ Doing("recv", c).do # "written"
      BY OpTypes DEF Doings
    <3> QED
      BY <2>0, <2>2, <3>1, <3>2, <3>3 DEF Served
  <2>3. CASE PullTry(s)
    BY <1>0, <2>3, OpMoves DEF Continues, PullTry
  <2>4. CASE PullRead(s)
    BY <1>0, <2>4, OpMoves DEF Continues, PullRead
  <2>5. CASE PullAnswer(s)
    BY <1>0, <2>0, <2>5, OpMoves DEF PullAnswer
  <2>6. CASE PostTry(s)
    BY <1>0, <2>0, <2>6, OpMoves DEF Continues, PostTry
  <2>7. CASE RecvContent(s)
    BY <1>0, <2>0, <2>7, OpMoves DEF Continues, RecvContent
  <2> QED
    BY <1>3, <2>1, <2>2, <2>3, <2>4, <2>5, <2>6, <2>7 DEF ServerStep
<1>4. ASSUME NEW s \in Servers, Die(s)
      PROVE  op[s].do # "written" /\ op'[s].do # "written" /\ UNCHANGED file
  BY <1>0, <1>4, OpTypes DEF Die, Typed
<1>5. ASSUME NEW s \in Servers, StartServer(s) PROVE UNCHANGED <<file, op, post_id>>
  BY <1>5 DEF StartServer
<1>6. ASSUME NEW c \in Clients, ClientStep(c) PROVE UNCHANGED <<file, op, post_id>>
  BY <1>6, ClientFrame
<1>7. CASE UNCHANGED vars
  BY <1>2, <1>7 DEF vars
<1> QED
  BY <1>1, <1>2, <1>3, <1>4, <1>5, <1>6, <1>7 DEF Next

(* A record that is not being written is whole.                            *)
LEMMA HalvesStep ==
  ASSUME IInv, [Next]_vars
  PROVE  Halves'
<1>0. Typed /\ Halves /\ \A t \in Servers : op[t].do # "select" => op[t].who \in LinkedTo(t)
  BY DEF IInv, Links, Serving, LinkedTo
<1>1. CASE \A s \in Servers : ~WriteFrom(s) /\ ~WriteContent(s)
  <2>1. /\ UNCHANGED file
        /\ \A t \in Servers : \A r : Writing(t, r)' => Writing(t, r) /\ op'[t].post = op[t].post
        /\ \A t \in Servers : \A r : Writing(t, r) => Writing(t, r)'
    BY <1>1, WritingStays
  <2> QED
    BY <1>0, <2>1 DEF Halves
<1>2. ASSUME NEW s \in Servers, WriteFrom(s) \/ WriteContent(s)
      PROVE  \A t \in Servers \ {s} : \A r : /\ Writing(t, r)' <=> Writing(t, r)
                                         /\ op'[t] = op[t]
  <2>1. ASSUME NEW t \in Servers \ {s}
        PROVE  /\ op'[t] = op[t]
               /\ op[t].do # "select" => post_id'[op[t].who] = post_id[op[t].who]
    BY <1>0, <1>2, ServerFrame DEF ServerStep, SameServer, SameClient
  <2> QED
    BY <2>1 DEF Writing
<1>3. ASSUME NEW s \in Servers, WriteFrom(s) PROVE Halves'
  <2>1. PICK r : r = post_id[op[s].who]
    OBVIOUS
  <2>2. /\ op[s].do = "write" /\ op'[s].do = "written" /\ op'[s].who = op[s].who
        /\ op'[s].post = op[s].post /\ UNCHANGED post_id
        /\ file' = [file EXCEPT ![r].from = op[s].post]
    BY <1>0, <1>3, <2>1, OpMoves DEF Continues, WriteFrom
  <2>3. r \in Records
    <3>1. op[s].who \in Clients
      BY <2>2 DEF IInv, Typed, Links, Serving
    <3> QED
      BY <1>0, <2>1, <2>2, <3>1 DEF Typed, IInv, InHand
  <2>4. /\ file'[r].from = op[s].post
        /\ \A q \in Records \ {r} : file'[q] = file[q]
    BY <1>0, <2>2, <2>3 DEF Typed
  <2>5. \A q : Writing(s, q)' <=> q = r
    BY <2>1, <2>2 DEF Writing
  <2>6. \A q : ~Writing(s, q)
    BY <2>2 DEF Writing
  <2>7. \A t \in Servers \ {s} : ~Writing(t, r)
    BY <2>1, <2>2, OneWriter
  <2>8. ASSUME NEW q \in Records
        PROVE  /\ file'[q].from # file'[q].content => \E t \in Servers : Writing(t, q)'
               /\ \A t \in Servers : Writing(t, q)' => file'[q].from = op'[t].post
    <3>1. CASE q = r
      BY <1>2, <1>3, <2>2, <2>4, <2>5, <2>7, <3>1
    <3>2. CASE q # r
      BY <1>0, <1>2, <1>3, <2>4, <2>5, <2>6, <3>2 DEF Halves
    <3> QED
      BY <3>1, <3>2
  <2> QED
    BY <2>8 DEF Halves
<1>4. ASSUME NEW s \in Servers, WriteContent(s) PROVE Halves'
  <2>1. PICK r : r = post_id[op[s].who]
    OBVIOUS
  <2>2. /\ op[s].do = "written" /\ op'[s] = Select0
        /\ file' = [file EXCEPT ![r].content = op[s].post]
    BY <1>0, <1>4, <2>1, OpMoves DEF WriteContent
  <2>3. r \in Records
    <3>1. op[s].who \in Clients
      BY <2>2 DEF IInv, Typed, Links, Serving
    <3> QED
      BY <1>0, <2>1, <2>2, <3>1 DEF Typed, IInv, InHand
  <2>4. /\ file'[r].content = op[s].post /\ file'[r].from = file[r].from
        /\ \A q \in Records \ {r} : file'[q] = file[q]
    BY <1>0, <2>2, <2>3 DEF Typed
  <2>5. Writing(s, r) /\ \A q : Writing(s, q) => q = r
    BY <2>1, <2>2 DEF Writing
  <2>6. \A q : ~Writing(s, q)'
    BY <2>2, OpTypes DEF Writing
  <2>7. \A t \in Servers \ {s} : ~Writing(t, r)
    BY <2>1, <2>2, OneWriter
  <2>8. ASSUME NEW q \in Records
        PROVE  /\ file'[q].from # file'[q].content => \E t \in Servers : Writing(t, q)'
               /\ \A t \in Servers : Writing(t, q)' => file'[q].from = op'[t].post
    <3>1. CASE q = r
      <4>1. file[r].from = op[s].post
        BY <1>0, <2>3, <2>5 DEF Halves
      <4> QED
        BY <1>2, <1>4, <2>4, <2>6, <2>7, <3>1, <4>1
    <3>2. CASE q # r
      BY <1>0, <1>2, <1>4, <2>4, <2>5, <2>6, <3>2 DEF Halves
    <3> QED
      BY <3>1, <3>2
  <2> QED
    BY <2>8 DEF Halves
<1> QED
  BY <1>1, <1>3, <1>4

(* What a pull reads is whole: nobody has a write lock on the record.      *)
LEMMA ReadsWhole ==
  ASSUME IInv, NEW s \in Servers, op[s].do = "pread"
  PROVE  /\ op[s].at \in Records
         /\ file[op[s].at].from = file[op[s].at].content
         /\ file[op[s].at] \in [from : Cells, content : Cells]
<1>1. PICK i : i = op[s].at
  OBVIOUS
<1>2. /\ i \in Records \ wlock[s] /\ i \in rlock[s]
      /\ \A t \in Servers \ {s} : i \notin wlock[t]
  BY <1>1 DEF IInv, InHand, LocksAgree
<1>3. ASSUME NEW t \in Servers, Writing(t, i) PROVE FALSE
  <2>1. op[t].who \in slots[t] /\ post_id[op[t].who] = i /\ post_id[op[t].who] # None
    BY <1>3 DEF Writing, IInv, Links, Serving, InHand
  <2>2. i \in wlock[t]
    BY <2>1 DEF IInv, Reservations, LocksAgree
  <2> QED
    BY <1>2, <2>2
<1>4. file[i].from = file[i].content
  BY <1>2, <1>3 DEF IInv, Halves
<1>5. file[i] \in [from : Cells, content : Cells]
  BY <1>2 DEF IInv, Typed
<1> QED
  BY <1>1, <1>2, <1>4, <1>5

(* And so is what it has collected.                                        *)
LEMMA SeenWholeStep ==
  ASSUME IInv, [Next]_vars
  PROVE  \A t \in Servers : SeenWhole(t)'
<1>0. Typed /\ \A t \in Servers : SeenWhole(t)
  BY DEF IInv
<1>1. ASSUME UNCHANGED op PROVE \A t \in Servers : SeenWhole(t)'
  BY <1>0, <1>1 DEF SeenWhole
<1>2. ASSUME NEW s \in Servers, ServerStep(s) \/ Die(s),
             op'[s].seen = op[s].seen \/ SeenWhole(s)'
      PROVE  \A t \in Servers : SeenWhole(t)'
  <2>1. \A t \in Servers \ {s} : op'[t] = op[t]
    BY <1>2, ServerFrame DEF SameServer
  <2> QED
    BY <1>0, <1>2, <2>1 DEF SeenWhole
<1>3. ASSUME NEW s \in Servers, op'[s].seen = <<>> PROVE SeenWhole(s)'
  BY <1>3 DEF SeenWhole
<1>4. ASSUME NEW s \in Servers, PullRead(s) PROVE SeenWhole(s)'
  <2>1. PICK q, m : q = op[s].seen /\ m = file[op[s].at]
    OBVIOUS
  <2>2. /\ op[s].do = "pread"
        /\ op'[s].seen = IF m = Whole(Blank) THEN q ELSE Append(q, m)
    BY <1>0, <1>4, <2>1, OpMoves
  <2>3. m.from = m.content /\ m \in [from : Cells, content : Cells]
    BY <2>1, <2>2, ReadsWhole
  <2>4. q \in Seq([from : Cells, content : Cells])
        /\ \A k \in 1..Len(q) : q[k].from = q[k].content
    BY <1>0, <2>1 DEF Typed, Op, SeenWhole
  <2>5. /\ Len(Append(q, m)) = Len(q) + 1 /\ Append(q, m)[Len(q) + 1] = m
        /\ \A k \in 1..Len(q) : Append(q, m)[k] = q[k]
    BY <2>3, <2>4
  <2>6. \A k \in 1..(Len(q) + 1) : k \in 1..Len(q) \/ k = Len(q) + 1
    BY <2>4
  <2>7. \A k \in 1..Len(Append(q, m)) : Append(q, m)[k].from = Append(q, m)[k].content
    BY <2>3, <2>4, <2>5, <2>6
  <2> QED
    BY <2>2, <2>4, <2>7 DEF SeenWhole
<1>5. ASSUME NEW s \in Servers, ServerStep(s)
      PROVE  op'[s].seen = op[s].seen \/ SeenWhole(s)'
  <2>0. ASSUME op'[s] = Select0 PROVE SeenWhole(s)'
    BY <1>3, <2>0, OpTypes
  <2>1. CASE Select(s)
    BY <2>1 DEF Select
  <2>2. CASE Serve(s)
    <3>1. PICK c \in Clients, w \in CmdWords : Served(s, c, w)
      BY <2>2, ServeFacts
    <3>2. \/ op'[s] \in {Select0, Doing("pull", c), Doing("post", c), Doing("recv", c)}
          \/ op'[s] = op[s]
      BY <1>0, <3>1, OpMoves DEF Served, Disconnect
    <3>3. /\ Doing("pull", c).seen = <<>> /\ Doing("post", c).seen = <<>>
          /\ Doing("recv", c).seen = <<>>
      BY OpTypes DEF Doings
    <3> QED
      BY <1>3, <2>0, <3>2, <3>3
  <2>3. CASE PullTry(s) \/ WriteFrom(s)
    BY <1>0, <2>3, OpMoves
  <2>4. CASE PullRead(s)
    BY <1>4, <2>4
  <2>5. CASE PullAnswer(s) \/ WriteContent(s)
    BY <1>0, <2>0, <2>5, OpMoves
  <2>6. CASE PostTry(s) \/ RecvContent(s)
    BY <1>0, <2>0, <2>6, OpMoves
  <2> QED
    BY <1>5, <2>1, <2>2, <2>3, <2>4, <2>5, <2>6 DEF ServerStep
<1>6. ASSUME NEW s \in Servers, Die(s) PROVE SeenWhole(s)'
  BY <1>0, <1>3, <1>6, OpTypes DEF Die, Typed
<1>7. ASSUME NEW s \in Servers, StartServer(s) PROVE UNCHANGED op
  BY <1>7 DEF StartServer
<1>8. ASSUME NEW c \in Clients, ClientStep(c) PROVE UNCHANGED op
  BY <1>8, ClientFrame
<1>9. CASE UNCHANGED vars
  BY <1>1, <1>9 DEF vars
<1> QED
  BY <1>1, <1>2, <1>5, <1>6, <1>7, <1>8, <1>9 DEF Next

-----------------------------------------------------------------------------
(* The invariant is inductive.                                             *)
LEMMA NextInv == IInv /\ [Next]_vars => IInv'
<1> SUFFICES ASSUME IInv, [Next]_vars PROVE IInv'
  OBVIOUS
<1>1. \A s \in Servers : Links(s)'
  BY ServingStep, ConnectionsStep DEF Links
<1> QED
  BY <1>1, TypesStep, UnlinkedStep, LocksStep, InHandStep, ReservationsStep,
     ConversationStep, InStepStep, HalvesStep, SeenWholeStep DEF IInv

(* Every reachable state of the board satisfies the inductive invariant.   *)
THEOREM Invariance == Spec => []IInv
<1>1. Init => IInv
  BY InitInv
<1>2. IInv /\ [Next]_vars => IInv'
  BY NextInv
<1> QED
  BY <1>1, <1>2, PTL DEF Spec

-----------------------------------------------------------------------------
(* write_locked is what the kernel knows of each server's write locks, a   *)
(* read lock lasts for one pread, and no two processes conflict.           *)
THEOREM LocksMatch == Spec => []LocksAgree
<1>1. IInv => LocksAgree
  BY DEF IInv
<1> QED
  BY <1>1, Invariance, PTL

(* What is under way to a client is the answer to the question it waits    *)
(* with.                                                                   *)
THEOREM Synchrony == Spec => []InStep
<1>1. IInv => InStep
  BY DEF IInv
<1> QED
  BY <1>1, Invariance, PTL

(* A reserved record belongs to exactly one connection of the server that  *)
(* locked it, and every post_id names a locked record.                     *)
THEOREM Ownership == Spec => []ReservationsOwned
<1>1. ASSUME IInv PROVE ReservationsOwned
  <2>1. ASSUME NEW s \in Servers, NEW r \in write_locked[s]
        PROVE  Cardinality({c \in slots[s] : post_id[c] = r}) = 1
    <3>1. PICK d \in slots[s] : post_id[d] = r
      BY <1>1 DEF IInv, Reservations
    <3>2. r # None /\ slots[s] \subseteq Clients
      BY <1>1 DEF IInv, Typed
    <3>3. {c \in slots[s] : post_id[c] = r} = {d}
      BY <1>1, <3>1, <3>2 DEF IInv, NoneShared
    <3> QED
      BY <3>3, FS_Singleton
  <2>2. ASSUME NEW s \in Servers, NEW c \in Clients, post_id[c] # None,
               post_id[c] \in write_locked[s]
        PROVE  c \in slots[s]
    <3>1. PICK d \in slots[s] : post_id[d] = post_id[c]
      BY <1>1, <2>2 DEF IInv, Reservations
    <3>2. d \in Clients
      BY <1>1 DEF IInv, Typed
    <3> QED
      BY <1>1, <2>2, <3>1, <3>2 DEF IInv, NoneShared
  <2> QED
    BY <1>1, <2>1, <2>2 DEF ReservationsOwned, IInv, Reservations
<1> QED
  BY <1>1, Invariance, PTL

(* As long as a connection has a record, something is on its way that will *)
(* make the server give it back, or its client is about to decide.         *)
THEOREM NoLeak == Spec => []ReservationsEnd
<1>1. ASSUME IInv, NEW c \in Clients, post_id[c] # None
      PROVE  \/ pc[c] \in {"editing", "sending"} \/ reply[c] = "grant"
             \/ \E k \in 1..Len(stream[c]) : stream[c][k].cmd \in Ending
             \/ \E s \in Servers : /\ op[s].who = c
                                   /\ op[s].do \in {"recv", "write", "written"}
  <2>1. PICK s \in Servers : c \in slots[s]
    BY <1>1, HeldIsLocked
  <2>2. CASE op[s].who = c
    <3>1. op[s].do # "select" /\ op[s].do \notin {"pull", "pread", "post"}
      BY <1>1, <2>2 DEF IInv, Links, Serving, InHand
    <3>2. op[s].do \in Doings
      BY <1>1 DEF IInv, Typed, Op
    <3> QED
      BY <2>2, <3>1, <3>2 DEF Doings
  <2>3. CASE op[s].who # c
    <3>1. Talk("held", stream[c], pc[c], reply[c], reset[c])
      BY <1>1, <2>1, <2>3 DEF IInv, Conversation, LinkedTo, Standing
    <3>2. CASE stream[c] = <<>>
      <4>1. Stands("held", pc[c], reply[c])
        BY <3>1, <3>2 DEF Talk, LastOf
      <4> QED
        BY <4>1 DEF Stands
    <3>3. CASE stream[c] # <<>>
      <4>1. 1 \in 1..Len(stream[c])
        BY <1>1, <3>3 DEF IInv, Typed
      <4>2. stream[c][1].cmd \in Ending
        BY <3>1, <3>3 DEF Talk, Follow, Ending
      <4> QED
        BY <4>1, <4>2
    <3> QED
      BY <3>2, <3>3
  <2> QED
    BY <2>2, <2>3
<1>2. IInv => ReservationsEnd
  BY <1>1 DEF ReservationsEnd
<1> QED
  BY <1>2, Invariance, PTL

(* Who edits or sends has been granted a record, which the server has not  *)
(* heard of again.                                                         *)
LEMMA TalkGranted ==
  ASSUME NEW w, NEW q \in Seq(Messages), NEW p \in {"editing", "sending"},
         NEW a, NEW b, Talk(w, q, p, a, b)
  PROVE  w \in {"held", "content"}
<1>1. LastOf(w, q) \in {"held", "content"}
  BY DEF Talk, Stands
<1>2. CASE q = <<>>
  BY <1>1, <1>2 DEF LastOf
<1>3. CASE q # <<>>
  <2> DEFINE n == Len(q)
  <2>1. n \in Nat /\ n # 0 /\ \A k \in 1..n : q[k].cmd \in CmdWords
    BY <1>3, Words
  <2>2. q[n].cmd = "content"
    BY <1>1, <1>3, <2>1 DEF LastOf, CmdWords
  <2>3. \A v : "content" \in Follow(v) => v = "held"
    BY DEF Follow
  <2>4. n = 1
    <3> SUFFICES ASSUME n # 1 PROVE FALSE
      OBVIOUS
    <3>1. PICK k \in 1..(n - 1) : k + 1 = n
      <4>1. n - 1 \in 1..(n - 1) /\ (n - 1) + 1 = n
        BY <2>1
      <4> QED
        BY <4>1
    <3>2. q[k + 1].cmd \in Follow(q[k].cmd) /\ k \in 1..n
      BY <2>1, <3>1 DEF Talk
    <3> QED
      BY <2>1, <2>2, <2>3, <3>1, <3>2 DEF CmdWords
  <2> QED
    BY <1>3, <2>2, <2>3, <2>4 DEF Talk
<1> QED
  BY <1>2, <1>3

(* A client that was told it may post has its record until the server has  *)
(* its post.                                                               *)
THEOREM GrantsHold == Spec => []GrantHolds
<1>1. ASSUME IInv, NEW s \in Servers, NEW c \in Clients, c \in LinkedTo(s),
             pc[c] \in {"editing", "sending"}
      PROVE  post_id[c] \in write_locked[s]
  <2>1. Talk(Standing(s, c), stream[c], pc[c], reply[c], reset[c])
        /\ stream[c] \in Seq(Messages)
    BY <1>1 DEF IInv, Conversation, Typed
  <2>2. Standing(s, c) \in {"held", "content"}
    BY <1>1, <2>1, TalkGranted
  <2>3. CASE op[s].who = c
    <3>1. op[s].do = "recv"
      BY <2>2, <2>3 DEF Standing, Word
    <3> QED
      BY <1>1, <2>3, <3>1 DEF IInv, InHand, Reservations, LinkedTo
  <2>4. CASE op[s].who # c
    <3>1. post_id[c] # None
      BY <2>2, <2>4 DEF Standing
    <3> QED
      BY <1>1, <3>1 DEF IInv, Reservations, LinkedTo
  <2> QED
    BY <2>3, <2>4
<1>2. ASSUME IInv, NEW s \in Servers, op[s].do \in {"recv", "write", "written"}
      PROVE  post_id[op[s].who] \in write_locked[s]
  <2>1. op[s].who \in slots[s] /\ post_id[op[s].who] # None
    BY <1>2 DEF IInv, Links, Serving, InHand
  <2> QED
    BY <1>2, <2>1 DEF IInv, Reservations
<1>3. IInv => GrantHolds
  BY <1>1, <1>2 DEF GrantHolds
<1> QED
  BY <1>3, Invariance, PTL

(* Nobody sees half of a post.                                             *)
THEOREM PostsWhole == Spec => []WholePosts
<1>1. ASSUME IInv, NEW r \in Records, \A s \in Servers : r \notin wlock[s]
      PROVE  file[r].from = file[r].content
  <2>1. ASSUME NEW t \in Servers, Writing(t, r) PROVE FALSE
    <3>1. op[t].who \in slots[t] /\ post_id[op[t].who] = r /\ r # None
      BY <1>1, <2>1 DEF Writing, IInv, Links, Serving, InHand
    <3>2. r \in wlock[t]
      BY <1>1, <3>1 DEF IInv, Reservations, LocksAgree
    <3> QED
      BY <1>1, <3>2
  <2> QED
    BY <1>1, <2>1 DEF IInv, Halves
<1>2. IInv => WholePosts
  BY <1>1 DEF WholePosts, IInv, SeenWhole
<1> QED
  BY <1>2, Invariance, PTL

(* The server never writes a second time to a client that is gone.         *)
THEOREM PipesHold == Spec => []NoBrokenPipe
<1>1. ASSUME IInv, NEW s \in Servers, op[s].do \in {"pull", "pread", "post"}
      PROVE  ~reset[op[s].who]
  <2>1. op[s].who \in LinkedTo(s)
    BY <1>1 DEF IInv, Links, Serving, LinkedTo
  <2>2. Standing(s, op[s].who) \in {"pull", "post"}
    BY <1>1 DEF Standing, Word
  <2> QED
    BY <1>1, <2>1, <2>2 DEF IInv, Conversation, Talk
<1>2. IInv => NoBrokenPipe
  BY <1>1 DEF NoBrokenPipe
<1> QED
  BY <1>2, Invariance, PTL

(* The state has its type, no server keeps too many connections, and at    *)
(* most four messages are under way from a client.                         *)
THEOREM Typing == Spec => []TypeOK
<1>1. ASSUME IInv PROVE TypeOK
  <2>1. ASSUME NEW c \in Clients PROVE Len(stream[c]) <= 4
    <3>1. CASE Linked(c)
      <4>1. PICK s \in Servers : c \in LinkedTo(s)
        BY <3>1 DEF Linked
      <4>2. Talk(Standing(s, c), stream[c], pc[c], reply[c], reset[c])
            /\ stream[c] \in Seq(Messages)
        BY <1>1, <4>1 DEF IInv, Conversation, Typed
      <4> QED
        BY <4>2, TalkShort
    <3>2. CASE ~Linked(c)
      <4>1. stream[c] = <<>>
        BY <1>1, <3>2 DEF IInv, Unlinked
      <4>2. Len(stream[c]) = 0
        BY <4>1
      <4> QED
        BY <4>2
    <3> QED
      BY <3>1, <3>2
  <2>2. ASSUME NEW s \in Servers
        PROVE  /\ op[s] \in Op
               /\ ready[s] \subseteq slots[s]
               /\ op[s].do # "select" => op[s].who \in slots[s]
               /\ Cardinality(slots[s]) <= MAX_CLIENTS
               /\ \A t \in Servers \ {s} : LinkedTo(s) \cap LinkedTo(t) = {}
    BY <1>1 DEF IInv, Typed, Links, Serving, Room, Apart
  <2> QED
    BY <1>1, <2>1, <2>2 DEF TypeOK, IInv, Typed, Op
<1> QED
  BY <1>1, Invariance, PTL

-----------------------------------------------------------------------------
(* Board, seen from the servers: who holds which record, what the board    *)
(* shows, and how far each server has collected it.                        *)
Owners == [r \in Records |-> Holder(r)]
Posted == [r \in Records |-> file[r].from]
Turns  == [s \in Servers |-> IF Collecting(s) THEN op[s].at ELSE 0]
Pages  == [s \in Servers |-> [k \in 1..Len(op[s].seen) |-> op[s].seen[k].content]]

HolderIn(f, r) == IF \E c \in Clients : f[c] = r
                  THEN CHOOSE c \in Clients : f[c] = r ELSE None
TurnOf(o) == IF o.do \in {"pull", "pread"} THEN o.at ELSE 0
PageOf(o) == [k \in 1..Len(o.seen) |-> o.seen[k].content]

(* The holder of a record is the client with that post_id.                 *)
LEMMA HolderIs ==
  ASSUME NEW f, NEW r \in Records,
         \A c, d \in Clients : f[c] = f[d] /\ f[c] # None => c = d
  PROVE  /\ \A c \in Clients : HolderIn(f, r) = c <=> f[c] = r
         /\ HolderIn(f, r) = None <=> \A c \in Clients : f[c] # r
         /\ HolderIn(f, r) \in Clients \cup {None}
<1>0. r # None /\ None \notin Clients
  OBVIOUS
<1>1. CASE \E c \in Clients : f[c] = r
  <2>1. HolderIn(f, r) \in Clients /\ f[HolderIn(f, r)] = r
    BY <1>1 DEF HolderIn
  <2> QED
    BY <1>0, <2>1
<1>2. CASE \A c \in Clients : f[c] # r
  BY <1>0, <1>2 DEF HolderIn
<1> QED
  BY <1>1, <1>2

(* The holders before and after a step.                                    *)
LEMMA OwnersAre ==
  /\ Owners = [r \in Records |-> HolderIn(post_id, r)]
  /\ Owners' = [r \in Records |-> HolderIn(post_id', r)]
BY DEF Owners, Holder, HolderIn

(* A record that is taken gets its owner.                                  *)
LEMMA OwnersTake ==
  ASSUME IInv, IInv', NEW s \in Servers, NEW c, NEW r, Takes(s, c, r)
  PROVE  /\ c \in Clients /\ r \in Records
         /\ Owners[r] = None /\ \A q \in Records : Owners[q] # c
         /\ Owners' = [Owners EXCEPT ![r] = c]
<1>0. /\ c \in Clients /\ r \in Records /\ r # None
      /\ post_id[c] = None /\ \A d \in Clients : post_id[d] # r
      /\ post_id'[c] = r /\ \A d \in Clients \ {c} : post_id'[d] = post_id[d]
  BY DEF Takes, IInv, Typed
<1>1. NoneShared /\ NoneShared'
  BY DEF IInv
<1>2. Owners[r] = None
  BY <1>0, <1>1, HolderIs, OwnersAre DEF NoneShared
<1>3. \A q \in Records : Owners[q] # c
  <2> SUFFICES ASSUME NEW q \in Records, Owners[q] = c PROVE FALSE
    OBVIOUS
  <2>1. post_id[c] = q
    BY <1>0, <1>1, HolderIs, OwnersAre DEF NoneShared
  <2> QED
    BY <1>0, <2>1
<1>4. HolderIn(post_id', r) = c
  BY <1>0, <1>1, HolderIs DEF NoneShared
<1>5. ASSUME NEW q \in Records, q # r
      PROVE  HolderIn(post_id', q) = HolderIn(post_id, q)
  <2>1. \A d \in Clients : post_id'[d] = q <=> post_id[d] = q
    BY <1>0, <1>5
  <2> QED
    BY <2>1 DEF HolderIn
<1> QED
  BY <1>0, <1>2, <1>3, <1>4, <1>5, OwnersAre

(* A record that is given back loses it.                                   *)
LEMMA OwnersGive ==
  ASSUME IInv, IInv', NEW s \in Servers, NEW c \in slots[s], Released(s, c)
  PROVE  \/ Owners' = Owners
         \/ \E r \in Records : Owners[r] # None /\ Owners' = [Owners EXCEPT ![r] = None]
<1>0. /\ c \in Clients /\ post_id'[c] = None
      /\ \A d \in Clients \ {c} : post_id'[d] = post_id[d]
      /\ post_id[c] \in Records \cup {None}
  BY DEF Released, IInv, Typed
<1>1. NoneShared /\ NoneShared'
  BY DEF IInv
<1>2. ASSUME NEW q \in Records, post_id[c] # q
      PROVE  HolderIn(post_id', q) = HolderIn(post_id, q)
  <2>1. \A d \in Clients : post_id'[d] = q <=> post_id[d] = q
    BY <1>0, <1>2
  <2> QED
    BY <2>1 DEF HolderIn
<1>3. CASE post_id[c] = None
  BY <1>2, <1>3, OwnersAre
<1>4. CASE post_id[c] # None
  <2>1. PICK r \in Records : r = post_id[c]
    BY <1>0, <1>4
  <2>2. Owners[r] = c /\ c # None
    BY <1>0, <1>1, <2>1, HolderIs, OwnersAre DEF NoneShared
  <2>3. \A d \in Clients : post_id'[d] # r
    BY <1>0, <1>1, <1>4, <2>1 DEF NoneShared
  <2>4. HolderIn(post_id', r) = None
    BY <1>1, <2>3, HolderIs DEF NoneShared
  <2>5. Owners' = [Owners EXCEPT ![r] = None]
    BY <1>2, <2>1, <2>4, OwnersAre
  <2> QED
    BY <2>2, <2>5
<1> QED
  BY <1>3, <1>4

(* And so do all those of a server that dies.                              *)
LEMMA OwnersDie ==
  ASSUME IInv, IInv', NEW s \in Servers, Die(s)
  PROVE  Owners' = [r \in Records |-> IF r \in write_locked[s] THEN None ELSE Owners[r]]
<1>0. /\ slots[s] \subseteq Clients
      /\ \A d \in slots[s] : post_id'[d] = None
      /\ \A d \in Clients \ slots[s] : post_id'[d] = post_id[d]
  BY DEF Die, IInv, Typed
<1>1. NoneShared /\ NoneShared' /\ Reservations(s)
  BY DEF IInv
<1>2. ASSUME NEW r \in Records, r \in write_locked[s]
      PROVE  HolderIn(post_id', r) = None
  <2>1. PICK c \in slots[s] : post_id[c] = r
    BY <1>1, <1>2 DEF Reservations
  <2>2. \A d \in Clients : post_id'[d] # r
    BY <1>0, <1>1, <1>2, <2>1 DEF NoneShared
  <2> QED
    BY <1>1, <2>2, HolderIs DEF NoneShared
<1>3. ASSUME NEW r \in Records, r \notin write_locked[s]
      PROVE  HolderIn(post_id', r) = HolderIn(post_id, r)
  <2>1. \A d \in Clients : post_id'[d] = r <=> post_id[d] = r
    BY <1>0, <1>1, <1>3 DEF Reservations
  <2> QED
    BY <2>1 DEF HolderIn
<1> QED
  BY <1>2, <1>3, OwnersAre

(* A server that collects nothing, or has just begun.                      *)
LEMMA Idle ==
  ASSUME NEW o, o.seen = <<>>, o.do \notin {"pull", "pread"} \/ o.at = 0
  PROVE  TurnOf(o) = 0 /\ PageOf(o) = <<>>
<1>1. Len(o.seen) = 0
  OBVIOUS
<1> QED
  BY <1>1 DEF TurnOf, PageOf

(* One server takes a step.                                                *)
LEMMA TurnsMove ==
  ASSUME NEW s \in Servers, \A t \in Servers \ {s} : op'[t] = op[t]
  PROVE  /\ Turns[s] = TurnOf(op[s]) /\ Pages[s] = PageOf(op[s])
         /\ Turns' = [Turns EXCEPT ![s] = TurnOf(op'[s])]
         /\ Pages' = [Pages EXCEPT ![s] = PageOf(op'[s])]
<1>1. /\ Turns = [t \in Servers |-> TurnOf(op[t])]
      /\ Turns' = [t \in Servers |-> TurnOf(op'[t])]
  BY DEF Turns, TurnOf, Collecting
<1>2. /\ Pages = [t \in Servers |-> PageOf(op[t])]
      /\ Pages' = [t \in Servers |-> PageOf(op'[t])]
  BY DEF Pages, PageOf
<1> QED
  BY <1>1, <1>2

(* A page gets one more post.                                              *)
LEMMA PageGrows ==
  ASSUME NEW o \in Op, NEW m \in [from : Cells, content : Cells],
         NEW p, p.seen = Append(o.seen, m)
  PROVE  PageOf(p) = Append(PageOf(o), m.content)
<1>1. PICK q \in Seq([from : Cells, content : Cells]) : q = o.seen
  BY DEF Op
<1>2. Len(Append(q, m)) = Len(q) + 1 /\ Len(q) \in Nat
  OBVIOUS
<1>3. /\ Append(q, m)[Len(q) + 1] = m
      /\ \A k \in 1..Len(q) : Append(q, m)[k] = q[k]
  OBVIOUS
<1>4. \A k \in 1..Len(q) : q[k] \in [from : Cells, content : Cells]
  BY ElementOfSeq
<1>5. \A k \in 1..Len(q) : q[k].content \in Cells
  BY <1>4
<1> DEFINE a == [k \in 1..Len(q) |-> q[k].content]
           b == [k \in 1..(Len(q) + 1) |-> Append(q, m)[k].content]
<1>6. a \in Seq(Cells) /\ Len(a) = Len(q)
  BY <1>2, <1>5
<1>7. \A k \in 1..(Len(q) + 1) : k \in 1..Len(q) \/ k = Len(q) + 1
  BY <1>2
<1>8. \A k \in 1..(Len(q) + 1) : Append(q, m)[k].content \in Cells
  BY <1>3, <1>5, <1>7
<1>9. b \in Seq(Cells) /\ Len(b) = Len(q) + 1
  BY <1>2, <1>8
<1>10. /\ Append(a, m.content) \in Seq(Cells)
       /\ Len(Append(a, m.content)) = Len(q) + 1
       /\ Append(a, m.content)[Len(q) + 1] = m.content
       /\ \A k \in 1..Len(q) : Append(a, m.content)[k] = a[k]
  <2>1. m.content \in Cells
    OBVIOUS
  <2> HIDE DEF a
  <2> QED
    BY <1>2, <1>6, <2>1
<1>11. \A k \in 1..(Len(q) + 1) : b[k] = Append(a, m.content)[k]
  <2>1. b[Len(q) + 1] = m.content
    BY <1>2, <1>3
  <2>2. \A k \in 1..Len(q) : b[k] = a[k]
    BY <1>2, <1>3
  <2> HIDE DEF a, b
  <2> QED
    BY <1>7, <1>10, <2>1, <2>2
<1>12. b = Append(a, m.content)
  <2> HIDE DEF a, b
  <2> QED
    BY <1>9, <1>10, <1>11, SeqEqual
<1>13. PageOf(p) = b /\ PageOf(o) = a
  BY <1>1, <1>2 DEF PageOf
<1> QED
  BY <1>12, <1>13

(* Every step of servers and clients is a step of Board, or none.          *)
LEMMA StepRefines == IInv /\ IInv' /\ [Next]_vars => [B!Next]_(B!vars)
<1> SUFFICES ASSUME IInv, IInv', [Next]_vars PROVE B!Next \/ UNCHANGED B!vars
  OBVIOUS
<1> DEFINE Refines == B!Next \/ UNCHANGED B!vars
<1>0. /\ Typed /\ Typed'
      /\ \A s \in Servers : /\ InHand(s) /\ InHand(s)' /\ Serving(s) /\ op[s] \in Op
                            /\ slots[s] \subseteq Clients
  BY DEF IInv, Links, Typed
<1>1. ASSUME UNCHANGED <<Owners, Posted, Turns, Pages>> PROVE Refines
  BY <1>1 DEF B!vars, Owners, Posted, Turns, Pages
<1>2. UNCHANGED post_id => UNCHANGED Owners
  BY OwnersAre
<1>3. UNCHANGED file => UNCHANGED Posted
  BY DEF Posted
<1>4. UNCHANGED op => UNCHANGED <<Turns, Pages>>
  BY DEF Turns, Pages, Collecting
<1>5. ASSUME NEW s \in Servers, ServerStep(s) \/ Die(s)
      PROVE  /\ Turns[s] = TurnOf(op[s]) /\ Pages[s] = PageOf(op[s])
             /\ Turns' = [Turns EXCEPT ![s] = TurnOf(op'[s])]
             /\ Pages' = [Pages EXCEPT ![s] = PageOf(op'[s])]
  <2>1. \A t \in Servers \ {s} : op'[t] = op[t]
    BY <1>5, ServerFrame DEF SameServer
  <2> QED
    BY <2>1, TurnsMove
<1>6. ASSUME NEW s \in Servers, op[s].do \notin {"pull", "pread"}
      PROVE  TurnOf(op[s]) = 0 /\ PageOf(op[s]) = <<>>
  BY <1>0, <1>6, Idle DEF InHand
<1>7. ASSUME NEW s \in Servers, op'[s].do \notin {"pull", "pread"}
      PROVE  TurnOf(op'[s]) = 0 /\ PageOf(op'[s]) = <<>>
  BY <1>0, <1>7, Idle DEF InHand
<1>8. ASSUME NEW s \in Servers, ServerStep(s),
             TurnOf(op'[s]) = TurnOf(op[s]), PageOf(op'[s]) = PageOf(op[s])
      PROVE  UNCHANGED <<Turns, Pages>>
  <2>1. Turns = [Turns EXCEPT ![s] = Turns[s]] /\ Pages = [Pages EXCEPT ![s] = Pages[s]]
    BY DEF Turns, Pages
  <2> QED
    BY <1>5, <1>8, <2>1
<1>9. ASSUME NEW s \in Servers, ServerStep(s),
             op[s].do \notin {"pull", "pread"}, op'[s].do \notin {"pull", "pread"}
      PROVE  UNCHANGED <<Turns, Pages>>
  BY <1>6, <1>7, <1>8, <1>9
<1>10. ASSUME UNCHANGED <<Posted, Turns, Pages>>,
              \/ Owners' = Owners
              \/ \E r \in Records : Owners[r] # None /\ Owners' = [Owners EXCEPT ![r] = None]
       PROVE  Refines
  <2>1. CASE Owners' = Owners
    BY <1>1, <1>10, <2>1
  <2>2. ASSUME NEW r \in Records, Owners[r] # None, Owners' = [Owners EXCEPT ![r] = None]
        PROVE  Refines
    <3>1. B!Release(r)
      BY <1>10, <2>2 DEF B!Release, Owners, Posted, Turns, Pages
    <3>2. r \in B!Records
      BY <2>2 DEF B!Records, Records
    <3> QED
      BY <3>1, <3>2 DEF B!Next
  <2> QED
    BY <1>10, <2>1, <2>2
<1>11. ASSUME NEW s \in Servers, NEW c \in slots[s], op[s].do # "pread",
              ReleaseWriteLock(s, c), UNCHANGED <<Posted, Turns, Pages>>
       PROVE  Refines
  <2>1. Released(s, c)
    BY <1>11, ReleaseFacts
  <2>2. \/ Owners' = Owners
        \/ \E r \in Records : Owners[r] # None /\ Owners' = [Owners EXCEPT ![r] = None]
    BY <1>11, <2>1, OwnersGive
  <2> QED
    BY <1>10, <1>11, <2>2
<1>12. ASSUME NEW s \in Servers, Select(s) PROVE Refines
  BY <1>1, <1>2, <1>3, <1>4, <1>12 DEF Select
<1>13. ASSUME NEW s \in Servers, Serve(s) PROVE Refines
  <2>1. PICK c \in Clients, w \in CmdWords : Served(s, c, w)
    BY <1>13, ServeFacts
  <2>2. ServerStep(s) /\ op[s].do = "select" /\ c \in slots[s] /\ UNCHANGED Posted
    BY <1>3, <1>13, <2>1 DEF ServerStep, Served
  <2>3. CASE Disconnect(s, c)
    <3>1. op'[s].do = "select"
      BY <1>0, <2>3, OpMoves, OpTypes DEF Disconnect
    <3>2. UNCHANGED <<Turns, Pages>>
      BY <1>9, <2>2, <3>1
    <3> QED
      BY <1>11, <2>2, <2>3, <3>2 DEF Disconnect
  <2>4. CASE /\ \/ w = "pull" /\ Become(s, Doing("pull", c))
                \/ w = "post" /\ Become(s, Doing("post", c))
                \/ w = "content" /\ Become(s, Doing("recv", c))
             /\ UNCHANGED post_id
    <3>1. op'[s] \in {Doing("pull", c), Doing("post", c), Doing("recv", c)}
      BY <1>0, <2>4, OpMoves
    <3>2. op'[s].seen = <<>> /\ op'[s].at = 0
      BY <3>1, OpTypes DEF Doings
    <3>3. UNCHANGED <<Turns, Pages>>
      BY <1>6, <1>8, <2>2, <3>2, Idle
    <3> QED
      BY <1>1, <1>2, <2>2, <2>4, <3>3
  <2>5. CASE ReleaseWriteLock(s, c) /\ UNCHANGED op
    BY <1>4, <1>11, <2>2, <2>5
  <2> QED
    BY <2>1, <2>3, <2>4, <2>5 DEF Served
<1>14. ASSUME NEW s \in Servers, PullTry(s) PROVE Refines
  <2>1. PICK i : i = op[s].at
    OBVIOUS
  <2>2. /\ op[s].do = "pull" /\ i \in Records /\ UNCHANGED <<post_id, file>>
        /\ op'[s].seen = op[s].seen /\ ServerStep(s)
    <3>1. i \in 0..RECORD_NUM /\ i < RECORD_NUM
      BY <1>0, <1>14, <2>1 DEF PullTry, Op
    <3> QED
      BY <1>0, <1>14, <3>1, OpMoves DEF PullTry, Records, ServerStep
  <2>3. PageOf(op'[s]) = PageOf(op[s])
    BY <2>2 DEF PageOf
  <2>4. CASE MayRead(s, i)
    <3>1. op'[s].do = "pread" /\ op'[s].at = i
      BY <1>0, <1>14, <2>1, <2>4, OpMoves DEF Continues
    <3>2. TurnOf(op'[s]) = TurnOf(op[s])
      BY <2>1, <2>2, <3>1 DEF TurnOf
    <3> QED
      BY <1>1, <1>2, <1>3, <1>8, <2>2, <2>3, <3>2
  <2>5. CASE ~MayRead(s, i)
    <3>1. op'[s].do = "pull" /\ op'[s].at = i + 1
      BY <1>0, <1>14, <2>1, <2>5, OpMoves DEF Continues
    <3>2. TurnOf(op[s]) = i /\ TurnOf(op'[s]) = i + 1
      BY <2>1, <2>2, <3>1 DEF TurnOf
    <3>3. Pages' = Pages
      <4>1. Pages = [Pages EXCEPT ![s] = Pages[s]]
        BY DEF Pages
      <4> QED
        BY <1>5, <2>2, <2>3, <4>1
    <3>4. Turns[s] = i /\ Turns' = [Turns EXCEPT ![s] = Turns[s] + 1]
      BY <1>5, <2>2, <3>2
    <3>5. Owners[i] # None
      <4>1. PICK t \in Servers : i \in write_locked[t]
        BY <2>5 DEF MayRead, ReadLockFree, IInv, LocksAgree
      <4>2. PICK c \in slots[t] : post_id[c] = i
        BY <4>1 DEF IInv, Reservations
      <4>3. c \in Clients
        BY <1>0
      <4> QED
        BY <2>2, <4>2, <4>3, OwnersAre, HolderIs DEF IInv, NoneShared
    <3>6. Turns[s] < RECORD_NUM /\ Owners[Turns[s]] # None
      BY <2>2, <3>4, <3>5 DEF Records
    <3>7. UNCHANGED <<Owners, Posted>>
      BY <1>2, <1>3, <2>2
    <3>8. B!Skip(s)
      BY <3>3, <3>4, <3>6, <3>7 DEF B!Skip, Owners, Posted, Turns, Pages
    <3> QED
      BY <3>8 DEF B!Next
  <2> QED
    BY <2>4, <2>5
<1>15. ASSUME NEW s \in Servers, PullRead(s) PROVE Refines
  <2>1. PICK i, m : i = op[s].at /\ m = file[op[s].at]
    OBVIOUS
  <2>2. /\ op[s].do = "pread" /\ op'[s].do = "pull" /\ op'[s].at = i + 1
        /\ op'[s].seen = IF m = Whole(Blank) THEN op[s].seen ELSE Append(op[s].seen, m)
        /\ UNCHANGED <<post_id, file>> /\ ServerStep(s)
    BY <1>0, <1>15, <2>1, OpMoves DEF Continues, PullRead, ServerStep
  <2>3. i \in Records /\ m.from = m.content /\ m \in [from : Cells, content : Cells]
    BY <2>1, <2>2, ReadsWhole
  <2>4. TurnOf(op[s]) = i /\ TurnOf(op'[s]) = i + 1
    BY <2>1, <2>2 DEF TurnOf
  <2>5. Turns[s] = i /\ Turns' = [Turns EXCEPT ![s] = Turns[s] + 1]
    BY <1>5, <2>2, <2>4
  <2>6. Posted[i] = m.content /\ (m = Whole(Blank) <=> Posted[i] = Blank)
    <3>1. Posted[i] = m.from
      BY <2>1, <2>3 DEF Posted
    <3>2. m = Whole(m.content)
      BY <2>3 DEF Whole
    <3>3. Whole(Blank).from = Blank
      BY DEF Whole
    <3> QED
      BY <2>3, <3>1, <3>2, <3>3
  <2>7. PageOf(op'[s]) = IF Posted[i] = Blank THEN PageOf(op[s])
                         ELSE Append(PageOf(op[s]), Posted[i])
    <3>1. CASE Posted[i] = Blank
      BY <2>2, <2>6, <3>1 DEF PageOf
    <3>2. CASE Posted[i] # Blank
      <4>1. op'[s].seen = Append(op[s].seen, m)
        BY <2>2, <2>6, <3>2
      <4> QED
        BY <1>0, <2>3, <2>6, <3>2, <4>1, PageGrows, SMTT(30)
    <3> QED
      BY <3>1, <3>2
  <2>8. Pages' = [Pages EXCEPT ![s] = IF Posted[Turns[s]] = Blank THEN Pages[s]
                                      ELSE Append(Pages[s], Posted[Turns[s]])]
    BY <1>5, <2>2, <2>5, <2>7
  <2>9. Owners[i] = None
    <3>1. \A c \in Clients : post_id[c] # i
      <4>1. i \notin wlock[s] /\ ReadLockFree(s, i)
        BY <2>1, <2>2 DEF IInv, InHand, LocksAgree, ReadLockFree
      <4> QED
        BY <2>3, <4>1, TakenByNone
    <3> QED
      BY <2>3, <3>1, OwnersAre, HolderIs DEF IInv, NoneShared
  <2>10. Turns[s] < RECORD_NUM /\ Owners[Turns[s]] = None
    BY <2>3, <2>5, <2>9 DEF Records
  <2>11. UNCHANGED <<Owners, Posted>>
    BY <1>2, <1>3, <2>2
  <2>12. B!Collect(s)
    BY <2>5, <2>8, <2>10, <2>11 DEF B!Collect, Owners, Posted, Turns, Pages
  <2> QED
    BY <2>12 DEF B!Next
<1>16. ASSUME NEW s \in Servers, PullAnswer(s) PROVE Refines
  <2>1. /\ op[s].do = "pull" /\ op[s].at = RECORD_NUM /\ op'[s] = Select0
        /\ UNCHANGED <<post_id, file>> /\ ServerStep(s)
    BY <1>0, <1>16, OpMoves DEF PullAnswer, ServerStep
  <2>2. TurnOf(op'[s]) = 0 /\ PageOf(op'[s]) = <<>> /\ TurnOf(op[s]) = RECORD_NUM
    BY <2>1, Idle, OpTypes DEF TurnOf
  <2>3. /\ Turns[s] = RECORD_NUM
        /\ Turns' = [Turns EXCEPT ![s] = 0] /\ Pages' = [Pages EXCEPT ![s] = <<>>]
    BY <1>5, <2>1, <2>2
  <2>4. UNCHANGED <<Owners, Posted>>
    BY <1>2, <1>3, <2>1
  <2>5. B!Answer(s)
    BY <2>3, <2>4 DEF B!Answer, Owners, Posted, Turns, Pages
  <2> QED
    BY <2>5 DEF B!Next
<1>17. ASSUME NEW s \in Servers, PostTry(s) PROVE Refines
  <2>1. PICK c, r : c = op[s].who /\ r = Candidate(s)
    OBVIOUS
  <2>2. op[s].do = "post" /\ ServerStep(s) /\ UNCHANGED file
    BY <1>17 DEF PostTry, ServerStep
  <2>3. op'[s].do \notin {"pull", "pread"}
    BY <1>0, <1>17, OpMoves, OpTypes DEF Continues
  <2>4. UNCHANGED <<Posted, Turns, Pages>>
    BY <1>3, <1>9, <2>2, <2>3
  <2>5. CASE Takes(s, c, r)
    <3>1. /\ c \in Clients /\ r \in Records
          /\ Owners[r] = None /\ \A q \in Records : Owners[q] # c
          /\ Owners' = [Owners EXCEPT ![r] = c]
      BY <2>5, OwnersTake
    <3>2. \A q \in B!Records : Owners[q] # c
      BY <3>1 DEF B!Records, Records
    <3>3. B!Reserve(c, r)
      BY <2>4, <3>1, <3>2 DEF B!Reserve, Owners, Posted, Turns, Pages
    <3>4. r \in B!Records
      BY <3>1 DEF B!Records, Records
    <3> QED
      BY <3>1, <3>3, <3>4 DEF B!Next
  <2>6. CASE UNCHANGED post_id
    BY <1>1, <1>2, <2>4, <2>6
  <2> QED
    BY <1>17, <2>1, <2>5, <2>6, GrantFacts
<1>18. ASSUME NEW s \in Servers, RecvContent(s) PROVE Refines
  <2>1. /\ op[s].do = "recv" /\ ServerStep(s) /\ UNCHANGED file
        /\ op[s].who \in slots[s]
    BY <1>0, <1>18 DEF RecvContent, ServerStep, Serving
  <2>2. op'[s].do \notin {"pull", "pread"}
    BY <1>0, <1>18, OpMoves, OpTypes DEF Continues
  <2>3. UNCHANGED <<Posted, Turns, Pages>>
    BY <1>3, <1>9, <2>1, <2>2
  <2>4. CASE Disconnect(s, op[s].who)
    BY <1>11, <2>1, <2>3, <2>4 DEF Disconnect
  <2>5. CASE UNCHANGED post_id
    BY <1>1, <1>2, <2>3, <2>5
  <2> QED
    BY <1>18, <2>4, <2>5 DEF RecvContent
<1>19. ASSUME NEW s \in Servers, WriteFrom(s) PROVE Refines
  <2>1. PICK r, p : r = post_id[op[s].who] /\ p = op[s].post
    OBVIOUS
  <2>2. /\ op[s].do = "write" /\ op'[s].do = "written" /\ ServerStep(s)
        /\ UNCHANGED post_id /\ file' = [file EXCEPT ![r].from = p]
    BY <1>0, <1>19, <2>1, OpMoves DEF Continues, WriteFrom, ServerStep
  <2>3. UNCHANGED <<Owners, Turns, Pages>>
    BY <1>2, <1>9, <2>2
  <2>4. op[s].who \in Clients /\ r \in Records /\ p \in Posts
    <3>1. op[s].who \in slots[s]
      BY <1>0, <2>2 DEF Serving
    <3> QED
      BY <1>0, <2>1, <2>2, <3>1 DEF InHand, Typed
  <2>5. Owners[r] # None
    BY <2>1, <2>4, OwnersAre, HolderIs DEF IInv, NoneShared
  <2>6. Posted' = [Posted EXCEPT ![r] = p]
    <3>1. /\ file'[r].from = p
          /\ \A q \in Records \ {r} : file'[q] = file[q]
      BY <1>0, <2>2, <2>4 DEF Typed
    <3> QED
      BY <2>4, <3>1 DEF Posted
  <2>7. B!Publish(r, p)
    BY <2>3, <2>5, <2>6 DEF B!Publish, Owners, Posted, Turns, Pages
  <2>8. r \in B!Records
    BY <2>4 DEF B!Records, Records
  <2> QED
    BY <2>4, <2>7, <2>8 DEF B!Next
<1>20. ASSUME NEW s \in Servers, WriteContent(s) PROVE Refines
  <2>1. PICK r : r = post_id[op[s].who]
    OBVIOUS
  <2>2. /\ op[s].do = "written" /\ op'[s] = Select0 /\ ServerStep(s)
        /\ op[s].who \in slots[s] /\ ReleaseWriteLock(s, op[s].who)
        /\ file' = [file EXCEPT ![r].content = op[s].post]
    BY <1>0, <1>20, <2>1, OpMoves DEF WriteContent, ServerStep, Serving
  <2>3. UNCHANGED <<Turns, Pages>>
    BY <1>9, <2>2, OpTypes
  <2>4. UNCHANGED Posted
    <3>1. \A q \in Records : file'[q].from = file[q].from
      BY <1>0, <2>2 DEF Typed
    <3> QED
      BY <3>1 DEF Posted
  <2> QED
    BY <1>11, <2>2, <2>3, <2>4
<1>21. ASSUME NEW s \in Servers, Die(s) PROVE Refines
  <2>1. PICK R : R = write_locked[s]
    OBVIOUS
  <2>2. op'[s] = Select0 /\ UNCHANGED file /\ R \in SUBSET Records
    BY <1>0, <1>21, <2>1 DEF Die, Typed
  <2>3. TurnOf(op'[s]) = 0 /\ PageOf(op'[s]) = <<>>
    BY <2>2, Idle, OpTypes
  <2>4. Turns' = [Turns EXCEPT ![s] = 0] /\ Pages' = [Pages EXCEPT ![s] = <<>>]
    BY <1>5, <1>21, <2>3
  <2>5. Owners' = [r \in Records |-> IF r \in R THEN None ELSE Owners[r]]
    BY <1>21, <2>1, OwnersDie
  <2>6. UNCHANGED Posted /\ B!Records = Records
    BY <1>3, <2>2 DEF B!Records, Records
  <2>7. B!Fail(s, R)
    BY <2>4, <2>5, <2>6 DEF B!Fail, Owners, Posted, Turns, Pages
  <2> QED
    BY <2>2, <2>6, <2>7 DEF B!Next
<1>22. ASSUME NEW s \in Servers, StartServer(s) PROVE Refines
  BY <1>1, <1>2, <1>3, <1>4, <1>22 DEF StartServer
<1>23. ASSUME NEW c \in Clients, ClientStep(c) PROVE Refines
  BY <1>1, <1>2, <1>3, <1>4, <1>23, ClientFrame
<1>24. CASE UNCHANGED vars
  BY <1>1, <1>2, <1>3, <1>4, <1>24 DEF vars
<1> QED
  BY <1>12, <1>13, <1>14, <1>15, <1>16, <1>17, <1>18, <1>19, <1>20, <1>21, <1>22, <1>23,
     <1>24 DEF Next, ServerStep

(* It begins as a board of whole posts.                                    *)
LEMMA InitRefines == Init => B!Init
<1> SUFFICES ASSUME Init PROVE B!Init
  OBVIOUS
<1>1. Owners = [r \in Records |-> None]
  BY DEF Init, Owners, Holder
<1>2. Posted \in [Records -> Posts \cup {Blank}]
  BY InitInv DEF IInv, Typed, Posted, Cells
<1>3. \A s \in Servers : TurnOf(op[s]) = 0 /\ PageOf(op[s]) = <<>>
  BY OpTypes, Idle DEF Init
<1>4. Turns = [s \in Servers |-> 0] /\ Pages = [s \in Servers |-> <<>>]
  BY <1>3 DEF Turns, Pages, TurnOf, PageOf, Collecting
<1>5. B!Records = Records
  BY DEF B!Records, Records
<1> QED
  BY <1>1, <1>2, <1>4, <1>5 DEF B!Init, Owners, Posted, Turns, Pages

(* The servers together are one board.                                     *)
THEOREM Refinement == Spec => OneBoard
<1>1. Init => B!Init
  BY InitRefines
<1>2. IInv /\ IInv' /\ [Next]_vars => [B!Next]_(B!vars)
  BY StepRefines
<1> QED
  BY <1>1, <1>2, Invariance, PTL DEF Spec, OneBoard, B!Spec
=============================================================================
