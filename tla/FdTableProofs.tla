--------------------------- MODULE FdTableProofs ---------------------------
(***************************************************************************)
(* For any set of services and any sequence of spawns, kills and ends of   *)
(* file: between two commands every process of hw2 has exactly the         *)
(* descriptors it should have (FdsExact).                                  *)
(*                                                                         *)
(* The invariant says what a table holds in the middle of spawn_child and  *)
(* of a kill, and that while the Manager is there the services hang        *)
(* together, so that no service leaves and is made again unnoticed.        *)
(***************************************************************************)
EXTENDS FdTable, InductionLemmas, FiniteSetTheorems, SequenceTheorems, TLAPS

USE FdAssumption

-----------------------------------------------------------------------------
(* What belongs to a process p with the children of list, between commands: *)
(* its own two ends, those of its children and, while it makes a child,    *)
(* those in X.                                                             *)
Own(p) == IF p = Manager THEN {} ELSE {PARENT_READ_FD, PARENT_WRITE_FD}

KidFds(list) == UNION {{list[i].readfd, list[i].writefd} : i \in 1..Len(list)}
Names(list)  == {list[i].name : i \in 1..Len(list)}

StdEnds(t) == \A fd \in 0..2 : t[fd] = [end |-> Std, cloexec |-> FALSE]

OwnEnds(t, p) ==
    p # Manager => /\ t[PARENT_READ_FD].end = DownRead(p)
                   /\ t[PARENT_WRITE_FD].end = UpWrite(p)

KidEnds(t, list) ==
    \A i \in 1..Len(list) :
      /\ t[list[i].readfd] = [end |-> UpRead(list[i].name), cloexec |-> TRUE]
      /\ t[list[i].writefd] = [end |-> DownWrite(list[i].name), cloexec |-> TRUE]

Loaded(t, p, list, X) ==
    /\ IsFiniteSet(DOMAIN t)
    /\ DOMAIN t = 0..2 \cup Own(p) \cup KidFds(list) \cup X
    /\ X \cap (0..2 \cup Own(p) \cup KidFds(list)) = {}
    /\ Cardinality(DOMAIN t) = 3 + Cardinality(Own(p)) + 2 * Len(list) + Cardinality(X)
    /\ StdEnds(t) /\ OwnEnds(t, p) /\ KidEnds(t, list)

(* The four ends of the new pipes, and the two that the parent keeps.      *)
NewFds(down, up)  == {down[1], down[2], up[1], up[2]}
KeptFds(down, up) == {up[1], down[2]}

Kept(t, c, down, up) ==
    /\ t[up[1]] = [end |-> UpRead(c), cloexec |-> TRUE]
    /\ t[down[2]] = [end |-> DownWrite(c), cloexec |-> TRUE]

Piped(t, c, down, up) ==
    /\ Kept(t, c, down, up)
    /\ t[down[1]] = [end |-> DownRead(c), cloexec |-> TRUE]
    /\ t[up[2]] = [end |-> UpWrite(c), cloexec |-> TRUE]
    /\ {PARENT_READ_FD, PARENT_WRITE_FD} \subseteq DOMAIN t

Struct == [name : Services, readfd : Nat, writefd : Nat]

Typed ==
    /\ table = [p \in Services |-> table[p]]
    /\ pc \in [Services -> {"none", "idle", "fork", "close", "await", "setup", "reap"}]
    /\ childlist \in [Services -> Seq(Struct)]
    /\ p2cfd \in Seq(Nat) /\ c2pfd \in Seq(Nat)
    /\ new \in Seq(Services)

(* A process between two commands, or about to let go of a killed child.   *)
Settled(p) == pc[p] \in {"idle", "reap"} => Loaded(table[p], p, childlist[p], {})

(* spawn_child in p, for c.                                                *)
Before(p, c) ==
    /\ pc[p] = "fork" /\ pc[c] = "none"
    /\ Loaded(table[p], p, childlist[p], NewFds(p2cfd, c2pfd))
    /\ Piped(table[p], c, p2cfd, c2pfd)

Between(p, c) ==
    /\ pc[p] \in {"close", "await"} /\ pc[c] \in {"setup", "idle"}
    /\ childlist[c] = <<>>
    /\ pc[p] = "close" => /\ Loaded(table[p], p, childlist[p], NewFds(p2cfd, c2pfd))
                          /\ Piped(table[p], c, p2cfd, c2pfd)
    /\ pc[p] = "await" => /\ Loaded(table[p], p, childlist[p], KeptFds(p2cfd, c2pfd))
                          /\ Kept(table[p], c, p2cfd, c2pfd)
    /\ pc[c] = "setup" => /\ Loaded(table[c], p, childlist[p], NewFds(p2cfd, c2pfd))
                          /\ Piped(table[c], c, p2cfd, c2pfd)

Birth(p, c) ==
    /\ p # c /\ c # Manager /\ new = <<c>>
    /\ Cardinality(NewFds(p2cfd, c2pfd)) = 4 /\ NewFds(p2cfd, c2pfd) \subseteq Nat
    /\ Len(p2cfd) = 2 /\ Len(c2pfd) = 2
    /\ Len(childlist[p]) + 2 <= Cardinality(Services)
    /\ \A q \in Running : c \notin Names(childlist[q])
    /\ \A q \in Services \ {p, c} : pc[q] \in {"none", "idle"}
    /\ Before(p, c) \/ Between(p, c)

(* The one child that p has told to go.                                    *)
Death(p, i) ==
    /\ i \in 1..Len(childlist[p])
    /\ pc[p] = "reap" /\ new = <<>>
    /\ \A j \in 1..Len(childlist[p]) : pc[childlist[p][j].name] = "none" <=> j = i
    /\ \A q \in Services \ {p} : pc[q] \in {"none", "idle"}

Quiet == new = <<>> /\ \A p \in Services : pc[p] \in {"none", "idle"}

Phase ==
    \/ Quiet
    \/ pc[Manager] # "none" /\ \E p \in Services, i \in Nat : Death(p, i)
    \/ pc[Manager] # "none" /\ \E p, c \in Services : Birth(p, c)

(* Each service but the Manager has one parent.                            *)
Family ==
    \A p \in Running : \A i \in 1..Len(childlist[p]) :
       /\ childlist[p][i].name \notin {Manager, p}
       /\ \A q \in Running : \A j \in 1..Len(childlist[q]) :
             childlist[p][i].name = childlist[q][j].name => p = q /\ i = j

(* While the Manager is there, they are all there.                         *)
Attached ==
    pc[Manager] # "none" =>
      /\ \A c \in Running \ {Manager} :
           new = <<c>> \/ \E p \in Running : c \in Names(childlist[p])
      /\ \A p \in Running : pc[p] # "reap" => Names(childlist[p]) \subseteq Running

IInv == Typed /\ Family /\ Attached /\ Phase /\ \A p \in Services : Settled(p)

-----------------------------------------------------------------------------
(* Ends of pipes are different things.                                     *)
LEMMA Ends ==
  ASSUME NEW c, NEW d
  PROVE  /\ c # d => /\ DownRead(c) # DownRead(d) /\ DownWrite(c) # DownWrite(d)
                     /\ UpRead(c) # UpRead(d) /\ UpWrite(c) # UpWrite(d)
         /\ DownRead(c) \notin {DownWrite(d), UpRead(d), UpWrite(d), Std}
         /\ DownWrite(c) \notin {UpRead(d), UpWrite(d), Std}
         /\ UpRead(c) \notin {UpWrite(d), Std}
         /\ UpWrite(c) # Std
BY DEF DownRead, DownWrite, UpRead, UpWrite, Std

(* Closing takes descriptors away and leaves the others as they were.      *)
LEMMA CloseFacts ==
  ASSUME NEW t, NEW F
  PROVE  /\ DOMAIN Close(t, F) = DOMAIN t \ F
         /\ \A g \in DOMAIN t \ F : Close(t, F)[g] = t[g]
BY DEF Close

(* A table that is not full has a lowest free descriptor.                  *)
LEMMA LowestFree ==
  ASSUME NEW t, IsFiniteSet(DOMAIN t), Cardinality(DOMAIN t) <= MaxFd
  PROVE  /\ Lowest(t) \in 0..MaxFd /\ Lowest(t) \notin DOMAIN t
         /\ \A g \in 0..(Lowest(t) - 1) : g \in DOMAIN t
<1> DEFINE F == {fd \in 0..MaxFd : fd \notin DOMAIN t}
<1>1. F # {}
  <2> SUFFICES ASSUME F = {} PROVE FALSE
    OBVIOUS
  <2>1. 0..MaxFd \subseteq DOMAIN t
    OBVIOUS
  <2>2. Cardinality(0..MaxFd) <= Cardinality(DOMAIN t)
    BY <2>1, FS_Subset
  <2>3. Cardinality(0..MaxFd) = MaxFd + 1
    BY FS_Interval
  <2>4. Cardinality(DOMAIN t) \in Nat
    BY FS_CardinalityType
  <2> QED
    BY <2>2, <2>3, <2>4
<1>2. PICK m \in F : \A k \in F : m <= k
  <2>1. F \in SUBSET Nat
    OBVIOUS
  <2> HIDE DEF F
  <2> QED
    BY <1>1, <2>1, LeastElement
<1>3. /\ m \in 0..MaxFd /\ m \notin DOMAIN t
      /\ \A g \in 0..(m - 1) : g \in DOMAIN t
  BY <1>2
<1> QED
  BY <1>3 DEF Lowest

(* u is t with descriptor fd added.                                         *)
Adds(t, u, fd, end, cx) ==
    /\ fd \in Nat /\ fd \notin DOMAIN t
    /\ DOMAIN u = DOMAIN t \cup {fd}
    /\ u[fd] = [end |-> end, cloexec |-> cx]
    /\ \A g \in DOMAIN t : u[g] = t[g]
    /\ IsFiniteSet(DOMAIN u)
    /\ Cardinality(DOMAIN u) = Cardinality(DOMAIN t) + 1

(* Opening the lowest free descriptor; it is above those that are there.   *)
LEMMA OpenLowest ==
  ASSUME NEW t, IsFiniteSet(DOMAIN t), Cardinality(DOMAIN t) <= MaxFd,
         NEW end, NEW cx \in BOOLEAN, NEW k \in Nat, 0..(k - 1) \subseteq DOMAIN t
  PROVE  /\ Adds(t, Open(t, Lowest(t), end, cx), Lowest(t), end, cx)
         /\ Lowest(t) >= k
         /\ 0..k \subseteq DOMAIN Open(t, Lowest(t), end, cx)
<1>1. PICK fd : fd = Lowest(t)
  OBVIOUS
<1>2. /\ fd \in 0..MaxFd /\ fd \notin DOMAIN t
      /\ \A g \in 0..(fd - 1) : g \in DOMAIN t
  BY <1>1, LowestFree
<1>3. PICK u : u = Open(t, fd, end, cx)
  OBVIOUS
<1>4. /\ DOMAIN u = DOMAIN t \cup {fd}
      /\ u[fd] = [end |-> end, cloexec |-> cx]
  BY <1>3 DEF Open
<1>5. \A g \in DOMAIN t : u[g] = t[g]
  BY <1>2, <1>3 DEF Open
<1>6. IsFiniteSet(DOMAIN u) /\ Cardinality(DOMAIN u) = Cardinality(DOMAIN t) + 1
  BY <1>2, <1>4, FS_AddElement
<1>7. Adds(t, u, fd, end, cx)
  BY <1>2, <1>4, <1>5, <1>6 DEF Adds
<1>8. fd >= k
  BY <1>2
<1>9. k \in DOMAIN u
  <2>1. CASE fd = k
    BY <2>1, <1>4
  <2>2. CASE fd > k
    BY <2>2, <1>2, <1>4
  <2> QED
    BY <2>1, <2>2, <1>2, <1>8
<1>10. 0..k = 0..(k - 1) \cup {k}
  OBVIOUS
<1>11. 0..k \subseteq DOMAIN u
  BY <1>4, <1>9, <1>10
<1> QED
  BY <1>1, <1>3, <1>7, <1>8, <1>11

(* u is t with a pipe added, read at f and written at g.                   *)
AddsPipe(t, u, f, g, r, w) ==
    /\ f \in Nat /\ g \in Nat /\ f # g
    /\ f \notin DOMAIN t /\ g \notin DOMAIN t
    /\ DOMAIN u = DOMAIN t \cup {f, g}
    /\ u[f] = [end |-> r, cloexec |-> TRUE]
    /\ u[g] = [end |-> w, cloexec |-> TRUE]
    /\ \A h \in DOMAIN t : u[h] = t[h]
    /\ IsFiniteSet(DOMAIN u)
    /\ Cardinality(DOMAIN u) = Cardinality(DOMAIN t) + 2

(* pipe2 opens the two lowest.                                             *)
LEMMA Pipe2Facts ==
  ASSUME NEW t, IsFiniteSet(DOMAIN t), Cardinality(DOMAIN t) + 1 <= MaxFd,
         NEW r, NEW w, NEW k \in Nat, 0..(k - 1) \subseteq DOMAIN t
  PROVE  /\ \E f, g : AddsPipe(t, Pipe2(t, r, w), f, g, r, w)
         /\ 0..(k + 1) \subseteq DOMAIN Pipe2(t, r, w)
<1>0. Cardinality(DOMAIN t) \in Nat
  BY FS_CardinalityType
<1>1. PICK v : v = Open(t, Lowest(t), r, TRUE)
  OBVIOUS
<1>2. PICK u : u = Open(v, Lowest(v), w, TRUE)
  OBVIOUS
<1>3. Pipe2(t, r, w) = u
  BY <1>1, <1>2 DEF Pipe2
<1>4. Cardinality(DOMAIN t) <= MaxFd
  BY <1>0
<1>5. Adds(t, v, Lowest(t), r, TRUE) /\ 0..k \subseteq DOMAIN v
  BY <1>1, <1>4, OpenLowest
<1>6. IsFiniteSet(DOMAIN v) /\ Cardinality(DOMAIN v) <= MaxFd
  BY <1>0, <1>5 DEF Adds
<1>7. k + 1 \in Nat /\ (k + 1) - 1 = k
  OBVIOUS
<1>8. Adds(v, u, Lowest(v), w, TRUE) /\ 0..(k + 1) \subseteq DOMAIN u
  <2>1. 0..((k + 1) - 1) \subseteq DOMAIN v
    BY <1>5, <1>7
  <2> QED
    BY <1>2, <1>6, <1>7, <2>1, OpenLowest
<1>9. PICK f : f = Lowest(t)
  OBVIOUS
<1>10. PICK g : g = Lowest(v)
  OBVIOUS
<1>11. Adds(t, v, f, r, TRUE) /\ Adds(v, u, g, w, TRUE)
  BY <1>5, <1>8, <1>9, <1>10
<1>12. /\ f \in Nat /\ g \in Nat /\ f # g
       /\ f \notin DOMAIN t /\ g \notin DOMAIN t
       /\ DOMAIN u = DOMAIN t \cup {f, g}
  BY <1>11 DEF Adds
<1>13. /\ u[f] = [end |-> r, cloexec |-> TRUE]
       /\ u[g] = [end |-> w, cloexec |-> TRUE]
       /\ \A h \in DOMAIN t : u[h] = t[h]
  BY <1>11 DEF Adds
<1>14. IsFiniteSet(DOMAIN u) /\ Cardinality(DOMAIN u) = Cardinality(DOMAIN t) + 2
  BY <1>0, <1>11 DEF Adds
<1>15. AddsPipe(t, u, f, g, r, w)
  BY <1>12, <1>13, <1>14 DEF AddsPipe
<1> QED
  BY <1>3, <1>8, <1>15

(* Counting small sets.                                                    *)
LEMMA PairCount ==
  ASSUME NEW a, NEW b, a # b
  PROVE  IsFiniteSet({a, b}) /\ Cardinality({a, b}) = 2
<1>1. IsFiniteSet({a}) /\ Cardinality({a}) = 1
  BY FS_Singleton
<1>2. {a, b} = {a} \cup {b}
  OBVIOUS
<1>3. b \notin {a}
  OBVIOUS
<1> QED
  BY <1>1, <1>2, <1>3, FS_AddElement

(* Four different things are four.                                         *)
LEMMA FourCount ==
  ASSUME NEW a, NEW b, NEW d, NEW e,
         a # b, a # d, a # e, b # d, b # e, d # e
  PROVE  IsFiniteSet({a, b, d, e}) /\ Cardinality({a, b, d, e}) = 4
<1>1. IsFiniteSet({a, b}) /\ Cardinality({a, b}) = 2
  BY PairCount
<1>2. IsFiniteSet({a, b} \cup {d}) /\ Cardinality({a, b} \cup {d}) = 3
  BY <1>1, FS_AddElement
<1>3. {a, b, d, e} = ({a, b} \cup {d}) \cup {e}
  OBVIOUS
<1>4. e \notin {a, b} \cup {d}
  OBVIOUS
<1>5. /\ IsFiniteSet(({a, b} \cup {d}) \cup {e})
      /\ Cardinality(({a, b} \cup {d}) \cup {e}) = Cardinality({a, b} \cup {d}) + 1
  BY <1>2, <1>4, FS_AddElement
<1> QED
  BY <1>2, <1>3, <1>5

(* One thing more.                                                         *)
LEMMA AtMostOneMore ==
  ASSUME NEW A, NEW k \in Nat, IsFiniteSet(A), Cardinality(A) <= k, NEW z
  PROVE  IsFiniteSet(A \cup {z}) /\ Cardinality(A \cup {z}) <= k + 1
<1>1. Cardinality(A) \in Nat
  BY FS_CardinalityType
<1>2. CASE z \in A
  <2>1. A \cup {z} = A
    BY <1>2
  <2>2. Cardinality(A) <= k + 1
    BY <1>1
  <2> QED
    BY <2>1, <2>2
<1>3. CASE z \notin A
  <2>1. IsFiniteSet(A \cup {z}) /\ Cardinality(A \cup {z}) = Cardinality(A) + 1
    BY <1>3, FS_AddElement
  <2> QED
    BY <1>1, <2>1
<1> QED
  BY <1>2, <1>3

(* Four names of four things are different.                                *)
LEMMA FourApart ==
  ASSUME NEW a, NEW b, NEW d, NEW e, Cardinality({a, b, d, e}) = 4
  PROVE  a # b /\ a # d /\ a # e /\ b # d /\ b # e /\ d # e
<1>1. \A x, y, z : IsFiniteSet({x, y, z}) /\ Cardinality({x, y, z}) <= 3
  <2> TAKE x, y, z
  <2>1. IsFiniteSet({x}) /\ Cardinality({x}) <= 1
    <3>1. IsFiniteSet({x}) /\ Cardinality({x}) = 1
      BY FS_Singleton
    <3> QED
      BY <3>1
  <2>2. IsFiniteSet({x} \cup {y}) /\ Cardinality({x} \cup {y}) <= 1 + 1
    BY <2>1, AtMostOneMore
  <2>3. 1 + 1 = 2 /\ 2 + 1 = 3
    OBVIOUS
  <2>4. IsFiniteSet(({x} \cup {y}) \cup {z}) /\ Cardinality(({x} \cup {y}) \cup {z}) <= 2 + 1
    BY <2>2, <2>3, AtMostOneMore
  <2>5. {x, y, z} = ({x} \cup {y}) \cup {z}
    OBVIOUS
  <2> QED
    BY <2>3, <2>4, <2>5
<1>2. \A x, y, z : {a, b, d, e} # {x, y, z}
  <2> SUFFICES ASSUME NEW x, NEW y, NEW z, {a, b, d, e} = {x, y, z}
               PROVE  FALSE
    OBVIOUS
  <2>1. Cardinality({x, y, z}) = 4 /\ Cardinality({x, y, z}) <= 3
    BY <1>1
  <2> QED
    BY <2>1
<1>3. a = b \/ a = d \/ a = e => {a, b, d, e} = {b, d, e}
  OBVIOUS
<1>4. b = d \/ b = e => {a, b, d, e} = {a, d, e}
  OBVIOUS
<1>5. d = e => {a, b, d, e} = {a, b, e}
  OBVIOUS
<1> QED
  BY <1>2, <1>3, <1>4, <1>5

-----------------------------------------------------------------------------
(* Which ends a loaded table has, besides those in X.                      *)
LEMMA LoadedEnds ==
  ASSUME NEW t, NEW p, NEW list, NEW X, Loaded(t, p, list, X),
         NEW c, c # p, c \notin Names(list),
         NEW fd \in DOMAIN t \ X
  PROVE  t[fd].end \notin {DownRead(c), DownWrite(c), UpRead(c), UpWrite(c)}
<1>1. fd \in 0..2 \/ fd \in Own(p) \/ fd \in KidFds(list)
  BY DEF Loaded
<1>2. CASE fd \in 0..2
  <2>1. t[fd].end = Std
    BY <1>2 DEF Loaded, StdEnds
  <2> QED
    BY <2>1, Ends
<1>3. CASE fd \in Own(p)
  <2>1. p # Manager /\ fd \in {PARENT_READ_FD, PARENT_WRITE_FD}
    BY <1>3 DEF Own
  <2>2. t[fd].end \in {DownRead(p), UpWrite(p)}
    BY <2>1 DEF Loaded, OwnEnds
  <2> QED
    BY <2>2, Ends
<1>4. CASE fd \in KidFds(list)
  <2>1. PICK i \in 1..Len(list) : fd \in {list[i].readfd, list[i].writefd}
    BY <1>4 DEF KidFds
  <2>2. t[fd].end \in {UpRead(list[i].name), DownWrite(list[i].name)}
    <3>1. /\ t[list[i].readfd] = [end |-> UpRead(list[i].name), cloexec |-> TRUE]
          /\ t[list[i].writefd] = [end |-> DownWrite(list[i].name), cloexec |-> TRUE]
      BY DEF Loaded, KidEnds
    <3>2. CASE fd = list[i].readfd
      BY <3>1, <3>2
    <3>3. CASE fd = list[i].writefd
      BY <3>1, <3>3
    <3> QED
      BY <2>1, <3>2, <3>3
  <2>3. list[i].name # c
    BY <2>1 DEF Names
  <2> QED
    BY <2>2, <2>3, Ends
<1> QED
  BY <1>1, <1>2, <1>3, <1>4

(* How many descriptors a process has of its own.                          *)
LEMMA OwnCount ==
  ASSUME NEW p
  PROVE  /\ Cardinality(Own(p)) \in 0..2
         /\ p # Manager => Cardinality(Own(p)) = 2
         /\ p = Manager => Cardinality(Own(p)) = 0
<1>1. Cardinality({}) = 0
  BY FS_EmptySet
<1>2. Cardinality({PARENT_READ_FD, PARENT_WRITE_FD}) = 2
  <2>1. PARENT_READ_FD # PARENT_WRITE_FD
    BY DEF PARENT_READ_FD, PARENT_WRITE_FD
  <2> QED
    BY <2>1, PairCount
<1> QED
  BY <1>1, <1>2 DEF Own

(* More descriptors in a loaded table.                                     *)
LEMMA LoadedMore ==
  ASSUME NEW t, NEW p, NEW list, Loaded(t, p, list, {}), Len(list) \in Nat,
         NEW u, NEW X, X \cap DOMAIN t = {}, IsFiniteSet(X),
         DOMAIN u = DOMAIN t \cup X, \A g \in DOMAIN t : u[g] = t[g],
         IsFiniteSet(DOMAIN u),
         Cardinality(DOMAIN u) = Cardinality(DOMAIN t) + Cardinality(X)
  PROVE  Loaded(u, p, list, X)
<1>1. DOMAIN t = 0..2 \cup Own(p) \cup KidFds(list)
  BY DEF Loaded
<1>2. Cardinality(DOMAIN t) = 3 + Cardinality(Own(p)) + 2 * Len(list)
  <2>1. Cardinality({}) = 0
    BY FS_EmptySet
  <2>2. Cardinality(DOMAIN t) = 3 + Cardinality(Own(p)) + 2 * Len(list) + 0
    BY <2>1 DEF Loaded
  <2>3. Cardinality(Own(p)) \in Nat
    BY OwnCount
  <2> QED
    BY <2>2, <2>3
<1>3. StdEnds(u)
  BY <1>1 DEF Loaded, StdEnds
<1>4. OwnEnds(u, p)
  BY <1>1 DEF Loaded, OwnEnds, Own
<1>5. KidEnds(u, list)
  <2> SUFFICES ASSUME NEW i \in 1..Len(list)
               PROVE  /\ u[list[i].readfd] = t[list[i].readfd]
                      /\ u[list[i].writefd] = t[list[i].writefd]
    BY DEF Loaded, KidEnds
  <2>1. list[i].readfd \in KidFds(list) /\ list[i].writefd \in KidFds(list)
    BY DEF KidFds
  <2> QED
    BY <1>1, <2>1
<1>6. Cardinality(DOMAIN u) = 3 + Cardinality(Own(p)) + 2 * Len(list) + Cardinality(X)
  BY <1>2
<1> QED
  BY <1>1, <1>3, <1>4, <1>5, <1>6 DEF Loaded

(* Fewer.                                                                  *)
LEMMA LoadedLess ==
  ASSUME NEW t, NEW p, NEW list, NEW X, Loaded(t, p, list, X), Len(list) \in Nat,
         NEW Z \in SUBSET X, IsFiniteSet(X)
  PROVE  Loaded(Close(t, Z), p, list, X \ Z)
<1> DEFINE u == Close(t, Z)
<1>1. DOMAIN u = DOMAIN t \ Z /\ \A g \in DOMAIN t \ Z : u[g] = t[g]
  BY CloseFacts
<1>2. DOMAIN t = 0..2 \cup Own(p) \cup KidFds(list) \cup X
      /\ X \cap (0..2 \cup Own(p) \cup KidFds(list)) = {}
  BY DEF Loaded
<1> HIDE DEF u
<1>3. DOMAIN u = 0..2 \cup Own(p) \cup KidFds(list) \cup (X \ Z)
      /\ (X \ Z) \cap (0..2 \cup Own(p) \cup KidFds(list)) = {}
  BY <1>1, <1>2
<1>4. \A g \in 0..2 \cup Own(p) \cup KidFds(list) : u[g] = t[g]
  BY <1>1, <1>2
<1>5. StdEnds(u)
  BY <1>4 DEF Loaded, StdEnds
<1>6. OwnEnds(u, p)
  BY <1>4 DEF Loaded, OwnEnds, Own
<1>7. KidEnds(u, list)
  <2> SUFFICES ASSUME NEW i \in 1..Len(list)
               PROVE  /\ u[list[i].readfd] = t[list[i].readfd]
                      /\ u[list[i].writefd] = t[list[i].writefd]
    BY DEF Loaded, KidEnds
  <2>1. list[i].readfd \in KidFds(list) /\ list[i].writefd \in KidFds(list)
    BY DEF KidFds
  <2> QED
    BY <1>4, <2>1
<1>8. IsFiniteSet(DOMAIN u)
  BY <1>1, FS_Subset DEF Loaded
<1>9. Cardinality(DOMAIN u) = 3 + Cardinality(Own(p)) + 2 * Len(list) + Cardinality(X \ Z)
  <2>1. IsFiniteSet(DOMAIN t)
    BY DEF Loaded
  <2>2. Cardinality(DOMAIN t \ Z) = Cardinality(DOMAIN t) - Cardinality(DOMAIN t \cap Z)
    BY <2>1, FS_Difference
  <2>3. Cardinality(X \ Z) = Cardinality(X) - Cardinality(X \cap Z)
    BY FS_Difference
  <2>4. DOMAIN t \cap Z = Z /\ X \cap Z = Z
    BY <1>2
  <2>5. Cardinality(DOMAIN t) = 3 + Cardinality(Own(p)) + 2 * Len(list) + Cardinality(X)
    BY DEF Loaded
  <2>6. Cardinality(X) \in Nat /\ Cardinality(Own(p)) \in Nat
    <3>1. Cardinality(X) \in Nat
      BY FS_CardinalityType
    <3> QED
      BY <3>1, OwnCount
  <2>7. IsFiniteSet(Z)
    BY FS_Subset
  <2>8. Cardinality(Z) \in Nat
    BY <2>7, FS_CardinalityType
  <2> QED
    <3>1. Cardinality(DOMAIN u) = Cardinality(DOMAIN t) - Cardinality(Z)
      BY <1>1, <2>2, <2>4
    <3>2. Cardinality(X \ Z) = Cardinality(X) - Cardinality(Z)
      BY <2>3, <2>4
    <3> QED
      BY <3>1, <3>2, <2>5, <2>6, <2>8
<1>10. Loaded(u, p, list, X \ Z)
  BY <1>3, <1>5, <1>6, <1>7, <1>8, <1>9 DEF Loaded
<1> QED
  BY <1>10 DEF u

(* AppendChild: a child more, with the two ends kept.                      *)
LEMMA LoadedAppend ==
  ASSUME NEW t, NEW p, NEW list \in Seq(Struct), NEW r \in Nat, NEW w \in Nat, r # w,
         Loaded(t, p, list, {r, w}), NEW c \in Services,
         t[r] = [end |-> UpRead(c), cloexec |-> TRUE],
         t[w] = [end |-> DownWrite(c), cloexec |-> TRUE],
         NEW l2, l2 = Append(list, [name |-> c, readfd |-> r, writefd |-> w])
  PROVE  Loaded(t, p, l2, {})
<1>1. /\ Len(l2) = Len(list) + 1 /\ Len(list) \in Nat
      /\ \A i \in 1..Len(list) : l2[i] = list[i]
      /\ l2[Len(list) + 1] = [name |-> c, readfd |-> r, writefd |-> w]
  BY DEF Struct
<1>2. 1..Len(l2) = 1..Len(list) \cup {Len(list) + 1}
  BY <1>1
<1>3. KidFds(l2) = KidFds(list) \cup {r, w}
  <2>1. ASSUME NEW fd \in KidFds(l2) PROVE fd \in KidFds(list) \cup {r, w}
    <3>1. PICK i \in 1..Len(l2) : fd \in {l2[i].readfd, l2[i].writefd}
      BY <2>1 DEF KidFds
    <3>2. CASE i \in 1..Len(list)
      BY <3>1, <3>2, <1>1 DEF KidFds
    <3>3. CASE i = Len(list) + 1
      BY <3>1, <3>3, <1>1
    <3> QED
      BY <3>2, <3>3, <1>2
  <2>2. ASSUME NEW fd \in KidFds(list) PROVE fd \in KidFds(l2)
    <3>1. PICK i \in 1..Len(list) : fd \in {list[i].readfd, list[i].writefd}
      BY <2>2 DEF KidFds
    <3>2. i \in 1..Len(l2) /\ l2[i] = list[i]
      BY <1>1, <1>2
    <3> QED
      BY <3>1, <3>2 DEF KidFds
  <2>3. {r, w} \subseteq KidFds(l2)
    <3>1. Len(list) + 1 \in 1..Len(l2)
      BY <1>1
    <3>2. l2[Len(list) + 1].readfd = r /\ l2[Len(list) + 1].writefd = w
      BY <1>1
    <3> QED
      BY <3>1, <3>2 DEF KidFds
  <2> QED
    BY <2>1, <2>2, <2>3
<1>4. KidEnds(t, l2)
  <2> SUFFICES ASSUME NEW i \in 1..Len(l2)
               PROVE  /\ t[l2[i].readfd] = [end |-> UpRead(l2[i].name), cloexec |-> TRUE]
                      /\ t[l2[i].writefd] = [end |-> DownWrite(l2[i].name), cloexec |-> TRUE]
    BY DEF KidEnds
  <2>1. CASE i \in 1..Len(list)
    <3>1. /\ t[list[i].readfd] = [end |-> UpRead(list[i].name), cloexec |-> TRUE]
          /\ t[list[i].writefd] = [end |-> DownWrite(list[i].name), cloexec |-> TRUE]
      BY <2>1 DEF Loaded, KidEnds
    <3> QED
      BY <3>1, <2>1, <1>1
  <2>2. CASE i = Len(list) + 1
    <3>1. l2[i].name = c /\ l2[i].readfd = r /\ l2[i].writefd = w
      BY <2>2, <1>1
    <3> QED
      BY <3>1
  <2> QED
    BY <2>1, <2>2, <1>2
<1>5. Cardinality(DOMAIN t) = 3 + Cardinality(Own(p)) + 2 * Len(l2) + Cardinality({})
  <2>1. Cardinality({r, w}) = 2 /\ Cardinality({}) = 0
    BY PairCount, FS_EmptySet
  <2>2. Cardinality(DOMAIN t) = 3 + Cardinality(Own(p)) + 2 * Len(list) + 2
    BY <2>1 DEF Loaded
  <2>3. Cardinality(Own(p)) \in Nat
    BY OwnCount
  <2> QED
    BY <2>1, <2>2, <2>3, <1>1
<1>6. DOMAIN t = 0..2 \cup Own(p) \cup KidFds(l2) \cup {}
  BY <1>3 DEF Loaded
<1> QED
  BY <1>4, <1>5, <1>6 DEF Loaded

(* Reap: the children behind the one removed move up.                      *)
MovedUp(list, i, l2) ==
    /\ Len(l2) = Len(list) - 1
    /\ \A j \in 1..Len(l2) : j < i => l2[j] = list[j]
    /\ \A j \in 1..Len(l2) : j >= i => l2[j] = list[j + 1]

(* That is what RemoveAt does.                                             *)
LEMMA RemoveFacts ==
  ASSUME NEW S, NEW list \in Seq(S), NEW i \in 1..Len(list),
         NEW l2, l2 = RemoveAt(list, i)
  PROVE  l2 \in Seq(S) /\ MovedUp(list, i, l2)
<1> DEFINE a == SubSeq(list, 1, i - 1)
           b == SubSeq(list, i + 1, Len(list))
<1>0. Len(list) \in Nat /\ i \in Nat
  OBVIOUS
<1>1. a \in Seq(S) /\ Len(a) = i - 1 /\ \A j \in 1..(i - 1) : a[j] = list[j]
  <2>1. \A j \in 1..(i - 1) : list[j] \in S
    BY <1>0
  <2> QED
    BY <1>0, <2>1, SubSeqProperties
<1>2. /\ b \in Seq(S) /\ Len(b) = Len(list) - i
      /\ \A j \in 1..(Len(list) - i) : b[j] = list[i + j]
  <2>1. \A j \in (i + 1)..Len(list) : list[j] \in S
    BY <1>0
  <2>2. CASE i = Len(list)
    <3>1. b = <<>>
      BY <2>2, <1>0
    <3> QED
      BY <3>1, <2>2, <1>0
  <2>3. CASE i < Len(list)
    BY <1>0, <2>1, <2>3, SubSeqProperties
  <2> QED
    BY <2>2, <2>3, <1>0
<1>3. l2 = a \o b
  BY DEF RemoveAt
<1> HIDE DEF a, b
<1>4. /\ l2 \in Seq(S) /\ Len(l2) = Len(a) + Len(b)
      /\ \A j \in 1..(Len(a) + Len(b)) : l2[j] = IF j <= Len(a) THEN a[j] ELSE b[j - Len(a)]
  <2>1. a \in Seq(S) /\ b \in Seq(S)
    BY <1>1, <1>2
  <2>2. /\ a \o b \in Seq(S) /\ Len(a \o b) = Len(a) + Len(b)
        /\ \A j \in 1..(Len(a) + Len(b)) :
              (a \o b)[j] = IF j <= Len(a) THEN a[j] ELSE b[j - Len(a)]
    BY <2>1, ConcatProperties
  <2> QED
    BY <2>2, <1>3
<1>5. Len(l2) = Len(list) - 1
  BY <1>0, <1>1, <1>2, <1>4
<1>6. ASSUME NEW j \in 1..Len(l2), j < i PROVE l2[j] = list[j]
  <2>1. j \in 1..(i - 1) /\ j <= Len(a)
    BY <1>0, <1>1, <1>6
  <2>2. l2[j] = a[j]
    BY <2>1, <1>0, <1>4
  <2> QED
    BY <2>1, <2>2, <1>1
<1>7. ASSUME NEW j \in 1..Len(l2), j >= i PROVE l2[j] = list[j + 1]
  <2>1. l2[j] = b[j - (i - 1)]
    BY <1>0, <1>1, <1>2, <1>4, <1>7
  <2>2. j - (i - 1) \in 1..(Len(list) - i) /\ i + (j - (i - 1)) = j + 1
    BY <1>0, <1>5, <1>7
  <2> QED
    BY <2>1, <2>2, <1>2
<1> QED
  BY <1>4, <1>5, <1>6, <1>7 DEF MovedUp

(* The children that stay are the others.                                  *)
Others(list, i, l2) ==
    /\ \A j \in 1..Len(l2) : \E k \in 1..Len(list) \ {i} : l2[j] = list[k]
    /\ \A k \in 1..Len(list) \ {i} : \E j \in 1..Len(l2) : l2[j] = list[k]

(* So they are.                                                            *)
LEMMA RemoveOthers ==
  ASSUME NEW S, NEW list \in Seq(S), NEW i \in 1..Len(list),
         NEW l2, l2 = RemoveAt(list, i)
  PROVE  Others(list, i, l2)
<1>1. /\ Len(l2) = Len(list) - 1
      /\ \A j \in 1..Len(l2) : j < i => l2[j] = list[j]
      /\ \A j \in 1..Len(l2) : j >= i => l2[j] = list[j + 1]
  <2>1. MovedUp(list, i, l2)
    BY RemoveFacts
  <2> QED
    BY <2>1 DEF MovedUp
<1>2. Len(list) \in Nat
  OBVIOUS
<1>3. ASSUME NEW j \in 1..Len(l2) PROVE \E k \in 1..Len(list) \ {i} : l2[j] = list[k]
  <2>1. CASE j < i
    <3>1. j \in 1..Len(list) \ {i}
      BY <2>1, <1>1, <1>2
    <3> QED
      BY <3>1, <2>1, <1>1
  <2>2. CASE j >= i
    <3>1. j + 1 \in 1..Len(list) \ {i}
      BY <2>2, <1>1, <1>2
    <3> QED
      BY <3>1, <2>2, <1>1
  <2> QED
    BY <2>1, <2>2
<1>4. ASSUME NEW k \in 1..Len(list) \ {i} PROVE \E j \in 1..Len(l2) : l2[j] = list[k]
  <2>1. CASE k < i
    <3>1. k \in 1..Len(l2)
      BY <2>1, <1>1, <1>2
    <3> QED
      BY <3>1, <2>1, <1>1
  <2>2. CASE k > i
    <3>1. k - 1 \in 1..Len(l2) /\ k - 1 >= i /\ (k - 1) + 1 = k
      BY <2>2, <1>1, <1>2
    <3> QED
      BY <3>1, <1>1
  <2> QED
    BY <2>1, <2>2
<1> QED
  BY <1>3, <1>4 DEF Others

(* Nor do two of them become one.                                          *)
LEMMA RemoveApart ==
  ASSUME NEW list \in Seq(Struct), NEW i \in 1..Len(list),
         \A k1, k2 \in 1..Len(list) : list[k1].name = list[k2].name => k1 = k2,
         NEW l2, l2 = RemoveAt(list, i), NEW j1 \in 1..Len(l2), NEW j2 \in 1..Len(l2),
         l2[j1].name = l2[j2].name
  PROVE  j1 = j2
<1>1. /\ Len(l2) = Len(list) - 1
      /\ \A j \in 1..Len(l2) : j < i => l2[j] = list[j]
      /\ \A j \in 1..Len(l2) : j >= i => l2[j] = list[j + 1]
  <2>1. MovedUp(list, i, l2)
    BY RemoveFacts
  <2> QED
    BY <2>1 DEF MovedUp
<1>2. Len(list) \in Nat
  OBVIOUS
<1> DEFINE m(j) == IF j < i THEN j ELSE j + 1
<1>3. ASSUME NEW j \in 1..Len(l2)
      PROVE  m(j) \in 1..Len(list) /\ l2[j] = list[m(j)]
  <2>1. CASE j < i
    <3>1. m(j) = j /\ j \in 1..Len(list)
      BY <2>1, <1>1, <1>2
    <3> QED
      BY <3>1, <2>1, <1>1
  <2>2. CASE j >= i
    <3>1. m(j) = j + 1 /\ j + 1 \in 1..Len(list)
      BY <2>2, <1>1, <1>2
    <3> QED
      BY <3>1, <2>2, <1>1
  <2> QED
    BY <2>1, <2>2
<1>4. /\ m(j1) \in 1..Len(list) /\ l2[j1] = list[m(j1)]
      /\ m(j2) \in 1..Len(list) /\ l2[j2] = list[m(j2)]
  BY <1>3
<1>5. m(j1) = m(j2) => j1 = j2
  BY <1>1, <1>2
<1> HIDE DEF m
<1> QED
  BY <1>4, <1>5

(* A child less: its two ends are those given back.                        *)
LEMMA LoadedRemove ==
  ASSUME NEW t, NEW p, NEW list \in Seq(Struct), Loaded(t, p, list, {}),
         NEW i \in 1..Len(list),
         \A j \in 1..Len(list) : list[j].name = list[i].name => j = i,
         NEW l2, l2 = RemoveAt(list, i),
         NEW Z, Z = {list[i].readfd, list[i].writefd}
  PROVE  Loaded(Close(t, Z), p, l2, {})
<1>1. /\ t[list[i].readfd] = [end |-> UpRead(list[i].name), cloexec |-> TRUE]
      /\ t[list[i].writefd] = [end |-> DownWrite(list[i].name), cloexec |-> TRUE]
  BY DEF Loaded, KidEnds
<1>2. list[i].readfd # list[i].writefd
  BY <1>1, Ends
<1>3. \A fd \in Z : t[fd].end \in {UpRead(list[i].name), DownWrite(list[i].name)}
  BY <1>1
<1>4. /\ \A j \in 1..Len(l2) : \E k \in 1..Len(list) \ {i} : l2[j] = list[k]
      /\ \A k \in 1..Len(list) \ {i} : \E j \in 1..Len(l2) : l2[j] = list[k]
  <2>1. list \in Seq(Struct) /\ i \in 1..Len(list) /\ l2 = RemoveAt(list, i)
    OBVIOUS
  <2>2. Others(list, i, l2)
    BY <2>1, RemoveOthers
  <2> QED
    BY <2>2 DEF Others
<1>5. KidFds(list) = KidFds(l2) \cup Z
  <2>1. ASSUME NEW fd \in KidFds(l2) PROVE fd \in KidFds(list)
    <3>1. PICK j \in 1..Len(l2) : fd \in {l2[j].readfd, l2[j].writefd}
      BY <2>1 DEF KidFds
    <3>2. PICK k \in 1..Len(list) \ {i} : l2[j] = list[k]
      BY <1>4
    <3> QED
      BY <3>1, <3>2 DEF KidFds
  <2>2. ASSUME NEW fd \in KidFds(list) PROVE fd \in KidFds(l2) \cup Z
    <3>1. PICK k \in 1..Len(list) : fd \in {list[k].readfd, list[k].writefd}
      BY <2>2 DEF KidFds
    <3>2. CASE k = i
      BY <3>1, <3>2
    <3>3. CASE k # i
      <4>1. PICK j \in 1..Len(l2) : l2[j] = list[k]
        BY <3>3, <1>4
      <4> QED
        BY <3>1, <4>1 DEF KidFds
    <3> QED
      BY <3>2, <3>3
  <2>3. Z \subseteq KidFds(list)
    BY DEF KidFds
  <2> QED
    BY <2>1, <2>2, <2>3
<1>6. Z \cap (0..2 \cup Own(p) \cup KidFds(l2)) = {}
  <2> SUFFICES ASSUME NEW fd \in Z, fd \in 0..2 \cup Own(p) \cup KidFds(l2)
               PROVE  FALSE
    OBVIOUS
  <2>1. t[fd].end \in {UpRead(list[i].name), DownWrite(list[i].name)}
    BY <1>3
  <2>2. CASE fd \in 0..2
    <3>1. t[fd].end = Std
      BY <2>2 DEF Loaded, StdEnds
    <3> QED
      BY <3>1, <2>1, Ends
  <2>3. CASE fd \in Own(p)
    <3>1. p # Manager /\ fd \in {PARENT_READ_FD, PARENT_WRITE_FD}
      BY <2>3 DEF Own
    <3>2. t[fd].end \in {DownRead(p), UpWrite(p)}
      BY <3>1 DEF Loaded, OwnEnds
    <3> QED
      BY <3>2, <2>1, Ends
  <2>4. CASE fd \in KidFds(l2)
    <3>1. PICK j \in 1..Len(l2) : fd \in {l2[j].readfd, l2[j].writefd}
      BY <2>4 DEF KidFds
    <3>2. PICK k \in 1..Len(list) \ {i} : l2[j] = list[k]
      BY <1>4
    <3>3. /\ t[list[k].readfd] = [end |-> UpRead(list[k].name), cloexec |-> TRUE]
          /\ t[list[k].writefd] = [end |-> DownWrite(list[k].name), cloexec |-> TRUE]
      BY DEF Loaded, KidEnds
    <3>4. t[fd].end \in {UpRead(list[k].name), DownWrite(list[k].name)}
      <4>1. CASE fd = list[k].readfd
        BY <4>1, <3>3
      <4>2. CASE fd = list[k].writefd
        BY <4>2, <3>3
      <4> QED
        BY <4>1, <4>2, <3>1, <3>2
    <3>5. list[k].name # list[i].name
      OBVIOUS
    <3> QED
      BY <3>4, <3>5, <2>1, Ends
  <2> QED
    BY <2>2, <2>3, <2>4
<1>7. KidEnds(t, l2)
  <2> SUFFICES ASSUME NEW j \in 1..Len(l2)
               PROVE  /\ t[l2[j].readfd] = [end |-> UpRead(l2[j].name), cloexec |-> TRUE]
                      /\ t[l2[j].writefd] = [end |-> DownWrite(l2[j].name), cloexec |-> TRUE]
    BY DEF KidEnds
  <2>1. PICK k \in 1..Len(list) \ {i} : l2[j] = list[k]
    BY <1>4
  <2> QED
    BY <2>1 DEF Loaded, KidEnds
<1>8. IsFiniteSet(Z) /\ Cardinality(Z) = 2
  BY <1>2, PairCount
<1>9. Len(list) \in Nat /\ Len(l2) = Len(list) - 1
  <2>1. MovedUp(list, i, l2)
    BY RemoveFacts
  <2> QED
    BY <2>1 DEF MovedUp
<1>10. Cardinality(DOMAIN t) = 3 + Cardinality(Own(p)) + 2 * Len(l2) + Cardinality(Z)
  <2>1. Cardinality({}) = 0
    BY FS_EmptySet
  <2>2. Cardinality(DOMAIN t) = 3 + Cardinality(Own(p)) + 2 * Len(list) + 0
    BY <2>1 DEF Loaded
  <2>3. Cardinality(Own(p)) \in Nat
    BY OwnCount
  <2> QED
    BY <2>2, <2>3, <1>8, <1>9
<1>11. Loaded(t, p, l2, Z)
  BY <1>5, <1>6, <1>7, <1>10 DEF Loaded
<1>12. Loaded(Close(t, Z), p, l2, Z \ Z)
  <2>1. Len(l2) \in Nat
    BY <1>9
  <2> QED
    BY <2>1, <1>8, <1>11, LoadedLess
<1>13. Z \ Z = {}
  OBVIOUS
<1> QED
  BY <1>12, <1>13

(* The sum.                                                                *)
LEMMA RoomArithmetic ==
  ASSUME NEW o \in 0..2, NEW x \in 0..4, NEW k \in Nat, NEW n \in Nat, NEW m \in Nat,
         k + 2 <= n, m >= 2 * n + 6
  PROVE  3 + o + 2 * k + x \in Nat /\ 3 + o + 2 * k + x + 5 <= m + x
OBVIOUS

(* There is always room for the six descriptors of spawn_child.            *)
LEMMA RoomLeft ==
  ASSUME NEW t, NEW p, NEW list, NEW X, Loaded(t, p, list, X), Len(list) \in Nat,
         Len(list) + 2 <= Cardinality(Services), Cardinality(X) \in 0..4
  PROVE  Cardinality(DOMAIN t) \in Nat /\ Cardinality(DOMAIN t) + 5 <= MaxFd + Cardinality(X)
<1>1. Cardinality(DOMAIN t) = 3 + Cardinality(Own(p)) + 2 * Len(list) + Cardinality(X)
  BY DEF Loaded
<1>2. Cardinality(Own(p)) \in 0..2
  BY OwnCount
<1>3. Cardinality(Services) \in Nat
  BY FS_CardinalityType
<1>4. PICK o \in 0..2 : o = Cardinality(Own(p))
  BY <1>2
<1>5. PICK x \in 0..4 : x = Cardinality(X)
  OBVIOUS
<1>6. PICK n \in Nat : n = Cardinality(Services)
  BY <1>3
<1>7. PICK k \in Nat : k = Len(list)
  OBVIOUS
<1>8. Cardinality(DOMAIN t) = 3 + o + 2 * k + x
  BY <1>1, <1>4, <1>5, <1>7
<1>9. k + 2 <= n /\ MaxFd >= 2 * n + 6
  BY <1>6, <1>7
<1>10. MaxFd \in Nat
  OBVIOUS
<1>11. /\ 3 + o + 2 * k + x \in Nat
       /\ 3 + o + 2 * k + x + 5 <= MaxFd + x
  BY <1>9, <1>10, RoomArithmetic
<1> QED
  BY <1>5, <1>8, <1>11

(* Pipes: the four new ends are where the locals say.                      *)
LEMMA PipesLoaded ==
  ASSUME NEW t, NEW p, NEW c, NEW list, Loaded(t, p, list, {}), Len(list) \in Nat,
         Len(list) + 2 <= Cardinality(Services), c # p, c \notin Names(list),
         NEW u, u = Pipe2(Pipe2(t, DownRead(c), DownWrite(c)), UpRead(c), UpWrite(c)),
         NEW down, down = <<FdOf(u, DownRead(c)), FdOf(u, DownWrite(c))>>,
         NEW up, up = <<FdOf(u, UpRead(c)), FdOf(u, UpWrite(c))>>
  PROVE  /\ Cardinality(NewFds(down, up)) = 4 /\ NewFds(down, up) \subseteq Nat
         /\ Loaded(u, p, list, NewFds(down, up)) /\ Piped(u, c, down, up)
<1>1. IsFiniteSet(DOMAIN t) /\ 0..2 \subseteq DOMAIN t
  BY DEF Loaded
<1>2. Cardinality(DOMAIN t) \in Nat /\ Cardinality(DOMAIN t) + 5 <= MaxFd
  <2>1. Cardinality({}) = 0
    BY FS_EmptySet
  <2>2. Cardinality({}) \in 0..4
    BY <2>1
  <2>3. Cardinality(DOMAIN t) \in Nat /\ Cardinality(DOMAIN t) + 5 <= MaxFd + Cardinality({})
    BY <2>2, RoomLeft
  <2> QED
    BY <2>1, <2>3
<1>3. PICK v : v = Pipe2(t, DownRead(c), DownWrite(c))
  OBVIOUS
<1>4. /\ \E a, b : AddsPipe(t, v, a, b, DownRead(c), DownWrite(c))
      /\ 0..4 \subseteq DOMAIN v
  <2>1. Cardinality(DOMAIN t) + 1 <= MaxFd
    BY <1>2
  <2>2. 3 \in Nat /\ 3 - 1 = 2 /\ 3 + 1 = 4
    OBVIOUS
  <2>3. 0..(3 - 1) \subseteq DOMAIN t
    BY <1>1, <2>2
  <2>4. /\ \E a, b : AddsPipe(t, v, a, b, DownRead(c), DownWrite(c))
        /\ 0..(3 + 1) \subseteq DOMAIN v
    BY <1>1, <1>3, <2>1, <2>2, <2>3, Pipe2Facts
  <2> QED
    BY <2>2, <2>4
<1>5. PICK a, b : AddsPipe(t, v, a, b, DownRead(c), DownWrite(c))
  BY <1>4
<1>6. /\ IsFiniteSet(DOMAIN v) /\ Cardinality(DOMAIN v) = Cardinality(DOMAIN t) + 2
  BY <1>5 DEF AddsPipe
<1>7. \E d, e : AddsPipe(v, u, d, e, UpRead(c), UpWrite(c))
  <2>1. Cardinality(DOMAIN v) + 1 <= MaxFd
    BY <1>2, <1>6
  <2>2. 5 \in Nat /\ 5 - 1 = 4
    OBVIOUS
  <2>3. 0..(5 - 1) \subseteq DOMAIN v
    BY <1>4, <2>2
  <2>4. u = Pipe2(v, UpRead(c), UpWrite(c))
    BY <1>3
  <2> QED
    BY <1>6, <2>1, <2>2, <2>3, <2>4, Pipe2Facts
<1>8. PICK d, e : AddsPipe(v, u, d, e, UpRead(c), UpWrite(c))
  BY <1>7
<1>9. /\ a \notin DOMAIN t /\ b \notin DOMAIN t /\ d \notin DOMAIN t /\ e \notin DOMAIN t
      /\ a # b /\ a # d /\ a # e /\ b # d /\ b # e /\ d # e
      /\ {a, b, d, e} \subseteq Nat
      /\ DOMAIN u = DOMAIN t \cup {a, b, d, e}
  BY <1>5, <1>8 DEF AddsPipe
<1>10. /\ u[a] = [end |-> DownRead(c), cloexec |-> TRUE]
       /\ u[b] = [end |-> DownWrite(c), cloexec |-> TRUE]
       /\ u[d] = [end |-> UpRead(c), cloexec |-> TRUE]
       /\ u[e] = [end |-> UpWrite(c), cloexec |-> TRUE]
       /\ \A g \in DOMAIN t : u[g] = t[g]
  <2>1. a \in DOMAIN v /\ b \in DOMAIN v /\ DOMAIN t \subseteq DOMAIN v
    BY <1>5 DEF AddsPipe
  <2>2. \A g \in DOMAIN v : u[g] = v[g]
    BY <1>8 DEF AddsPipe
  <2>3. u[a] = v[a] /\ u[b] = v[b]
    BY <2>1, <2>2
  <2>4. \A g \in DOMAIN t : u[g] = t[g]
    BY <2>1, <2>2, <1>5 DEF AddsPipe
  <2> QED
    BY <2>3, <2>4, <1>5, <1>8 DEF AddsPipe
<1>11. u[a].end = DownRead(c) /\ u[b].end = DownWrite(c)
       /\ u[d].end = UpRead(c) /\ u[e].end = UpWrite(c)
  BY <1>10
<1>12. \A g \in DOMAIN t :
          u[g].end \notin {DownRead(c), DownWrite(c), UpRead(c), UpWrite(c)}
  BY <1>10, LoadedEnds
<1>13. /\ DownRead(c) # DownWrite(c) /\ DownRead(c) # UpRead(c) /\ DownRead(c) # UpWrite(c)
       /\ DownWrite(c) # UpRead(c) /\ DownWrite(c) # UpWrite(c) /\ UpRead(c) # UpWrite(c)
  BY Ends
<1>14. FdOf(u, DownRead(c)) = a
  <2>1. a \in DOMAIN u /\ \A g \in DOMAIN u : u[g].end = DownRead(c) => g = a
    BY <1>9, <1>11, <1>12, <1>13
  <2> QED
    BY <2>1, <1>11 DEF FdOf
<1>15. FdOf(u, DownWrite(c)) = b
  <2>1. b \in DOMAIN u /\ \A g \in DOMAIN u : u[g].end = DownWrite(c) => g = b
    BY <1>9, <1>11, <1>12, <1>13
  <2> QED
    BY <2>1, <1>11 DEF FdOf
<1>16. FdOf(u, UpRead(c)) = d
  <2>1. d \in DOMAIN u /\ \A g \in DOMAIN u : u[g].end = UpRead(c) => g = d
    BY <1>9, <1>11, <1>12, <1>13
  <2> QED
    BY <2>1, <1>11 DEF FdOf
<1>17. FdOf(u, UpWrite(c)) = e
  <2>1. e \in DOMAIN u /\ \A g \in DOMAIN u : u[g].end = UpWrite(c) => g = e
    BY <1>9, <1>11, <1>12, <1>13
  <2> QED
    BY <2>1, <1>11 DEF FdOf
<1>18. down[1] = a /\ down[2] = b /\ up[1] = d /\ up[2] = e
  BY <1>14, <1>15, <1>16, <1>17
<1>19. NewFds(down, up) = {a, b, d, e}
  BY <1>18 DEF NewFds
<1>20. IsFiniteSet({a, b, d, e}) /\ Cardinality({a, b, d, e}) = 4
  BY <1>9, FourCount
<1>21. Piped(u, c, down, up)
  <2>1. {PARENT_READ_FD, PARENT_WRITE_FD} \subseteq DOMAIN u
    <3>1. DOMAIN v \subseteq DOMAIN u
      BY <1>8 DEF AddsPipe
    <3> QED
      BY <3>1, <1>4 DEF PARENT_READ_FD, PARENT_WRITE_FD
  <2> QED
    BY <2>1, <1>10, <1>18 DEF Piped, Kept
<1>22. IsFiniteSet(DOMAIN u) /\ Cardinality(DOMAIN u) = Cardinality(DOMAIN t) + 4
  BY <1>2, <1>6, <1>8 DEF AddsPipe
<1>23. {a, b, d, e} \cap DOMAIN t = {}
  BY <1>9
<1>24. Loaded(u, p, list, {a, b, d, e})
  BY <1>9, <1>10, <1>20, <1>22, <1>23, LoadedMore
<1> QED
  BY <1>9, <1>19, <1>20, <1>21, <1>24

(* u is what spawn_child makes of t in the child: the new ends are gone,   *)
(* two of them stand on 3 and 4.                                           *)
SetUp(t, u, c, N) ==
    /\ DOMAIN u = (DOMAIN t \ N) \cup {3, 4}
    /\ u[3] = [end |-> DownRead(c), cloexec |-> FALSE]
    /\ u[4] = [end |-> UpWrite(c), cloexec |-> FALSE]
    /\ \A g \in DOMAIN t \ (N \cup {3, 4}) : u[g] = t[g]

(* The child's descriptors after spawn_child has set them up.              *)
LEMMA SetupFacts ==
  ASSUME NEW t, NEW p, NEW c, NEW list,
         Loaded(t, p, list, NewFds(p2cfd, c2pfd)), Piped(t, c, p2cfd, c2pfd),
         Len(list) \in Nat, Len(list) + 2 <= Cardinality(Services),
         Cardinality(NewFds(p2cfd, c2pfd)) = 4
  PROVE  SetUp(t, Setup(t), c, NewFds(p2cfd, c2pfd))
<1>1. IsFiniteSet(DOMAIN t) /\ NewFds(p2cfd, c2pfd) \subseteq DOMAIN t
  BY DEF Loaded
<1>2. 0..4 \subseteq DOMAIN t
  <2>1. 0..4 = 0..2 \cup {3, 4}
    OBVIOUS
  <2>2. {3, 4} \subseteq DOMAIN t
    BY DEF Piped, PARENT_READ_FD, PARENT_WRITE_FD
  <2> QED
    BY <2>1, <2>2 DEF Loaded
<1>3. Cardinality(DOMAIN t) \in Nat /\ Cardinality(DOMAIN t) + 1 <= MaxFd
  <2>1. Cardinality(NewFds(p2cfd, c2pfd)) \in 0..4
    OBVIOUS
  <2>2. /\ Cardinality(DOMAIN t) \in Nat
        /\ Cardinality(DOMAIN t) + 5 <= MaxFd + Cardinality(NewFds(p2cfd, c2pfd))
    BY <2>1, RoomLeft
  <2> QED
    BY <2>2
<1>4. /\ t[p2cfd[1]] = [end |-> DownRead(c), cloexec |-> TRUE]
      /\ t[c2pfd[2]] = [end |-> UpWrite(c), cloexec |-> TRUE]
  BY DEF Piped
<1>5. p2cfd[1] \in DOMAIN t
  BY <1>1 DEF NewFds
<1>6. PICK tw : tw = Lowest(t)
  OBVIOUS
<1>7. PICK w1 : w1 = Open(t, tw, UpWrite(c), FALSE)
  OBVIOUS
<1>8. Dup(t, c2pfd[2]) = w1
  BY <1>4, <1>6, <1>7 DEF Dup
<1>9. Adds(t, w1, tw, UpWrite(c), FALSE) /\ tw >= 5 /\ 0..5 \subseteq DOMAIN w1
  <2>1. Cardinality(DOMAIN t) <= MaxFd
    BY <1>3
  <2>2. 5 \in Nat /\ 5 - 1 = 4
    OBVIOUS
  <2>3. 0..(5 - 1) \subseteq DOMAIN t
    BY <1>2, <2>2
  <2> QED
    BY <1>1, <1>6, <1>7, <2>1, <2>2, <2>3, OpenLowest
<1>10. PICK tr : tr = Lowest(w1)
  OBVIOUS
<1>11. PICK w2 : w2 = Open(w1, tr, DownRead(c), FALSE)
  OBVIOUS
<1>12. Dup(w1, p2cfd[1]) = w2
  <2>1. w1[p2cfd[1]] = t[p2cfd[1]]
    BY <1>5, <1>9 DEF Adds
  <2>2. w1[p2cfd[1]].end = DownRead(c)
    BY <2>1, <1>4
  <2> QED
    BY <2>2, <1>10, <1>11 DEF Dup
<1>13. Adds(w1, w2, tr, DownRead(c), FALSE) /\ tr >= 6
  <2>1. IsFiniteSet(DOMAIN w1) /\ Cardinality(DOMAIN w1) <= MaxFd
    BY <1>3, <1>9 DEF Adds
  <2>2. 6 \in Nat /\ 6 - 1 = 5
    OBVIOUS
  <2>3. 0..(6 - 1) \subseteq DOMAIN w1
    BY <1>9, <2>2
  <2> QED
    BY <1>10, <1>11, <2>1, <2>2, <2>3, OpenLowest
<1>14. PICK N : N = NewFds(p2cfd, c2pfd)
  OBVIOUS
<1>15. PICK w3 : w3 = Close(w2, N)
  OBVIOUS
<1>16. PICK w4 : w4 = Dup2(w3, tw, 4)
  OBVIOUS
<1>17. PICK w5 : w5 = Dup2(w4, tr, 3)
  OBVIOUS
<1>18. Setup(t) = Close(w5, {tr, tw})
  BY <1>6, <1>8, <1>10, <1>12, <1>14, <1>15, <1>16, <1>17
     DEF Setup, NewFds, PARENT_READ_FD, PARENT_WRITE_FD
<1>19. /\ tw \notin DOMAIN t /\ tr \notin DOMAIN t /\ tw # tr /\ N \subseteq DOMAIN t
       /\ tw \notin {3, 4} /\ tr \notin {3, 4}
  BY <1>1, <1>2, <1>9, <1>13, <1>14 DEF Adds
<1>20. /\ DOMAIN w2 = DOMAIN t \cup {tw, tr}
       /\ w2[tw].end = UpWrite(c) /\ w2[tr].end = DownRead(c)
       /\ \A g \in DOMAIN t : w2[g] = t[g]
  BY <1>9, <1>13 DEF Adds
<1>21. /\ DOMAIN w3 = DOMAIN w2 \ N
       /\ \A g \in DOMAIN w2 \ N : w3[g] = w2[g]
  BY <1>15 DEF Close
<1>22. /\ DOMAIN w3 = (DOMAIN t \ N) \cup {tw, tr}
       /\ w3[tw].end = UpWrite(c) /\ w3[tr].end = DownRead(c)
       /\ \A g \in DOMAIN t \ N : w3[g] = t[g]
  BY <1>19, <1>20, <1>21
<1>23. /\ DOMAIN w4 = DOMAIN w3 \cup {4}
       /\ w4[4] = [end |-> UpWrite(c), cloexec |-> FALSE]
       /\ \A g \in DOMAIN w3 : g # 4 => w4[g] = w3[g]
  BY <1>16, <1>22 DEF Dup2, Open
<1>24. w4[tr].end = DownRead(c)
  BY <1>19, <1>22, <1>23
<1>25. /\ DOMAIN w5 = DOMAIN w4 \cup {3}
       /\ w5[3] = [end |-> DownRead(c), cloexec |-> FALSE]
       /\ \A g \in DOMAIN w4 : g # 3 => w5[g] = w4[g]
  BY <1>17, <1>24 DEF Dup2, Open
<1>26. /\ DOMAIN w5 = (DOMAIN t \ N) \cup {tw, tr, 3, 4}
       /\ w5[4] = [end |-> UpWrite(c), cloexec |-> FALSE]
       /\ \A g \in DOMAIN t \ (N \cup {3, 4}) : w5[g] = t[g]
  BY <1>22, <1>23, <1>25
<1>27. PICK w6 : w6 = Close(w5, {tr, tw})
  OBVIOUS
<1>28. /\ DOMAIN w6 = DOMAIN w5 \ {tr, tw}
       /\ \A g \in DOMAIN w5 \ {tr, tw} : w6[g] = w5[g]
  BY <1>27 DEF Close
<1>29. DOMAIN w6 = (DOMAIN t \ N) \cup {3, 4}
  BY <1>19, <1>26, <1>28
<1>30. /\ w6[3] = [end |-> DownRead(c), cloexec |-> FALSE]
       /\ w6[4] = [end |-> UpWrite(c), cloexec |-> FALSE]
       /\ \A g \in DOMAIN t \ (N \cup {3, 4}) : w6[g] = t[g]
  BY <1>19, <1>25, <1>26, <1>28
<1>31. SetUp(t, w6, c, N)
  BY <1>29, <1>30 DEF SetUp
<1> QED
  BY <1>14, <1>18, <1>27, <1>31

(* ChildExec: of all that the child inherited only 0, 1 and 2 and its own  *)
(* two ends are left, on 3 and 4.                                          *)
LEMMA ExecLoaded ==
  ASSUME NEW t, NEW p, NEW c, c # Manager, NEW list,
         Loaded(t, p, list, NewFds(p2cfd, c2pfd)), Piped(t, c, p2cfd, c2pfd),
         Len(list) \in Nat, Len(list) + 2 <= Cardinality(Services),
         Cardinality(NewFds(p2cfd, c2pfd)) = 4
  PROVE  Loaded(Exec(Setup(t)), c, <<>>, {})
<1>1. PICK N : N = NewFds(p2cfd, c2pfd)
  OBVIOUS
<1>2. PICK v : v = Setup(t)
  OBVIOUS
<1>3. /\ DOMAIN v = (DOMAIN t \ N) \cup {3, 4}
      /\ v[3] = [end |-> DownRead(c), cloexec |-> FALSE]
      /\ v[4] = [end |-> UpWrite(c), cloexec |-> FALSE]
      /\ \A g \in DOMAIN t \ (N \cup {3, 4}) : v[g] = t[g]
  <2>1. SetUp(t, v, c, N)
    BY <1>1, <1>2, SetupFacts
  <2> QED
    BY <2>1 DEF SetUp
<1>4. PICK C : C = {g \in DOMAIN v : v[g].cloexec}
  OBVIOUS
<1>5. PICK u : u = Close(v, C)
  OBVIOUS
<1>6. Exec(Setup(t)) = u
  BY <1>2, <1>4, <1>5 DEF Exec
<1>7. DOMAIN u = DOMAIN v \ C /\ \A g \in DOMAIN v \ C : u[g] = v[g]
  BY <1>5 DEF Close
<1>8. /\ DOMAIN t = 0..2 \cup Own(p) \cup KidFds(list) \cup N
      /\ N \cap 0..2 = {}
  BY <1>1 DEF Loaded
<1>9. ASSUME NEW g \in 0..2 PROVE g \in DOMAIN v \ C /\ u[g] = [end |-> Std, cloexec |-> FALSE]
  <2>1. g \in DOMAIN t \ (N \cup {3, 4})
    BY <1>8
  <2>2. v[g] = [end |-> Std, cloexec |-> FALSE]
    BY <1>3, <2>1 DEF Loaded, StdEnds
  <2>3. g \in DOMAIN v
    BY <1>3, <2>1
  <2>4. ~ v[g].cloexec
    BY <2>2
  <2> QED
    BY <1>4, <1>7, <2>2, <2>3, <2>4
<1>10. 3 \in DOMAIN v \ C /\ 4 \in DOMAIN v \ C
  <2>1. ~ v[3].cloexec /\ ~ v[4].cloexec
    BY <1>3
  <2> QED
    BY <2>1, <1>3, <1>4
<1>11. ASSUME NEW g \in DOMAIN v, g \notin 0..2, g \notin {3, 4} PROVE g \in C
  <2>1. g \in DOMAIN t \ (N \cup {3, 4})
    BY <1>3, <1>11
  <2>2. g \in KidFds(list)
    BY <1>8, <1>11, <2>1 DEF Own, PARENT_READ_FD, PARENT_WRITE_FD
  <2>3. PICK i \in 1..Len(list) : g \in {list[i].readfd, list[i].writefd}
    BY <2>2 DEF KidFds
  <2>4. /\ t[list[i].readfd] = [end |-> UpRead(list[i].name), cloexec |-> TRUE]
        /\ t[list[i].writefd] = [end |-> DownWrite(list[i].name), cloexec |-> TRUE]
    BY DEF Loaded, KidEnds
  <2>5. t[g].cloexec
    <3>1. CASE g = list[i].readfd
      BY <3>1, <2>4
    <3>2. CASE g = list[i].writefd
      BY <3>2, <2>4
    <3> QED
      BY <3>1, <3>2, <2>3
  <2> QED
    BY <1>3, <1>4, <2>1, <2>5
<1>12. DOMAIN u = 0..2 \cup {3, 4}
  BY <1>7, <1>9, <1>10, <1>11
<1>13. StdEnds(u)
  BY <1>9 DEF StdEnds
<1>14. OwnEnds(u, c)
  <2>1. u[3].end = DownRead(c) /\ u[4].end = UpWrite(c)
    BY <1>3, <1>7, <1>10
  <2> QED
    BY <2>1 DEF OwnEnds, PARENT_READ_FD, PARENT_WRITE_FD
<1>15. Own(c) = {3, 4} /\ Cardinality(Own(c)) = 2
  BY OwnCount DEF Own, PARENT_READ_FD, PARENT_WRITE_FD
<1>16. KidFds(<<>>) = {} /\ Len(<<>>) = 0 /\ KidEnds(u, <<>>)
  BY DEF KidFds, KidEnds
<1>17. IsFiniteSet(DOMAIN u) /\ Cardinality(DOMAIN u) = 5
  <2>1. DOMAIN u = 0..4
    BY <1>12
  <2>2. IsFiniteSet(0..4) /\ Cardinality(0..4) = 5
    <3>1. PICK a \in Int, b \in Int : a = 0 /\ b = 4
      OBVIOUS
    <3>2. IsFiniteSet(a..b) /\ Cardinality(a..b) = IF a > b THEN 0 ELSE b - a + 1
      BY FS_Interval
    <3> QED
      BY <3>1, <3>2
  <2> QED
    BY <2>1, <2>2
<1>18. Cardinality({}) = 0
  BY FS_EmptySet
<1> QED
  BY <1>6, <1>12, <1>13, <1>14, <1>15, <1>16, <1>17, <1>18 DEF Loaded

-----------------------------------------------------------------------------
(* What the parts of the invariant say about one process.                  *)
LEMMA Lists ==
  ASSUME Typed, NEW p \in Services
  PROVE  /\ childlist[p] \in Seq(Struct) /\ Len(childlist[p]) \in Nat
         /\ \A i \in 1..Len(childlist[p]) : childlist[p][i].name \in Services
<1>1. childlist[p] \in Seq(Struct)
  BY DEF Typed
<1>2. \A i \in 1..Len(childlist[p]) : childlist[p][i] \in Struct
  BY <1>1
<1>3. \A k \in Struct : k.name \in Services
  BY DEF Struct
<1>4. Len(childlist[p]) \in Nat
  BY <1>1
<1> QED
  BY <1>1, <1>2, <1>3, <1>4

(* Nothing is under way exactly when all that run are idle.                *)
LEMMA CalmQuiet ==
  ASSUME Phase, Calm
  PROVE  Quiet
<1>1. ASSUME NEW p \in Services, NEW i, Death(p, i) PROVE FALSE
  BY <1>1 DEF Death, Calm, Running
<1>2. ASSUME NEW p \in Services, NEW c \in Services, Birth(p, c) PROVE FALSE
  BY <1>2 DEF Birth, Before, Between, Calm, Running
<1> QED
  BY <1>1, <1>2 DEF Phase

(* Who makes a child, who is one being made, who reaps.                    *)
LEMMA BirthOf ==
  ASSUME Phase, NEW p \in Services, pc[p] \in {"fork", "close", "await"}
  PROVE  pc[Manager] # "none" /\ \E c \in Services : Birth(p, c)
<1>1. ~ Quiet
  BY DEF Quiet
<1>2. ASSUME NEW q \in Services, NEW i, Death(q, i) PROVE FALSE
  BY <1>2 DEF Death
<1>3. ASSUME NEW q \in Services, NEW c \in Services, Birth(q, c) PROVE p = q
  BY <1>3 DEF Birth, Before, Between
<1> QED
  BY <1>1, <1>2, <1>3 DEF Phase

(* A process between fork and exec is a child being made.                  *)
LEMMA BirthTo ==
  ASSUME Phase, NEW c \in Services, pc[c] = "setup"
  PROVE  pc[Manager] # "none" /\ \E p \in Services : Birth(p, c)
<1>1. ~ Quiet
  BY DEF Quiet
<1>2. ASSUME NEW q \in Services, NEW i, Death(q, i) PROVE FALSE
  BY <1>2 DEF Death
<1>3. ASSUME NEW p \in Services, NEW d \in Services, Birth(p, d) PROVE c = d
  BY <1>3 DEF Birth, Before, Between
<1> QED
  BY <1>1, <1>2, <1>3 DEF Phase

(* A process that reaps has told one child to go.                          *)
LEMMA DeathOf ==
  ASSUME Phase, NEW p \in Services, pc[p] = "reap"
  PROVE  pc[Manager] # "none" /\ \E i \in Nat : Death(p, i)
<1>1. ~ Quiet
  BY DEF Quiet
<1>2. ASSUME NEW q \in Services, NEW i, Death(q, i) PROVE p = q
  BY <1>2 DEF Death
<1>3. ASSUME NEW q \in Services, NEW c \in Services, Birth(q, c) PROVE FALSE
  BY <1>3 DEF Birth, Before, Between
<1> QED
  BY <1>1, <1>2, <1>3 DEF Phase

(* A service that does not run is nobody's child, and leaves room for it.  *)
LEMMA RoomForOne ==
  ASSUME IInv, Quiet, pc[Manager] # "none", NEW p \in Services, pc[p] = "idle",
         NEW c \in Services, pc[c] = "none"
  PROVE  /\ c # p /\ c # Manager
         /\ \A q \in Running : c \notin Names(childlist[q])
         /\ Len(childlist[p]) + 2 <= Cardinality(Services)
<1>1. c # p /\ c # Manager /\ p \in Running /\ c \notin Running
  BY DEF Running
<1>2. \A q \in Running : Names(childlist[q]) \subseteq Running
  <2>1. \A q \in Running : pc[q] # "reap"
    BY DEF Quiet, Running
  <2> QED
    BY <2>1 DEF IInv, Attached
<1>3. \A q \in Running : c \notin Names(childlist[q])
  BY <1>1, <1>2
<1>4. PICK k \in Nat : k = Len(childlist[p])
  BY Lists DEF IInv
<1>5. PICK f : f = [i \in 1..k |-> childlist[p][i].name]
  OBVIOUS
<1>6. f \in Injection(1..k, Services \ {p, c})
  <2>1. ASSUME NEW i \in 1..k PROVE f[i] \in Services \ {p, c}
    <3>1. f[i] \in Names(childlist[p])
      BY <1>4, <1>5 DEF Names
    <3>2. f[i] \in Running /\ f[i] # c
      BY <3>1, <1>1, <1>2, <1>3
    <3>3. f[i] # p
      BY <1>1, <1>4, <1>5 DEF IInv, Family
    <3> QED
      BY <3>2, <3>3 DEF Running
  <2>2. f \in [1..k -> Services \ {p, c}]
    BY <1>5, <2>1
  <2>3. ASSUME NEW i \in 1..k, NEW j \in 1..k, f[i] = f[j] PROVE i = j
    <3>1. childlist[p][i].name = childlist[p][j].name
      BY <1>5, <2>3
    <3> QED
      BY <3>1, <1>1, <1>4 DEF IInv, Family
  <2> QED
    BY <2>2, <2>3 DEF Injection, IsInjective
<1>7. /\ IsFiniteSet(1..k) /\ Cardinality(1..k) = k
  <2>1. 1 \in Int /\ k \in Int
    OBVIOUS
  <2>2. /\ IsFiniteSet(1..k) /\ Cardinality(1..k) = IF 1 > k THEN 0 ELSE k - 1 + 1
    BY <2>1, FS_Interval
  <2> QED
    BY <2>2
<1>8. /\ IsFiniteSet(Services \ {p, c})
      /\ Cardinality(Services \ {p, c}) = Cardinality(Services) - 2
  <2>1. IsFiniteSet({p, c}) /\ Cardinality({p, c}) = 2
    BY <1>1, PairCount
  <2>2. Services \cap {p, c} = {p, c}
    OBVIOUS
  <2> QED
    <3>1. /\ IsFiniteSet(Services \ {p, c})
          /\ Cardinality(Services \ {p, c}) = Cardinality(Services)
                                                 - Cardinality(Services \cap {p, c})
      BY FS_Difference
    <3> QED
      BY <3>1, <2>1, <2>2
<1>9. k <= Cardinality(Services) - 2
  BY <1>6, <1>7, <1>8, FS_Injection
<1>10. Cardinality(Services) \in Nat
  BY FS_CardinalityType
<1>11. k + 2 <= Cardinality(Services)
  BY <1>9, <1>10
<1> QED
  BY <1>1, <1>3, <1>4, <1>11

(* Nobody is disturbed by what others do.                                  *)
LEMMA SettledFrame ==
  ASSUME NEW q, Settled(q), table'[q] = table[q], childlist'[q] = childlist[q],
         pc'[q] \in {"idle", "reap"} => pc[q] \in {"idle", "reap"}
  PROVE  Settled(q)'
BY DEF Settled

(* Who has a service as a child is its one parent.                         *)
LEMMA OneParent ==
  ASSUME Family, NEW p \in Running, NEW i \in 1..Len(childlist[p]),
         NEW q \in Running, NEW j \in 1..Len(childlist[q]),
         childlist[p][i].name = childlist[q][j].name
  PROVE  p = q /\ i = j
BY DEF Family

(* The family is no worse for some leaving it.                             *)
LEMMA FamilyFrame ==
  ASSUME Family, Running' \subseteq Running,
         \A q \in Running' : childlist'[q] = childlist[q]
  PROVE  Family'
<1> SUFFICES ASSUME NEW p \in Running', NEW i \in 1..Len(childlist'[p])
             PROVE  /\ childlist'[p][i].name \notin {Manager, p}
                    /\ \A q \in Running' : \A j \in 1..Len(childlist'[q]) :
                          childlist'[p][i].name = childlist'[q][j].name => p = q /\ i = j
  BY DEF Family
<1>1. p \in Running /\ childlist'[p] = childlist[p]
  OBVIOUS
<1>2. childlist[p][i].name \notin {Manager, p}
  BY <1>1 DEF Family
<1>3. ASSUME NEW q \in Running', NEW j \in 1..Len(childlist'[q]),
             childlist'[p][i].name = childlist'[q][j].name
      PROVE  p = q /\ i = j
  <2>1. q \in Running /\ childlist'[q] = childlist[q]
    OBVIOUS
  <2> QED
    BY <1>1, <2>1, <1>3 DEF Family
<1> QED
  BY <1>1, <1>2, <1>3

-----------------------------------------------------------------------------
(* Init establishes the invariant.                                         *)
LEMMA InitInv ==
  ASSUME Init
  PROVE  IInv
<1>1. Running = {}
  BY DEF Init, Running
<1>2. \A S : <<>> \in Seq(S)
  OBVIOUS
<1>3. Typed
  BY <1>2 DEF Init, Typed
<1>4. Family /\ Attached
  BY <1>1 DEF Family, Attached, Init
<1>5. Phase
  BY DEF Init, Phase, Quiet
<1>6. \A p \in Services : Settled(p)
  BY DEF Init, Settled
<1> QED
  BY <1>3, <1>4, <1>5, <1>6 DEF IInv

(* The Manager begins with its standard streams and no services.           *)
LEMMA StartManagerInv ==
  ASSUME IInv, StartManager
  PROVE  IInv'
<1>1. /\ Running = {} /\ pc' = [pc EXCEPT ![Manager] = "idle"]
      /\ table' = [table EXCEPT ![Manager] = [fd \in 0..2 |-> [end |-> Std, cloexec |-> FALSE]]]
      /\ childlist' = [p \in Services |-> <<>>]
      /\ p2cfd' = p2cfd /\ c2pfd' = c2pfd /\ new' = new
  BY DEF StartManager
<1>2. \A p \in Services : pc[p] = "none"
  BY <1>1 DEF Running
<1>3. new = <<>>
  <2>1. Calm
    BY <1>1 DEF Calm
  <2> QED
    BY <2>1, CalmQuiet DEF IInv, Quiet
<1>4. /\ pc'[Manager] = "idle" /\ \A p \in Services \ {Manager} : pc'[p] = "none"
      /\ pc' \in [Services -> {"none", "idle", "fork", "close", "await", "setup", "reap"}]
  BY <1>1, <1>2 DEF IInv, Typed
<1>5. Running' = {Manager}
  BY <1>4 DEF Running
<1>6. \A p \in Services : childlist'[p] = <<>> /\ Len(childlist'[p]) = 0
  BY <1>1
<1>7. Typed'
  <2>1. childlist' \in [Services -> Seq(Struct)]
    BY <1>1 DEF Struct
  <2>2. table' = [p \in Services |-> table'[p]]
    BY <1>1 DEF IInv, Typed
  <2> QED
    BY <1>1, <1>4, <2>1, <2>2 DEF IInv, Typed, Struct
<1>8. Family'
  BY <1>5, <1>6 DEF Family
<1>9. Attached'
  BY <1>5, <1>6 DEF Attached, Names
<1>10. Phase'
  BY <1>1, <1>3, <1>4 DEF Phase, Quiet
<1>11. ASSUME NEW p \in Services PROVE Settled(p)'
  <2>1. CASE p # Manager
    BY <2>1, <1>4 DEF Settled
  <2>2. CASE p = Manager
    <3>1. PICK t : t = [fd \in 0..2 |-> [end |-> Std, cloexec |-> FALSE]]
      OBVIOUS
    <3>2. table'[p] = t
      BY <2>2, <3>1, <1>1 DEF IInv, Typed
    <3>3. DOMAIN t = 0..2 /\ StdEnds(t)
      BY <3>1 DEF StdEnds
    <3>4. Own(p) = {} /\ OwnEnds(t, p)
      BY <2>2 DEF Own, OwnEnds
    <3>5. KidFds(<<>>) = {} /\ Len(<<>>) = 0 /\ KidEnds(t, <<>>)
      BY DEF KidFds, KidEnds
    <3>6. Cardinality({}) = 0
      BY FS_EmptySet
    <3>7. IsFiniteSet(0..2) /\ Cardinality(0..2) = 3
      <4>1. PICK a \in Int, b \in Int : a = 0 /\ b = 2
        OBVIOUS
      <4>2. IsFiniteSet(a..b) /\ Cardinality(a..b) = IF a > b THEN 0 ELSE b - a + 1
        BY FS_Interval
      <4> QED
        BY <4>1, <4>2
    <3>8. Loaded(t, p, <<>>, {})
      BY <3>3, <3>4, <3>5, <3>6, <3>7 DEF Loaded
    <3> QED
      BY <3>2, <3>8, <1>6 DEF Settled
  <2> QED
    BY <2>1, <2>2
<1> QED
  BY <1>7, <1>8, <1>9, <1>10, <1>11 DEF IInv

(* pipe2 twice: the four new ends are where the locals say.                *)
LEMMA PipesInv ==
  ASSUME IInv, NEW p \in Services, NEW c \in Services, Pipes(p, c)
  PROVE  IInv'
<1>1. PICK u : u = Pipe2(Pipe2(table[p], DownRead(c), DownWrite(c)), UpRead(c), UpWrite(c))
  OBVIOUS
<1>2. /\ Manager \in Running /\ Calm /\ pc[p] = "idle" /\ pc[c] = "none"
      /\ table' = [table EXCEPT ![p] = u]
      /\ p2cfd' = <<FdOf(u, DownRead(c)), FdOf(u, DownWrite(c))>>
      /\ c2pfd' = <<FdOf(u, UpRead(c)), FdOf(u, UpWrite(c))>>
      /\ new' = <<c>> /\ pc' = [pc EXCEPT ![p] = "fork"] /\ childlist' = childlist
  BY <1>1 DEF Pipes
<1>3. Quiet /\ pc[Manager] # "none"
  BY <1>2, CalmQuiet DEF IInv, Running
<1>4. /\ c # p /\ c # Manager
      /\ \A q \in Running : c \notin Names(childlist[q])
      /\ Len(childlist[p]) + 2 <= Cardinality(Services)
  BY <1>2, <1>3, RoomForOne
<1>5. Loaded(table[p], p, childlist[p], {})
  BY <1>2 DEF IInv, Settled
<1>6. Len(childlist[p]) \in Nat
  BY Lists DEF IInv
<1>7. c \notin Names(childlist[p])
  BY <1>2, <1>4 DEF Running
<1>8. PICK down, up : /\ down = <<FdOf(u, DownRead(c)), FdOf(u, DownWrite(c))>>
                      /\ up = <<FdOf(u, UpRead(c)), FdOf(u, UpWrite(c))>>
  OBVIOUS
<1>9. /\ Cardinality(NewFds(down, up)) = 4 /\ NewFds(down, up) \subseteq Nat
      /\ Loaded(u, p, childlist[p], NewFds(down, up)) /\ Piped(u, c, down, up)
  BY <1>1, <1>4, <1>5, <1>6, <1>7, <1>8, PipesLoaded
<1>10. p2cfd' = down /\ c2pfd' = up /\ Len(down) = 2 /\ Len(up) = 2
  BY <1>2, <1>8
<1>11. down \in Seq(Nat) /\ up \in Seq(Nat)
  <2>1. {down[1], down[2], up[1], up[2]} \subseteq Nat
    BY <1>9 DEF NewFds
  <2> QED
    BY <2>1, <1>8
<1>12. /\ pc'[p] = "fork" /\ \A q \in Services \ {p} : pc'[q] = pc[q]
       /\ pc' \in [Services -> {"none", "idle", "fork", "close", "await", "setup", "reap"}]
  BY <1>2 DEF IInv, Typed
<1>13. table'[p] = u /\ \A q \in Services \ {p} : table'[q] = table[q]
  BY <1>2 DEF IInv, Typed
<1>14. Running' = Running
  BY <1>2, <1>12 DEF Running
<1>15. Typed'
  <2>1. table' = [q \in Services |-> table'[q]]
    BY <1>2 DEF IInv, Typed
  <2>2. new' \in Seq(Services)
    BY <1>2
  <2> QED
    BY <1>2, <1>10, <1>11, <1>12, <2>1, <2>2 DEF IInv, Typed, Struct
<1>16. Family'
  BY <1>2, <1>14, FamilyFrame DEF IInv
<1>17. Attached'
  <2>1. \A d \in Running \ {Manager} : \E q \in Running : d \in Names(childlist[q])
    BY <1>3 DEF IInv, Attached, Quiet
  <2>2. \A q \in Running : Names(childlist[q]) \subseteq Running
    BY <1>3 DEF IInv, Attached, Quiet, Running
  <2> QED
    BY <2>1, <2>2, <1>2, <1>14 DEF Attached
<1>18. Birth(p, c)'
  <2>1. Before(p, c)'
    BY <1>2, <1>4, <1>9, <1>10, <1>12, <1>13 DEF Before
  <2>2. \A q \in Services \ {p, c} : pc'[q] \in {"none", "idle"}
    BY <1>3, <1>12 DEF Quiet
  <2> QED
    BY <2>1, <2>2, <1>2, <1>4, <1>9, <1>10, <1>14 DEF Birth
<1>19. Phase'
  <2>1. pc'[Manager] # "none"
    BY <1>3, <1>12
  <2> QED
    BY <2>1, <1>18 DEF Phase
<1>20. ASSUME NEW q \in Services PROVE Settled(q)'
  <2>1. CASE q = p
    BY <2>1, <1>12 DEF Settled
  <2>2. CASE q # p
    BY <2>2, <1>2, <1>12, <1>13, SettledFrame DEF IInv
  <2> QED
    BY <2>1, <2>2
<1> QED
  BY <1>15, <1>16, <1>17, <1>19, <1>20 DEF IInv

(* fork: the child has the parent's table.                                 *)
LEMMA ForkInv ==
  ASSUME IInv, NEW p \in Services, Fork(p)
  PROVE  IInv'
<1>1. pc[p] = "fork"
  BY DEF Fork
<1>2. PICK c \in Services : Birth(p, c) /\ pc[Manager] # "none"
  BY <1>1, BirthOf DEF IInv
<1>3. Head(new) = c
  BY <1>2 DEF Birth
<1>4. /\ table' = [table EXCEPT ![c] = table[p]]
      /\ childlist' = [childlist EXCEPT ![c] = <<>>]
      /\ pc' = [pc EXCEPT ![p] = "close", ![c] = "setup"]
      /\ p2cfd' = p2cfd /\ c2pfd' = c2pfd /\ new' = new
  BY <1>3 DEF Fork
<1>5. p # c /\ c # Manager /\ new = <<c>>
  BY <1>2 DEF Birth
<1>6. Before(p, c)
  BY <1>1, <1>2 DEF Birth, Between
<1>7. /\ pc'[p] = "close" /\ pc'[c] = "setup"
      /\ \A q \in Services \ {p, c} : pc'[q] = pc[q]
      /\ pc' \in [Services -> {"none", "idle", "fork", "close", "await", "setup", "reap"}]
  BY <1>4, <1>5 DEF IInv, Typed
<1>8. /\ table'[c] = table[p] /\ \A q \in Services \ {c} : table'[q] = table[q]
      /\ table' = [q \in Services |-> table'[q]]
  BY <1>4 DEF IInv, Typed
<1>9. /\ childlist'[c] = <<>> /\ \A q \in Services \ {c} : childlist'[q] = childlist[q]
      /\ childlist' \in [Services -> Seq(Struct)]
  <2>1. <<>> \in Seq(Struct)
    OBVIOUS
  <2> QED
    BY <1>4, <2>1 DEF IInv, Typed
<1>10. pc[c] = "none"
  BY <1>6 DEF Before
<1>11. Running' = Running \cup {c} /\ c \notin Running /\ p \in Running
  BY <1>1, <1>7, <1>10 DEF Running
<1>12. Len(childlist'[c]) = 0 /\ Names(childlist'[c]) = {}
  BY <1>9 DEF Names
<1>13. Typed'
  BY <1>4, <1>7, <1>8, <1>9 DEF IInv, Typed, Struct
<1>14. Family'
  <2> SUFFICES ASSUME NEW q \in Running', NEW i \in 1..Len(childlist'[q])
               PROVE  /\ childlist'[q][i].name \notin {Manager, q}
                      /\ \A r \in Running' : \A j \in 1..Len(childlist'[r]) :
                            childlist'[q][i].name = childlist'[r][j].name => q = r /\ i = j
    BY DEF Family
  <2>1. q \in Running /\ q \in Services \ {c} /\ childlist'[q] = childlist[q]
    BY <1>9, <1>11, <1>12 DEF Running
  <2>2. ASSUME NEW r \in Running', NEW j \in 1..Len(childlist'[r]),
               childlist'[q][i].name = childlist'[r][j].name
        PROVE  q = r /\ i = j
    <3>1. r \in Running /\ r \in Services \ {c} /\ childlist'[r] = childlist[r]
      BY <1>9, <1>11, <1>12 DEF Running
    <3> QED
      BY <2>1, <2>2, <3>1 DEF IInv, Family
  <2>3. childlist[q][i].name \notin {Manager, q}
    BY <2>1 DEF IInv, Family
  <2> QED
    BY <2>1, <2>2, <2>3
<1>15. Attached'
  <2>1. ASSUME NEW d \in Running' \ {Manager}
        PROVE  new' = <<d>> \/ \E q \in Running' : d \in Names(childlist'[q])
    <3>1. CASE d = c
      BY <3>1, <1>4, <1>5
    <3>2. CASE d # c
      <4>1. d \in Running \ {Manager} /\ new # <<d>>
        BY <3>2, <1>5, <1>11
      <4>2. PICK q \in Running : d \in Names(childlist[q])
        BY <4>1, <1>2 DEF IInv, Attached
      <4>3. q \in Running' /\ childlist'[q] = childlist[q]
        BY <1>9, <1>11 DEF Running
      <4> QED
        BY <4>2, <4>3
    <3> QED
      BY <3>1, <3>2
  <2>2. ASSUME NEW q \in Running', pc'[q] # "reap"
        PROVE  Names(childlist'[q]) \subseteq Running'
    <3>1. CASE q = c
      BY <3>1, <1>12
    <3>2. CASE q # c
      <4>1. q \in Running /\ childlist'[q] = childlist[q]
        BY <3>2, <1>9, <1>11 DEF Running
      <4>2. pc[q] # "reap"
        BY <4>1, <2>2, <3>2, <1>1, <1>7 DEF Running
      <4>3. Names(childlist[q]) \subseteq Running
        BY <4>1, <4>2, <1>2 DEF IInv, Attached
      <4> QED
        BY <4>1, <4>3, <1>11
    <3> QED
      BY <3>1, <3>2
  <2> QED
    BY <2>1, <2>2 DEF Attached
<1>16. Birth(p, c)'
  <2>1. Between(p, c)'
    <3>1. /\ Loaded(table[p], p, childlist[p], NewFds(p2cfd, c2pfd))
          /\ Piped(table[p], c, p2cfd, c2pfd)
      BY <1>6 DEF Before
    <3>2. /\ Loaded(table'[p], p, childlist'[p], NewFds(p2cfd', c2pfd'))
          /\ Piped(table'[p], c, p2cfd', c2pfd')
      BY <3>1, <1>4, <1>5, <1>8, <1>9
    <3>3. /\ Loaded(table'[c], p, childlist'[p], NewFds(p2cfd', c2pfd'))
          /\ Piped(table'[c], c, p2cfd', c2pfd')
      BY <3>1, <1>4, <1>5, <1>8, <1>9
    <3>4. childlist'[c] = <<>> /\ pc'[p] = "close" /\ pc'[c] = "setup"
      BY <1>7, <1>9
    <3> QED
      BY <3>2, <3>3, <3>4 DEF Between
  <2>2. \A q \in Running' : c \notin Names(childlist'[q])
    BY <1>2, <1>9, <1>11, <1>12 DEF Birth, Running
  <2>3. \A q \in Services \ {p, c} : pc'[q] \in {"none", "idle"}
    BY <1>2, <1>7 DEF Birth
  <2>4. childlist'[p] = childlist[p]
    BY <1>5, <1>9
  <2> QED
    BY <2>1, <2>2, <2>3, <2>4, <1>2, <1>4 DEF Birth
<1>17. Phase'
  <2>1. pc'[Manager] # "none"
    BY <1>2, <1>5, <1>7
  <2> QED
    BY <2>1, <1>16 DEF Phase
<1>18. ASSUME NEW q \in Services PROVE Settled(q)'
  <2>1. CASE q \in {p, c}
    BY <2>1, <1>7 DEF Settled
  <2>2. CASE q \notin {p, c}
    BY <2>2, <1>7, <1>8, <1>9, SettledFrame DEF IInv
  <2> QED
    BY <2>1, <2>2
<1> QED
  BY <1>13, <1>14, <1>15, <1>17, <1>18 DEF IInv

(* When only pc and one table change, and nobody comes or goes, the family *)
(* is what it was.                                                         *)
LEMMA SameFamily ==
  ASSUME IInv, childlist' = childlist, new' = new,
         \A q \in Services : (pc'[q] = "none" <=> pc[q] = "none")
                             /\ (pc'[q] = "reap" <=> pc[q] = "reap")
  PROVE  Family' /\ Attached' /\ Running' = Running
<1>1. Running' = Running
  BY DEF Running
<1>2. Family'
  BY <1>1, FamilyFrame DEF IInv
<1>3. Attached'
  <2>1. pc'[Manager] # "none" <=> pc[Manager] # "none"
    OBVIOUS
  <2>2. \A q \in Running : pc'[q] # "reap" <=> pc[q] # "reap"
    BY DEF Running
  <2> QED
    BY <1>1, <2>1, <2>2 DEF IInv, Attached
<1> QED
  BY <1>1, <1>2, <1>3

(* The child sets its descriptors up and becomes the new service.          *)
LEMMA ChildExecInv ==
  ASSUME IInv, NEW c \in Services, ChildExec(c)
  PROVE  IInv'
<1>1. /\ pc[c] = "setup"
      /\ table' = [table EXCEPT ![c] = Exec(Setup(table[c]))]
      /\ pc' = [pc EXCEPT ![c] = "idle"]
      /\ childlist' = childlist /\ p2cfd' = p2cfd /\ c2pfd' = c2pfd /\ new' = new
  BY DEF ChildExec
<1>2. PICK p \in Services : Birth(p, c) /\ pc[Manager] # "none"
  BY <1>1, BirthTo DEF IInv
<1>3. /\ p # c /\ c # Manager /\ Cardinality(NewFds(p2cfd, c2pfd)) = 4
      /\ Len(childlist[p]) + 2 <= Cardinality(Services)
  BY <1>2 DEF Birth
<1>4. Between(p, c)
  BY <1>1, <1>2 DEF Birth, Before
<1>5. /\ Loaded(table[c], p, childlist[p], NewFds(p2cfd, c2pfd))
      /\ Piped(table[c], c, p2cfd, c2pfd) /\ childlist[c] = <<>>
  BY <1>1, <1>4 DEF Between
<1>6. Loaded(Exec(Setup(table[c])), c, <<>>, {})
  <2>1. Len(childlist[p]) \in Nat
    BY Lists DEF IInv
  <2> QED
    BY <2>1, <1>3, <1>5, ExecLoaded
<1>7. /\ pc'[c] = "idle" /\ \A q \in Services \ {c} : pc'[q] = pc[q]
      /\ pc' \in [Services -> {"none", "idle", "fork", "close", "await", "setup", "reap"}]
  BY <1>1 DEF IInv, Typed
<1>8. /\ table'[c] = Exec(Setup(table[c])) /\ \A q \in Services \ {c} : table'[q] = table[q]
      /\ table' = [q \in Services |-> table'[q]]
  BY <1>1 DEF IInv, Typed
<1>9. Typed'
  BY <1>1, <1>7, <1>8 DEF IInv, Typed, Struct
<1>10. Family' /\ Attached' /\ Running' = Running
  BY <1>1, <1>7, SameFamily
<1>11. Birth(p, c)'
  <2>1. Between(p, c)'
    BY <1>1, <1>3, <1>4, <1>7, <1>8 DEF Between
  <2>2. \A q \in Services \ {p, c} : pc'[q] \in {"none", "idle"}
    BY <1>2, <1>7 DEF Birth
  <2> QED
    BY <2>1, <2>2, <1>1, <1>2, <1>10 DEF Birth
<1>12. Phase'
  <2>1. pc'[Manager] # "none"
    BY <1>2, <1>3, <1>7
  <2> QED
    BY <2>1, <1>11 DEF Phase
<1>13. ASSUME NEW q \in Services PROVE Settled(q)'
  <2>1. CASE q = c
    BY <2>1, <1>1, <1>5, <1>6, <1>8 DEF Settled
  <2>2. CASE q # c
    BY <2>2, <1>1, <1>7, <1>8, SettledFrame DEF IInv
  <2> QED
    BY <2>1, <2>2
<1> QED
  BY <1>9, <1>10, <1>12, <1>13 DEF IInv

(* The parent closes the two ends that are the child's.                    *)
LEMMA ParentClosesInv ==
  ASSUME IInv, NEW p \in Services, ParentCloses(p)
  PROVE  IInv'
<1>1. /\ pc[p] = "close"
      /\ table' = [table EXCEPT ![p] = Close(table[p], {c2pfd[2], p2cfd[1]})]
      /\ pc' = [pc EXCEPT ![p] = "await"]
      /\ childlist' = childlist /\ p2cfd' = p2cfd /\ c2pfd' = c2pfd /\ new' = new
  BY DEF ParentCloses
<1>2. PICK c \in Services : Birth(p, c) /\ pc[Manager] # "none"
  BY <1>1, BirthOf DEF IInv
<1>3. p # c /\ Between(p, c)
  BY <1>1, <1>2 DEF Birth, Before
<1>4. /\ Loaded(table[p], p, childlist[p], NewFds(p2cfd, c2pfd))
      /\ Piped(table[p], c, p2cfd, c2pfd)
  BY <1>1, <1>3 DEF Between
<1>5. PICK Z : Z = {c2pfd[2], p2cfd[1]}
  OBVIOUS
<1>6. PICK u : u = Close(table[p], Z)
  OBVIOUS
<1>7. /\ c2pfd[1] # c2pfd[2] /\ c2pfd[1] # p2cfd[1]
      /\ p2cfd[2] # c2pfd[2] /\ p2cfd[2] # p2cfd[1]
      /\ IsFiniteSet(NewFds(p2cfd, c2pfd))
  <2>1. PICK a, b, d, e : a = p2cfd[1] /\ b = p2cfd[2] /\ d = c2pfd[1] /\ e = c2pfd[2]
    OBVIOUS
  <2>2. NewFds(p2cfd, c2pfd) = {a, b, d, e}
    BY <2>1 DEF NewFds
  <2>3. Cardinality({a, b, d, e}) = 4
    BY <1>2, <2>2 DEF Birth
  <2>4. a # b /\ a # d /\ a # e /\ b # d /\ b # e /\ d # e
    BY <2>3, FourApart
  <2>5. IsFiniteSet({a, b, d, e})
    BY <2>4, FourCount
  <2> QED
    BY <2>1, <2>2, <2>4, <2>5
<1>8. /\ NewFds(p2cfd, c2pfd) \ Z = KeptFds(p2cfd, c2pfd) /\ Z \subseteq NewFds(p2cfd, c2pfd)
      /\ KeptFds(p2cfd, c2pfd) \subseteq NewFds(p2cfd, c2pfd) \ Z
  BY <1>5, <1>7 DEF NewFds, KeptFds
<1>9. /\ Loaded(u, p, childlist[p], KeptFds(p2cfd, c2pfd))
      /\ \A g \in DOMAIN table[p] \ Z : u[g] = table[p][g]
  <2>1. Len(childlist[p]) \in Nat
    BY Lists DEF IInv
  <2>2. PICK N, t, list : /\ N = NewFds(p2cfd, c2pfd)
                          /\ t = table[p] /\ list = childlist[p]
    OBVIOUS
  <2>3. Z \in SUBSET N /\ IsFiniteSet(N) /\ Loaded(t, p, list, N) /\ Len(list) \in Nat
    BY <1>4, <1>7, <1>8, <2>1, <2>2
  <2>4. Loaded(Close(t, Z), p, list, N \ Z)
    BY <2>3, LoadedLess
  <2>5. \A g \in DOMAIN t \ Z : u[g] = t[g]
    BY <1>6, <2>2 DEF Close
  <2> QED
    BY <1>6, <1>8, <2>2, <2>4, <2>5
<1>10. Kept(u, c, p2cfd, c2pfd)
  <2>1. {c2pfd[1], p2cfd[2]} \subseteq DOMAIN table[p] \ Z
    BY <1>4, <1>8 DEF Loaded, KeptFds
  <2>2. u[c2pfd[1]] = table[p][c2pfd[1]] /\ u[p2cfd[2]] = table[p][p2cfd[2]]
    BY <1>9, <2>1
  <2> QED
    BY <2>2, <1>4 DEF Piped, Kept
<1>11. /\ pc'[p] = "await" /\ \A q \in Services \ {p} : pc'[q] = pc[q]
       /\ pc' \in [Services -> {"none", "idle", "fork", "close", "await", "setup", "reap"}]
  BY <1>1 DEF IInv, Typed
<1>12. /\ table'[p] = u /\ \A q \in Services \ {p} : table'[q] = table[q]
       /\ table' = [q \in Services |-> table'[q]]
  BY <1>1, <1>5, <1>6 DEF IInv, Typed
<1>13. Typed'
  BY <1>1, <1>11, <1>12 DEF IInv, Typed, Struct
<1>14. Family' /\ Attached' /\ Running' = Running
  BY <1>1, <1>11, SameFamily
<1>15. Birth(p, c)'
  <2>1. Between(p, c)'
    BY <1>1, <1>3, <1>9, <1>10, <1>11, <1>12 DEF Between
  <2>2. \A q \in Services \ {p, c} : pc'[q] \in {"none", "idle"}
    BY <1>2, <1>11 DEF Birth
  <2> QED
    BY <2>1, <2>2, <1>1, <1>2, <1>14 DEF Birth
<1>16. Phase'
  <2>1. pc'[Manager] # "none"
    BY <1>2, <1>11
  <2> QED
    BY <2>1, <1>15 DEF Phase
<1>17. ASSUME NEW q \in Services PROVE Settled(q)'
  <2>1. CASE q = p
    BY <2>1, <1>11 DEF Settled
  <2>2. CASE q # p
    BY <2>2, <1>1, <1>11, <1>12, SettledFrame DEF IInv
  <2> QED
    BY <2>1, <2>2
<1> QED
  BY <1>13, <1>14, <1>16, <1>17 DEF IInv

(* append_child: the parent has one child more.                            *)
LEMMA AppendChildInv ==
  ASSUME IInv, NEW p \in Services, AppendChild(p)
  PROVE  IInv'
<1>1. pc[p] = "await" /\ pc[Head(new)] = "idle"
  BY DEF AppendChild
<1>2. PICK c \in Services : Birth(p, c) /\ pc[Manager] # "none"
  BY <1>1, BirthOf DEF IInv
<1>3. Head(new) = c /\ p # c /\ c # Manager
  BY <1>2 DEF Birth
<1>4. PICK r, w : r = c2pfd[1] /\ w = p2cfd[2]
  OBVIOUS
<1>5. PICK l2 : l2 = Append(childlist[p], [name |-> c, readfd |-> r, writefd |-> w])
  OBVIOUS
<1>6. /\ childlist' = [childlist EXCEPT ![p] = l2]
      /\ pc' = [pc EXCEPT ![p] = "idle"] /\ pc[c] = "idle"
      /\ p2cfd' = <<>> /\ c2pfd' = <<>> /\ new' = <<>> /\ table' = table
  BY <1>1, <1>3, <1>4, <1>5 DEF AppendChild
<1>7. Between(p, c)
  BY <1>1, <1>2 DEF Birth, Before
<1>8. /\ Loaded(table[p], p, childlist[p], {r, w}) /\ childlist[c] = <<>>
      /\ table[p][r] = [end |-> UpRead(c), cloexec |-> TRUE]
      /\ table[p][w] = [end |-> DownWrite(c), cloexec |-> TRUE]
  BY <1>1, <1>4, <1>7 DEF Between, Kept, KeptFds
<1>9. r \in Nat /\ w \in Nat /\ r # w
  <2>1. r \in Nat /\ w \in Nat
    BY <1>2, <1>4 DEF Birth, NewFds
  <2>2. UpRead(c) # DownWrite(c)
    BY Ends
  <2> QED
    BY <2>1, <2>2, <1>8
<1>10. PICK list \in Seq(Struct) : list = childlist[p]
  BY Lists DEF IInv
<1>11. PICK t : t = table[p]
  OBVIOUS
<1>12. Loaded(t, p, l2, {})
  BY <1>5, <1>8, <1>9, <1>10, <1>11, LoadedAppend
<1>13. [name |-> c, readfd |-> r, writefd |-> w] \in Struct
  BY <1>9 DEF Struct
<1>14. /\ l2 \in Seq(Struct) /\ Len(list) \in Nat /\ Len(l2) = Len(list) + 1
       /\ \A i \in 1..Len(list) : l2[i] = list[i]
       /\ l2[Len(list) + 1] = [name |-> c, readfd |-> r, writefd |-> w]
  BY <1>5, <1>10, <1>13
<1>15. \A i \in 1..Len(l2) : \/ i \in 1..Len(list) /\ l2[i] = list[i]
                             \/ i = Len(list) + 1 /\ l2[i].name = c
  <2>1. 1..Len(l2) = 1..Len(list) \cup {Len(list) + 1}
    BY <1>14
  <2>2. l2[Len(list) + 1].name = c
    BY <1>14
  <2> QED
    BY <2>1, <2>2, <1>14
<1>16. Names(l2) = Names(list) \cup {c}
  <2>1. Names(l2) \subseteq Names(list) \cup {c}
    BY <1>15 DEF Names
  <2>2. Names(list) \subseteq Names(l2)
    <3> SUFFICES ASSUME NEW i \in 1..Len(list) PROVE list[i].name \in Names(l2)
      BY DEF Names
    <3>1. i \in 1..Len(l2) /\ l2[i] = list[i]
      BY <1>14
    <3> QED
      BY <3>1 DEF Names
  <2>3. c \in Names(l2)
    <3>1. Len(list) + 1 \in 1..Len(l2)
      BY <1>14
    <3>2. l2[Len(list) + 1].name = c
      BY <1>14
    <3> QED
      BY <3>1, <3>2 DEF Names
  <2> QED
    BY <2>1, <2>2, <2>3
<1>17. /\ pc'[p] = "idle" /\ \A q \in Services \ {p} : pc'[q] = pc[q]
       /\ pc' \in [Services -> {"none", "idle", "fork", "close", "await", "setup", "reap"}]
  BY <1>6 DEF IInv, Typed
<1>18. /\ childlist'[p] = l2 /\ \A q \in Services \ {p} : childlist'[q] = childlist[q]
       /\ childlist' \in [Services -> Seq(Struct)]
  BY <1>6, <1>14 DEF IInv, Typed
<1>19. Typed'
  <2>1. <<>> \in Seq(Nat) /\ <<>> \in Seq(Services)
    OBVIOUS
  <2> QED
    BY <1>6, <1>17, <1>18, <2>1 DEF IInv, Typed, Struct
<1>20. Running' = Running /\ p \in Running /\ c \in Running
  BY <1>1, <1>6, <1>17 DEF Running
<1>21. \A q \in Running : \A i \in 1..Len(childlist[q]) : childlist[q][i].name # c
  BY <1>2 DEF Birth, Names
<1>22. Family'
  <2> SUFFICES ASSUME NEW q \in Running, NEW i \in 1..Len(childlist'[q])
               PROVE  /\ childlist'[q][i].name \notin {Manager, q}
                      /\ \A s \in Running : \A j \in 1..Len(childlist'[s]) :
                            childlist'[q][i].name = childlist'[s][j].name => q = s /\ i = j
    BY <1>20 DEF Family
  <2>1. ASSUME NEW s \in Running, NEW j \in 1..Len(childlist'[s])
        PROVE  \/ j \in 1..Len(childlist[s]) /\ childlist'[s][j] = childlist[s][j]
               \/ s = p /\ j = Len(list) + 1 /\ childlist'[s][j].name = c
    <3>1. CASE s = p
      <4>1. j \in 1..Len(l2)
        BY <3>1, <1>18
      <4> QED
        BY <3>1, <4>1, <1>10, <1>15, <1>18
    <3>2. CASE s # p
      BY <3>2, <1>18 DEF Running
    <3> QED
      BY <3>1, <3>2
  <2>2. childlist'[q][i].name \notin {Manager, q}
    <3>1. CASE i \in 1..Len(childlist[q]) /\ childlist'[q][i] = childlist[q][i]
      BY <3>1 DEF IInv, Family
    <3>2. CASE q = p /\ childlist'[q][i].name = c
      BY <3>2, <1>3
    <3> QED
      BY <2>1, <3>1, <3>2
  <2>3. ASSUME NEW s \in Running, NEW j \in 1..Len(childlist'[s]),
               childlist'[q][i].name = childlist'[s][j].name
        PROVE  q = s /\ i = j
    <3>1. CASE /\ i \in 1..Len(childlist[q]) /\ childlist'[q][i] = childlist[q][i]
               /\ j \in 1..Len(childlist[s]) /\ childlist'[s][j] = childlist[s][j]
      <4>1. childlist[q][i].name = childlist[s][j].name
        BY <3>1, <2>3
      <4> QED
        BY <3>1, <4>1, OneParent DEF IInv
    <3>2. CASE /\ q = p /\ i = Len(list) + 1 /\ childlist'[q][i].name = c
               /\ j \in 1..Len(childlist[s]) /\ childlist'[s][j] = childlist[s][j]
      BY <3>2, <2>3, <1>21
    <3>3. CASE /\ i \in 1..Len(childlist[q]) /\ childlist'[q][i] = childlist[q][i]
               /\ s = p /\ j = Len(list) + 1 /\ childlist'[s][j].name = c
      BY <3>3, <2>3, <1>21
    <3>4. CASE q = p /\ i = Len(list) + 1 /\ s = p /\ j = Len(list) + 1
      BY <3>4
    <3> QED
      BY <2>1, <3>1, <3>2, <3>3, <3>4
  <2> QED
    BY <2>2, <2>3
<1>23. Attached'
  <2>1. ASSUME NEW d \in Running \ {Manager}
        PROVE  \E q \in Running : d \in Names(childlist'[q])
    <3>1. CASE d = c
      BY <3>1, <1>16, <1>18, <1>20
    <3>2. CASE d # c
      <4>1. new # <<d>>
        BY <3>2, <1>2 DEF Birth
      <4>2. PICK q \in Running : d \in Names(childlist[q])
        BY <4>1, <1>2 DEF IInv, Attached
      <4>3. CASE q = p
        BY <4>2, <4>3, <1>10, <1>16, <1>18
      <4>4. CASE q # p
        BY <4>2, <4>4, <1>18 DEF Running
      <4> QED
        BY <4>3, <4>4
    <3> QED
      BY <3>1, <3>2
  <2>2. ASSUME NEW q \in Running, pc'[q] # "reap"
        PROVE  Names(childlist'[q]) \subseteq Running
    <3>1. pc[q] # "reap"
      BY <2>2, <1>1, <1>17 DEF Running
    <3>2. Names(childlist[q]) \subseteq Running
      BY <3>1, <1>2 DEF IInv, Attached
    <3>3. CASE q = p
      BY <3>2, <3>3, <1>10, <1>16, <1>18, <1>20
    <3>4. CASE q # p
      BY <3>2, <3>4, <1>18 DEF Running
    <3> QED
      BY <3>3, <3>4
  <2> QED
    BY <2>1, <2>2, <1>20 DEF Attached
<1>24. Phase'
  <2>1. \A q \in Services \ {p, c} : pc[q] \in {"none", "idle"}
    BY <1>2 DEF Birth
  <2>2. \A q \in Services : pc'[q] \in {"none", "idle"}
    BY <2>1, <1>6, <1>17
  <2> QED
    BY <2>2, <1>6 DEF Phase, Quiet
<1>25. ASSUME NEW q \in Services PROVE Settled(q)'
  <2>1. CASE q = p
    BY <2>1, <1>6, <1>11, <1>12, <1>18 DEF Settled
  <2>2. CASE q # p
    BY <2>2, <1>6, <1>17, <1>18, SettledFrame DEF IInv
  <2> QED
    BY <2>1, <2>2
<1> QED
  BY <1>19, <1>22, <1>23, <1>24, <1>25 DEF IInv

(* A service without children goes; its parent has yet to let go of it.    *)
LEMMA SuicideInv ==
  ASSUME IInv, NEW p \in Services, NEW i \in DOMAIN childlist[p], Suicide(p, i)
  PROVE  IInv'
<1>0. PICK c : c = childlist[p][i].name
  OBVIOUS
<1>1. /\ Manager \in Running /\ Calm /\ pc[p] = "idle" /\ childlist[c] = <<>>
      /\ pc' = [pc EXCEPT ![c] = "none", ![p] = "reap"]
      /\ table' = [table EXCEPT ![c] = <<>>]
      /\ childlist' = childlist /\ p2cfd' = p2cfd /\ c2pfd' = c2pfd /\ new' = new
  BY <1>0 DEF Suicide, Exits
<1>2. Quiet /\ pc[Manager] # "none"
  BY <1>1, CalmQuiet DEF IInv, Running
<1>3. i \in 1..Len(childlist[p]) /\ c \in Services /\ p \in Running
  BY <1>0, <1>1, Lists DEF IInv, Running
<1>4. \A q \in Running : Names(childlist[q]) \subseteq Running
  BY <1>2 DEF IInv, Attached, Quiet, Running
<1>5. c \in Running /\ c # p /\ c # Manager
  BY <1>0, <1>3, <1>4 DEF Names, IInv, Family
<1>6. /\ pc'[c] = "none" /\ pc'[p] = "reap"
      /\ \A q \in Services \ {p, c} : pc'[q] = pc[q]
      /\ pc' \in [Services -> {"none", "idle", "fork", "close", "await", "setup", "reap"}]
  BY <1>1, <1>3, <1>5 DEF IInv, Typed
<1>7. /\ \A q \in Services \ {c} : table'[q] = table[q]
      /\ table' = [q \in Services |-> table'[q]]
  BY <1>1, <1>3 DEF IInv, Typed
<1>8. Running' = Running \ {c}
  BY <1>3, <1>6 DEF Running
<1>9. Typed'
  BY <1>1, <1>6, <1>7 DEF IInv, Typed, Struct
<1>10. Family'
  BY <1>1, <1>8, FamilyFrame DEF IInv
<1>11. \A q \in Running : q # p => c \notin Names(childlist[q])
  BY <1>0, <1>3 DEF Names, IInv, Family
<1>12. Names(childlist[c]) = {}
  BY <1>1 DEF Names
<1>13. Attached'
  <2>1. ASSUME NEW d \in Running' \ {Manager}
        PROVE  \E q \in Running' : d \in Names(childlist[q])
    <3>1. new # <<d>> /\ d \in Running \ {Manager}
      BY <1>2, <1>8 DEF Quiet
    <3>2. PICK q \in Running : d \in Names(childlist[q])
      BY <3>1, <1>2 DEF IInv, Attached
    <3>3. q # c
      BY <3>2, <1>12
    <3> QED
      BY <3>2, <3>3, <1>8
  <2>2. ASSUME NEW q \in Running', pc'[q] # "reap"
        PROVE  Names(childlist[q]) \subseteq Running'
    BY <2>2, <1>4, <1>6, <1>8, <1>11
  <2> QED
    BY <2>1, <2>2, <1>1 DEF Attached
<1>14. Death(p, i)'
  <2>1. ASSUME NEW j \in 1..Len(childlist[p])
        PROVE  pc'[childlist[p][j].name] = "none" <=> j = i
    <3>1. childlist[p][j].name \in Running /\ childlist[p][j].name # p
      BY <1>3, <1>4 DEF Names, IInv, Family
    <3>2. childlist[p][j].name = c => j = i
      BY <1>0, <1>3 DEF IInv, Family
    <3>3. childlist[p][j].name # c => pc'[childlist[p][j].name] # "none"
      BY <3>1, <1>6 DEF Running
    <3> QED
      BY <3>2, <3>3, <1>0, <1>6
  <2>2. \A q \in Services \ {p} : pc'[q] \in {"none", "idle"}
    BY <1>2, <1>6 DEF Quiet
  <2> QED
    <3>1. new' = <<>>
      BY <1>1, <1>2 DEF Quiet
    <3>2. \A j \in 1..Len(childlist'[p]) : pc'[childlist'[p][j].name] = "none" <=> j = i
      BY <2>1, <1>1
    <3>3. i \in 1..Len(childlist'[p])
      BY <1>1, <1>3
    <3> QED
      BY <2>2, <3>1, <3>2, <3>3, <1>6 DEF Death
<1>15. Phase'
  <2>1. pc'[Manager] # "none"
    BY <1>2, <1>5, <1>6
  <2>2. i \in Nat
    BY <1>3
  <2> QED
    BY <2>1, <2>2, <1>14 DEF Phase
<1>16. ASSUME NEW q \in Services PROVE Settled(q)'
  <2>1. CASE q = c
    BY <2>1, <1>6 DEF Settled
  <2>2. CASE q # c
    <3>1. pc'[q] \in {"idle", "reap"} => pc[q] \in {"idle", "reap"}
      BY <2>2, <1>1, <1>6
    <3> QED
      BY <2>2, <3>1, <1>1, <1>7, SettledFrame DEF IInv
  <2> QED
    BY <2>1, <2>2
<1> QED
  BY <1>9, <1>10, <1>13, <1>15, <1>16 DEF IInv

(* The parent lets go of the child that has gone: its two descriptors are  *)
(* given back, its struct is deleted.                                      *)
LEMMA ReapInv ==
  ASSUME IInv, NEW p \in Services, NEW i \in DOMAIN childlist[p], Reap(p, i)
  PROVE  IInv'
<1>1. PICK list \in Seq(Struct) : list = childlist[p]
  BY Lists DEF IInv
<1>2. PICK l2 : l2 = RemoveAt(list, i)
  OBVIOUS
<1>3. PICK Z : Z = {list[i].readfd, list[i].writefd}
  OBVIOUS
<1>4. PICK t : t = table[p]
  OBVIOUS
<1>5. /\ pc[p] = "reap" /\ pc[list[i].name] = "none"
      /\ table' = [table EXCEPT ![p] = Close(t, Z)]
      /\ childlist' = [childlist EXCEPT ![p] = l2]
      /\ pc' = [pc EXCEPT ![p] = "idle"]
      /\ p2cfd' = p2cfd /\ c2pfd' = c2pfd /\ new' = new
  BY <1>1, <1>2, <1>3, <1>4 DEF Reap
<1>6. i \in 1..Len(list) /\ Len(list) \in Nat /\ p \in Running
  BY <1>1, <1>5 DEF Running
<1>7. PICK i0 \in Nat : Death(p, i0) /\ pc[Manager] # "none"
  BY <1>5, DeathOf DEF IInv
<1>8. Death(p, i)
  BY <1>1, <1>5, <1>6, <1>7 DEF Death
<1>9. \A j \in 1..Len(list) : list[j].name = list[i].name => j = i
  BY <1>1, <1>6 DEF IInv, Family
<1>10. Loaded(t, p, list, {})
  BY <1>1, <1>4, <1>5 DEF IInv, Settled
<1>11. Loaded(Close(t, Z), p, l2, {})
  BY <1>2, <1>3, <1>6, <1>9, <1>10, LoadedRemove
<1>12. l2 \in Seq(Struct)
  BY <1>2, <1>6, RemoveFacts
<1>13. Others(list, i, l2)
  BY <1>2, <1>6, RemoveOthers
<1>14. /\ pc'[p] = "idle" /\ \A q \in Services \ {p} : pc'[q] = pc[q]
       /\ pc' \in [Services -> {"none", "idle", "fork", "close", "await", "setup", "reap"}]
  BY <1>5 DEF IInv, Typed
<1>15. /\ table'[p] = Close(t, Z) /\ \A q \in Services \ {p} : table'[q] = table[q]
       /\ table' = [q \in Services |-> table'[q]]
  BY <1>5 DEF IInv, Typed
<1>16. /\ childlist'[p] = l2 /\ \A q \in Services \ {p} : childlist'[q] = childlist[q]
       /\ childlist' \in [Services -> Seq(Struct)]
  BY <1>5, <1>12 DEF IInv, Typed
<1>17. Running' = Running
  BY <1>5, <1>14 DEF Running
<1>18. Typed'
  BY <1>5, <1>14, <1>15, <1>16 DEF IInv, Typed, Struct
<1>19. Names(l2) = {list[k].name : k \in 1..Len(list) \ {i}}
  <2>1. ASSUME NEW j \in 1..Len(l2) PROVE \E k \in 1..Len(list) \ {i} : l2[j] = list[k]
    BY <1>13 DEF Others
  <2>2. ASSUME NEW k \in 1..Len(list) \ {i} PROVE \E j \in 1..Len(l2) : l2[j] = list[k]
    BY <1>13 DEF Others
  <2>3. ASSUME NEW n \in Names(l2) PROVE n \in {list[k].name : k \in 1..Len(list) \ {i}}
    <3>1. PICK j \in 1..Len(l2) : n = l2[j].name
      BY <2>3 DEF Names
    <3>2. PICK k \in 1..Len(list) \ {i} : l2[j] = list[k]
      BY <2>1
    <3> QED
      BY <3>1, <3>2
  <2>4. ASSUME NEW k \in 1..Len(list) \ {i} PROVE list[k].name \in Names(l2)
    <3>1. PICK j \in 1..Len(l2) : l2[j] = list[k]
      BY <2>2
    <3> QED
      BY <3>1 DEF Names
  <2> QED
    BY <2>3, <2>4
<1>20. Family'
  <2> SUFFICES ASSUME NEW q \in Running, NEW a \in 1..Len(childlist'[q])
               PROVE  /\ childlist'[q][a].name \notin {Manager, q}
                      /\ \A s \in Running : \A b \in 1..Len(childlist'[s]) :
                            childlist'[q][a].name = childlist'[s][b].name => q = s /\ a = b
    BY <1>17 DEF Family
  <2>1. ASSUME NEW s \in Running, NEW b \in 1..Len(childlist'[s])
        PROVE  \E k \in 1..Len(childlist[s]) : childlist'[s][b] = childlist[s][k]
    <3>1. CASE s = p
      BY <3>1, <1>1, <1>13, <1>16 DEF Others
    <3>2. CASE s # p
      BY <3>2, <1>16 DEF Running
    <3> QED
      BY <3>1, <3>2
  <2>2. PICK k \in 1..Len(childlist[q]) : childlist'[q][a] = childlist[q][k]
    BY <2>1
  <2>3. childlist[q][k].name \notin {Manager, q}
    BY DEF IInv, Family
  <2>4. ASSUME NEW s \in Running, NEW b \in 1..Len(childlist'[s]),
               childlist'[q][a].name = childlist'[s][b].name
        PROVE  q = s /\ a = b
    <3>1. q = s
      <4>1. PICK m \in 1..Len(childlist[s]) : childlist'[s][b] = childlist[s][m]
        BY <2>1
      <4> QED
        BY <2>2, <2>4, <4>1 DEF IInv, Family
    <3>2. CASE q # p
      <4>1. childlist'[q] = childlist[q]
        BY <3>2, <1>16 DEF Running
      <4> QED
        BY <3>1, <4>1, <2>4 DEF IInv, Family
    <3>3. CASE q = p
      <4>1. a \in 1..Len(l2) /\ b \in 1..Len(l2) /\ l2[a].name = l2[b].name
        BY <3>1, <3>3, <2>4, <1>16
      <4>2. \A k1, k2 \in 1..Len(list) : list[k1].name = list[k2].name => k1 = k2
        BY <1>1, <1>6 DEF IInv, Family
      <4>3. a = b
        BY <4>1, <4>2, <1>2, <1>6, RemoveApart
      <4> QED
        BY <3>1, <4>3
    <3> QED
      BY <3>1, <3>2, <3>3
  <2> QED
    BY <2>2, <2>3, <2>4
<1>21. Attached'
  <2>1. ASSUME NEW d \in Running \ {Manager}
        PROVE  \E q \in Running : d \in Names(childlist'[q])
    <3>1. new # <<d>>
      BY <1>8 DEF Death
    <3>2. PICK q \in Running : d \in Names(childlist[q])
      BY <3>1, <1>7 DEF IInv, Attached
    <3>3. CASE q = p
      <4>1. PICK k \in 1..Len(list) : d = list[k].name
        BY <3>2, <3>3, <1>1 DEF Names
      <4>2. k # i
        BY <4>1, <1>5 DEF Running
      <4> QED
        BY <3>3, <4>1, <4>2, <1>16, <1>19
    <3>4. CASE q # p
      BY <3>2, <3>4, <1>16 DEF Running
    <3> QED
      BY <3>3, <3>4
  <2>2. ASSUME NEW q \in Running, pc'[q] # "reap"
        PROVE  Names(childlist'[q]) \subseteq Running
    <3>1. CASE q = p
      <4> SUFFICES ASSUME NEW k \in 1..Len(list) \ {i} PROVE list[k].name \in Running
        BY <3>1, <1>16, <1>19
      <4>1. pc[list[k].name] # "none"
        BY <1>1, <1>8 DEF Death
      <4>2. list[k].name \in Services
        BY <1>1, Lists DEF IInv
      <4> QED
        BY <4>1, <4>2 DEF Running
    <3>2. CASE q # p
      <4>1. childlist'[q] = childlist[q] /\ pc[q] # "reap"
        BY <3>2, <2>2, <1>14, <1>16 DEF Running
      <4> QED
        BY <4>1, <1>7 DEF IInv, Attached
    <3> QED
      BY <3>1, <3>2
  <2> QED
    BY <2>1, <2>2, <1>17 DEF Attached
<1>22. Phase'
  <2>1. \A q \in Services : pc'[q] \in {"none", "idle"}
    BY <1>8, <1>14 DEF Death
  <2>2. new' = <<>>
    BY <1>5, <1>8 DEF Death
  <2> QED
    BY <2>1, <2>2 DEF Phase, Quiet
<1>23. ASSUME NEW q \in Services PROVE Settled(q)'
  <2>1. CASE q = p
    BY <2>1, <1>11, <1>15, <1>16 DEF Settled
  <2>2. CASE q # p
    BY <2>2, <1>14, <1>15, <1>16, SettledFrame DEF IInv
  <2> QED
    BY <2>1, <2>2
<1> QED
  BY <1>18, <1>20, <1>21, <1>22, <1>23 DEF IInv

(* A process goes when nothing is under way and the Manager goes with it   *)
(* or has gone.                                                            *)
LEMMA LeavesInv ==
  ASSUME IInv, NEW c \in Services, Quiet, Exits(c), pc' = [pc EXCEPT ![c] = "none"],
         pc'[Manager] = "none"
  PROVE  IInv'
<1>1. /\ table' = [table EXCEPT ![c] = <<>>]
      /\ childlist' = childlist /\ p2cfd' = p2cfd /\ c2pfd' = c2pfd /\ new' = new
  BY DEF Exits
<1>2. /\ pc'[c] = "none" /\ \A q \in Services \ {c} : pc'[q] = pc[q]
      /\ pc' \in [Services -> {"none", "idle", "fork", "close", "await", "setup", "reap"}]
  BY DEF IInv, Typed
<1>3. /\ \A q \in Services \ {c} : table'[q] = table[q]
      /\ table' = [q \in Services |-> table'[q]]
  BY <1>1 DEF IInv, Typed
<1>4. Typed'
  BY <1>1, <1>2, <1>3 DEF IInv, Typed, Struct
<1>5. Running' \subseteq Running
  BY <1>2 DEF Running
<1>6. Family'
  BY <1>1, <1>5, FamilyFrame DEF IInv
<1>7. Attached'
  BY DEF Attached
<1>8. Phase'
  BY <1>1, <1>2 DEF Phase, Quiet
<1>9. ASSUME NEW q \in Services PROVE Settled(q)'
  <2>1. CASE q = c
    BY <2>1, <1>2 DEF Settled
  <2>2. CASE q # c
    BY <2>2, <1>1, <1>2, <1>3, SettledFrame DEF IInv
  <2> QED
    BY <2>1, <2>2
<1> QED
  BY <1>4, <1>6, <1>7, <1>8, <1>9 DEF IInv

(* While the Manager is there, the parent of an idle service holds the     *)
(* other end of its pipe: no service reads end of file.                    *)
EofOnlyAfterManager ==
    \A c \in Services \ {Manager} : pc[c] = "idle" /\ pc[Manager] # "none" => ~ Eof(c)

(* Its parent, or the process making it, holds that end.                   *)
LEMMA WriterThere ==
  ASSUME IInv, pc[Manager] # "none", NEW c \in Services \ {Manager}, pc[c] = "idle"
  PROVE  \E p \in Services : \E fd \in DOMAIN table[p] : table[p][fd].end = DownWrite(c)
<1>1. c \in Running
  BY DEF Running
<1>2. CASE new = <<c>>
  <2>1. ~ Quiet
    BY <1>2 DEF Quiet
  <2>2. \A q \in Services, i \in Nat : ~ Death(q, i)
    BY <1>2 DEF Death
  <2>3. PICK p \in Services, d \in Services : Birth(p, d)
    BY <2>1, <2>2 DEF IInv, Phase
  <2>4. d = c
    BY <1>2, <2>3 DEF Birth
  <2>5. Between(p, c)
    BY <2>3, <2>4 DEF Birth, Before
  <2>6. Kept(table[p], c, p2cfd, c2pfd) /\ p2cfd[2] \in DOMAIN table[p]
    BY <2>5 DEF Between, Piped, Loaded, NewFds, KeptFds
  <2>7. table[p][p2cfd[2]].end = DownWrite(c)
    BY <2>6 DEF Kept
  <2> QED
    BY <2>6, <2>7
<1>3. CASE new # <<c>>
  <2>1. PICK p \in Running : c \in Names(childlist[p])
    BY <1>1, <1>3 DEF IInv, Attached
  <2>2. PICK i \in 1..Len(childlist[p]) : childlist[p][i].name = c
    BY <2>1 DEF Names
  <2>3. p \in Services /\ pc[p] # "none"
    BY DEF Running
  <2>4. \E X : Loaded(table[p], p, childlist[p], X)
    <3>1. CASE pc[p] \in {"idle", "reap"}
      BY <3>1, <2>3 DEF IInv, Settled
    <3>2. CASE pc[p] \in {"fork", "close", "await"}
      <4>1. PICK d \in Services : Birth(p, d)
        BY <3>2, <2>3, BirthOf DEF IInv
      <4> QED
        BY <3>2, <4>1 DEF Birth, Before, Between
    <3>3. CASE pc[p] = "setup"
      <4>1. PICK q \in Services : Birth(q, p)
        BY <3>3, <2>3, BirthTo DEF IInv
      <4>2. childlist[p] = <<>>
        BY <3>3, <4>1 DEF Birth, Before, Between
      <4> QED
        BY <4>2, <2>2
    <3> QED
      BY <3>1, <3>2, <3>3, <2>3 DEF IInv, Typed
  <2>5. PICK X : Loaded(table[p], p, childlist[p], X)
    BY <2>4
  <2>6. PICK fd : fd = childlist[p][i].writefd
    OBVIOUS
  <2>7. fd \in DOMAIN table[p]
    BY <2>5, <2>6 DEF Loaded, KidFds
  <2>8. table[p][fd].end = DownWrite(c)
    <3>1. table[p][fd] = [end |-> DownWrite(childlist[p][i].name), cloexec |-> TRUE]
      BY <2>5, <2>6 DEF Loaded, KidEnds
    <3> QED
      BY <2>2, <3>1
  <2> QED
    BY <2>3, <2>7, <2>8
<1> QED
  BY <1>2, <1>3

(* So the read does not return 0.                                          *)
LEMMA NoEarlyEof ==
  ASSUME IInv
  PROVE  EofOnlyAfterManager
<1> SUFFICES ASSUME NEW c \in Services \ {Manager}, pc[c] = "idle",
                    pc[Manager] # "none", Eof(c)
             PROVE  FALSE
  BY DEF EofOnlyAfterManager
<1>1. PICK d \in Services :
         /\ table[c][PARENT_READ_FD].end = DownRead(d)
         /\ \A p \in Services : \A fd \in DOMAIN table[p] : table[p][fd].end # DownWrite(d)
  BY DEF Eof
<1>2. table[c][PARENT_READ_FD].end = DownRead(c)
  BY DEF IInv, Settled, Loaded, OwnEnds
<1>3. d = c
  BY <1>1, <1>2, Ends
<1> QED
  BY <1>1, <1>3, WriterThere

(* Every step preserves the invariant.                                     *)
LEMMA NextInv ==
  ASSUME IInv, [Next]_vars
  PROVE  IInv'
<1>1. ASSUME UNCHANGED vars PROVE IInv'
  <2>1. /\ table' = table /\ pc' = pc /\ childlist' = childlist
        /\ p2cfd' = p2cfd /\ c2pfd' = c2pfd /\ new' = new
    BY <1>1 DEF vars
  <2>2. Running' = Running
    BY <2>1 DEF Running
  <2>3. Typed' /\ Family' /\ Attached'
    <3>1. Typed'
      BY <2>1 DEF IInv, Typed, Struct
    <3>2. Family' /\ Attached'
      BY <2>1, SameFamily
    <3> QED
      BY <3>1, <3>2
  <2>4. \A p \in Services : Settled(p)'
    BY <2>1 DEF IInv, Settled
  <2>5. \A p \in Services, c \in Services : Birth(p, c)' <=> Birth(p, c)
    BY <2>1, <2>2 DEF Birth, Before, Between
  <2>6. \A p \in Services, i \in Nat : Death(p, i)' <=> Death(p, i)
    BY <2>1 DEF Death
  <2>7. Phase'
    BY <2>1, <2>5, <2>6 DEF IInv, Phase, Quiet
  <2> QED
    BY <2>3, <2>4, <2>7 DEF IInv
<1>2. ASSUME EndOfInput PROVE IInv'
  <2>1. /\ Quiet /\ Exits(Manager) /\ pc' = [pc EXCEPT ![Manager] = "none"]
    BY <1>2, CalmQuiet DEF IInv, EndOfInput
  <2>2. pc'[Manager] = "none"
    BY <2>1 DEF IInv, Typed
  <2> QED
    BY <2>1, <2>2, LeavesInv
<1>3. ASSUME NEW c \in Services, ReadsEof(c) PROVE IInv'
  <2>1. /\ c # Manager /\ pc[c] = "idle" /\ Eof(c)
        /\ Exits(c) /\ pc' = [pc EXCEPT ![c] = "none"]
    BY <1>3 DEF ReadsEof
  <2>2. pc[Manager] = "none"
    BY <2>1, NoEarlyEof DEF EofOnlyAfterManager
  <2>3. Quiet
    BY <2>2 DEF IInv, Phase
  <2>4. pc'[Manager] = "none"
    BY <2>1, <2>2 DEF IInv, Typed
  <2> QED
    BY <2>1, <2>3, <2>4, LeavesInv
<1>4. CASE Next
  <2>1. CASE StartManager
    BY <2>1, StartManagerInv
  <2>2. CASE \E p, c \in Services : Pipes(p, c)
    BY <2>2, PipesInv
  <2>3. CASE \E p \in Services : \E i \in DOMAIN childlist[p] : Suicide(p, i)
    BY <2>3, SuicideInv
  <2>4. ASSUME NEW p \in Services, Step(p) PROVE IInv'
    <3>1. CASE \E i \in DOMAIN childlist[p] : Reap(p, i)
      BY <3>1, ReapInv
    <3> QED
      BY <2>4, <3>1, <1>3, ForkInv, ChildExecInv, ParentClosesInv, AppendChildInv DEF Step
  <2> QED
    BY <1>2, <1>4, <2>1, <2>2, <2>3, <2>4 DEF Next
<1> QED
  BY <1>1, <1>4

(* The inductive invariant.                                                *)
THEOREM Invariance == Spec => []IInv
BY InitInv, NextInv, PTL DEF Spec

(* Between commands every process has its streams, its two ends on 3 and 4 *)
(* and two per child, and nothing else (hw2, spawn_child and the kill).    *)
THEOREM Exactness == Spec => []FdsExact
<1>1. IInv => FdsExact
  <2> SUFFICES ASSUME IInv, Calm, NEW p \in Running
               PROVE  /\ DOMAIN table[p] = 0..2 \cup Own(p) \cup KidFds(childlist[p])
                      /\ Cardinality(DOMAIN table[p]) = 3 + Cardinality(Own(p))
                                                          + 2 * Len(childlist[p])
                      /\ \A fd \in 0..2 : table[p][fd].end = Std
                      /\ p # Manager => /\ table[p][PARENT_READ_FD].end = DownRead(p)
                                        /\ table[p][PARENT_WRITE_FD].end = UpWrite(p)
                      /\ \A i \in 1..Len(childlist[p]) :
                           /\ table[p][childlist[p][i].readfd].end = UpRead(childlist[p][i].name)
                           /\ table[p][childlist[p][i].writefd].end = DownWrite(childlist[p][i].name)
    <3>1. \A p \in Running : DOMAIN childlist[p] = 1..Len(childlist[p])
      BY Lists DEF Running
    <3> QED
      BY <3>1 DEF FdsExact, Own, KidFds
  <2>1. p \in Services /\ pc[p] = "idle"
    BY DEF Calm, Running
  <2>2. Loaded(table[p], p, childlist[p], {})
    BY <2>1 DEF IInv, Settled
  <2>3. Cardinality(DOMAIN table[p]) = 3 + Cardinality(Own(p)) + 2 * Len(childlist[p])
    <3>1. Cardinality({}) = 0
      BY FS_EmptySet
    <3>2. Cardinality(Own(p)) \in Nat /\ Len(childlist[p]) \in Nat
      BY <2>1, OwnCount, Lists DEF IInv
    <3>3. Cardinality(DOMAIN table[p]) = 3 + Cardinality(Own(p)) + 2 * Len(childlist[p]) + 0
      BY <2>2, <3>1 DEF Loaded
    <3> QED
      BY <3>2, <3>3
  <2>4. DOMAIN table[p] = 0..2 \cup Own(p) \cup KidFds(childlist[p])
    BY <2>2 DEF Loaded
  <2>5. /\ \A fd \in 0..2 : table[p][fd].end = Std
        /\ p # Manager => /\ table[p][PARENT_READ_FD].end = DownRead(p)
                          /\ table[p][PARENT_WRITE_FD].end = UpWrite(p)
    BY <2>2 DEF Loaded, StdEnds, OwnEnds
  <2>6. \A i \in 1..Len(childlist[p]) :
           /\ table[p][childlist[p][i].readfd].end = UpRead(childlist[p][i].name)
           /\ table[p][childlist[p][i].writefd].end = DownWrite(childlist[p][i].name)
    <3> TAKE i \in 1..Len(childlist[p])
    <3>1. /\ table[p][childlist[p][i].readfd]
               = [end |-> UpRead(childlist[p][i].name), cloexec |-> TRUE]
          /\ table[p][childlist[p][i].writefd]
               = [end |-> DownWrite(childlist[p][i].name), cloexec |-> TRUE]
      BY <2>2 DEF Loaded, KidEnds
    <3> QED
      BY <3>1
  <2> QED
    BY <2>3, <2>4, <2>5, <2>6
<1> QED
  BY <1>1, Invariance, PTL

(* No service leaves because of an end of file while the Manager is there: *)
(* readInput returns 0 only when the Manager has gone.                     *)
THEOREM NoOrphanEarly == Spec => []EofOnlyAfterManager
BY NoEarlyEof, Invariance, PTL

=============================================================================
