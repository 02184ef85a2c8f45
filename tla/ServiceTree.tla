---------------------------- MODULE ServiceTree ----------------------------
(***************************************************************************)
(* What hw2's services promise the user who types commands, without their  *)
(* processes, pipes and FIFOs: a tree of named services, children in the   *)
(* order of their birth, on which a command takes effect at once. The      *)
(* command is carried depth first, so the services that report it are a    *)
(* prefix of the preorder that ends with the last service it concerns.     *)
(***************************************************************************)
EXTENDS Naturals, SequencesExt

CONSTANTS Services, Manager, None

VARIABLES alive,    \* the services that run
          kids,     \* kids[p]: the children of p, oldest first
          secret,   \* secret[p]; what p draws at its birth is named p
          job,      \* the command under way, or None
          said      \* what was printed for the last command

vars == <<alive, kids, secret, job, said>>

Pairs == {e \in Services \X Services : e[1] # e[2]}

(* The commands of a careful user: no two living services get one name,    *)
(* and an exchange names two that exist (or, by mistake, two that do not). *)
Commands(living) ==
    LET Cmd(o, x, y) == [op |-> o, a |-> x, b |-> y]
    IN  {Cmd("spawn", x, y) : x \in Services, y \in Services \ living}
        \cup {Cmd("kill", x, None) : x \in Services}
        \cup {Cmd("exchange", xy[1], xy[2]) : xy \in
                {xy \in Pairs : (xy[1] \in living) = (xy[2] \in living)}}

(* The services below and including p, each before its children.           *)
Preorder[p \in Services] ==
    <<p>> \o FlattenSeq([i \in DOMAIN kids[p] |-> Preorder[kids[p][i]]])

Subtree(p) == ToSet(Preorder[p])

(* Those that hear of the job: all, or up to the last one it names.        *)
Heard(names) ==
    LET tour == Preorder[Manager]
        seen(i) == names \subseteq ToSet(SubSeq(tour, 1, i))
        last == IF names \subseteq alive
                THEN CHOOSE i \in DOMAIN tour : seen(i) /\ (i = 1 \/ ~seen(i - 1))
                ELSE Len(tour)
    IN  [i \in 1..last |-> <<"heard", tour[i], job.op, job.a, job.b>>]

Init ==
    /\ alive = {}
    /\ kids = [p \in Services |-> <<>>]
    /\ secret = [p \in Services |-> None]
    /\ job = None
    /\ said = <<>>

Start ==
    /\ alive = {}
    /\ alive' = {Manager}
    /\ kids' = [p \in Services |-> <<>>]
    /\ secret' = [p \in Services |-> IF p = Manager THEN p ELSE None]
    /\ said' = <<<<"created", Manager>>>>
    /\ UNCHANGED job

Accept(cmd) ==
    /\ Manager \in alive /\ job = None
    /\ job' = cmd
    /\ said' = <<>>
    /\ UNCHANGED <<alive, kids, secret>>

Fail(names) ==
    /\ ~ names \subseteq alive
    /\ said' = Heard(names) \o <<<<"missing", job.a>>>>
    /\ UNCHANGED <<alive, kids, secret>>

Spawn(a, b) ==
    \/ Fail({a})
    \/ /\ a \in alive
       /\ alive' = alive \cup {b}
       /\ kids' = [kids EXCEPT ![a] = Append(@, b)]
       /\ secret' = [secret EXCEPT ![b] = b]
       /\ said' = Heard({a}) \o <<<<"created", b>>, <<"spawned", a, b>>>>

(* The whole subtree goes; the number printed has eight bits.              *)
Kill(a) ==
    \/ Fail({a})
    \/ LET dead == Subtree(a)
       IN  /\ a \in alive
           /\ alive' = alive \ dead
           /\ kids' = [p \in Services |-> IF p \in dead THEN <<>> ELSE Remove(kids[p], a)]
           /\ secret' = [p \in Services |-> IF p \in dead THEN None ELSE secret[p]]
           /\ said' = Heard({a})
                \o <<<<"killed", a, (Len(Preorder[a]) - 1) % 256>>>>

Exchange(a, b) ==
    \/ Fail({a, b})
    \/ /\ {a, b} \subseteq alive
       /\ secret' = [secret EXCEPT ![a] = secret[b], ![b] = secret[a]]
       /\ said' = Heard({a, b})
            \o <<<<"acquired", a, b, secret[b]>>, <<"acquired", b, a, secret[a]>>,
                 <<"exchanged", a, b>>>>
       /\ UNCHANGED <<alive, kids>>

Perform ==
    /\ job # None
    /\ \/ job.op = "spawn" /\ Spawn(job.a, job.b)
       \/ job.op = "kill" /\ Kill(job.a)
       \/ job.op = "exchange" /\ Exchange(job.a, job.b)
    /\ job' = None

(* The Manager leaves at the end of its input, and the others follow, each *)
(* after its parent.                                                       *)
Parents(p) == {q \in alive : Contains(kids[q], p)}

Leave(p) ==
    /\ p \in alive
    /\ job = None
    /\ Parents(p) = {}
    /\ alive' = alive \ {p}
    /\ UNCHANGED <<kids, secret, job, said>>

Next ==
    \/ Start
    \/ \E cmd \in Commands(alive) : Accept(cmd)
    \/ Perform
    \/ \E p \in Services : Leave(p)

Spec == Init /\ [][Next]_vars

(* A command that was typed is carried out, and no orphan stays behind.    *)
FairSpec ==
    /\ Spec
    /\ WF_vars(Perform)
    /\ \A p \in Services \ {Manager} : WF_vars(Leave(p))
=============================================================================
