------------------------------- MODULE Board -------------------------------
(***************************************************************************)
(* What the servers of hw1 promise together: a record is reserved by at    *)
(* most one client, only that client's post can replace it, and whoever    *)
(* collects the board sees every record that is not reserved, as it was    *)
(* last posted, and none that is.                                          *)
(***************************************************************************)
EXTENDS Naturals, Sequences

CONSTANTS Servers, Clients, RECORD_NUM, Posts, Blank, None

Records == 0..(RECORD_NUM - 1)

VARIABLES owner,   \* owner[r]: the client record r is reserved for, or None
          board,   \* board[r]: the post in record r, Blank if there is none
          turn,    \* turn[s]: the record server s collects next
          page     \* page[s]: the posts it has collected so far

vars == <<owner, board, turn, page>>

Init ==
    /\ owner = [r \in Records |-> None]
    /\ board \in [Records -> Posts \cup {Blank}]
    /\ turn = [s \in Servers |-> 0]
    /\ page = [s \in Servers |-> <<>>]

Reserve(c, r) ==
    /\ owner[r] = None
    /\ \A q \in Records : owner[q] # c
    /\ owner' = [owner EXCEPT ![r] = c]
    /\ UNCHANGED <<board, turn, page>>

Publish(r, p) ==
    /\ owner[r] # None
    /\ board' = [board EXCEPT ![r] = p]
    /\ UNCHANGED <<owner, turn, page>>

(* One reservation ends, or all those of a server that dies in the middle  *)
(* of whatever it was collecting.                                          *)
Release(r) ==
    /\ owner[r] # None
    /\ owner' = [owner EXCEPT ![r] = None]
    /\ UNCHANGED <<board, turn, page>>

Fail(s, R) ==
    /\ owner' = [r \in Records |-> IF r \in R THEN None ELSE owner[r]]
    /\ turn' = [turn EXCEPT ![s] = 0]
    /\ page' = [page EXCEPT ![s] = <<>>]
    /\ UNCHANGED board

Collect(s) ==
    /\ turn[s] < RECORD_NUM
    /\ owner[turn[s]] = None
    /\ turn' = [turn EXCEPT ![s] = @ + 1]
    /\ page' = [page EXCEPT ![s] =
                  IF board[turn[s]] = Blank THEN @ ELSE Append(@, board[turn[s]])]
    /\ UNCHANGED <<owner, board>>

Skip(s) ==
    /\ turn[s] < RECORD_NUM
    /\ owner[turn[s]] # None
    /\ turn' = [turn EXCEPT ![s] = @ + 1]
    /\ UNCHANGED <<owner, board, page>>

Answer(s) ==
    /\ turn[s] = RECORD_NUM
    /\ turn' = [turn EXCEPT ![s] = 0]
    /\ page' = [page EXCEPT ![s] = <<>>]
    /\ UNCHANGED <<owner, board>>

Next ==
    \/ \E c \in Clients, r \in Records : Reserve(c, r)
    \/ \E r \in Records, p \in Posts : Publish(r, p)
    \/ \E r \in Records : Release(r)
    \/ \E s \in Servers : Collect(s) \/ Skip(s) \/ Answer(s)
    \/ \E s \in Servers, R \in SUBSET Records : Fail(s, R)

Spec == Init /\ [][Next]_vars
=============================================================================
