---------------------------- MODULE MCUserThreads ----------------------------
(* The program UserThreads is checked with. *)
EXTENDS UserThreads

(* The threads of main.c and a third that wants the lock, so that two can  *)
(* wait for it; every thread present, absent, short or longer.             *)
MainKinds == <<"fib", "fact", "bank", "bank", "bank">>
MainCounts == {0, 1, 4}
MainBanks == {0, 200, -900}
=============================================================================
