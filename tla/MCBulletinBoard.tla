--------------------------- MODULE MCBulletinBoard ---------------------------
(* The sets BulletinBoard is checked with. *)
EXTENDS BulletinBoard, TLC

Symmetry == Permutations(Servers) \cup Permutations(Clients)
=============================================================================
