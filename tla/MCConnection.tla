---------------------------- MODULE MCConnection ----------------------------
(* Bounded instances of Connection.  Calls and tablets are interchangeable. *)
EXTENDS Connection, TLC

Symmetry == Permutations(Users) \cup Permutations(Clients) \cup Permutations(Tablets \ Noisy)
=============================================================================
