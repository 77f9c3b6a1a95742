----------------------------- MODULE MCTransfers -----------------------------
(* Bounded instances of Transfers. *)
EXTENDS Transfers

(* Every upload to a path of its own, or all to one. *)
OwnPath == [j \in Uploads |-> j]
OnePath == [j \in Uploads |-> "path"]
=============================================================================
