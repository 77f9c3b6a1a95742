---------------------------- MODULE MCOperations ----------------------------
(* Bounded instances of Operations.  One operation: the page starts the next *)
(* when none runs.                                                          *)
EXTENDS Operations
=============================================================================
