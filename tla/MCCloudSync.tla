---------------------------- MODULE MCCloudSync -----------------------------
(* Bounded instances of CloudSync.  Hosts and identifiers are alike.        *)
EXTENDS CloudSync, TLC

Symmetry == Permutations(Hosts) \cup Permutations(Ids)

(* A favorite holds nothing but its stamp; two values of settings, one of   *)
(* them the default, of a followed package and of cached device info tell   *)
(* ties apart; devices have a timezone to tell them apart as well.          *)
MCContents ==
  [d \in AllDomains |->
     CASE d = "favorites" -> {0}
       [] d \in {"settings", "follows", "deviceinfo"} -> {1, 2}
       [] d \in {"devices", "keys"} -> {1}]
=============================================================================
