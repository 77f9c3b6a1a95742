-------------------------------- MODULE MCPage ---------------------------------
(* A home folder with a folder in it, and the root that holds it; and a mod    *)
(* that brings the version gate.                                              *)
EXTENDS Page

MCFolders == {"/", "home", "home/d"}
MCFiles   == {"/x", "home/x", "home/d/x", "home/.y"}
MCDir     == [p \in MCFolders \cup MCFiles |->
                CASE p = "/" -> None
                  [] p \in {"/x", "home"} -> "/"
                  [] p \in {"home/x", "home/.y", "home/d"} -> "home"
                  [] p = "home/d/x" -> "home/d"]
MCNameOf  == [p \in MCFolders \cup MCFiles |->
                CASE p = "/" -> ""
                  [] p = "home" -> "home"
                  [] p = "home/d" -> "d"
                  [] p = "home/.y" -> ".y"
                  [] OTHER -> "x"]
MCBrings  == [m \in Mods |-> IF m = "app" THEN {"gate"} ELSE {}]
=============================================================================
