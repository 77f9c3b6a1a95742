----------------------------- MODULE AtomicReplace -----------------------------
(***************************************************************************)
(* What replacing a file on the tablet promises (remoteFileWriter): the file *)
(* under a path is at any time the whole of what stood there before or the    *)
(* whole of what an upload brought, it changes in one step and only before   *)
(* the upload's end is told, and an upload is told done only when its file   *)
(* stands there.  Transfers.tla implements this with temporary names,        *)
(* chunks, attempts and a connection that comes and goes.                    *)
(* Uploads have paths of their own here.                                     *)
(***************************************************************************)
CONSTANTS Uploads, Tablets, Path, None

VARIABLES
  standing,   (* whose file is under each path of each tablet; None is what    *)
              (* was there                                                   *)
  told        (* how each upload ended, as the panel shows it                 *)

replaceVars == <<standing, told>>

Paths    == {Path[j] : j \in Uploads}
Outcomes == {"done", "failed", "canceled"}

Init ==
  /\ standing = [t \in Tablets |-> [p \in Paths |-> None]]
  /\ told = [j \in Uploads |-> "pending"]

(* The whole file at once.                                                  *)
Commit(j) ==
  /\ told[j] = "pending"
  /\ \E t \in Tablets : standing' = [standing EXCEPT ![t][Path[j]] = j]
  /\ UNCHANGED told

(* A failure may be told although the file was replaced: the answer was     *)
(* lost.                                                                    *)
End(j) ==
  /\ told[j] = "pending"
  /\ \E outcome \in Outcomes :
       /\ outcome = "done" => \E t \in Tablets : standing[t][Path[j]] = j
       /\ told' = [told EXCEPT ![j] = outcome]
  /\ UNCHANGED standing

Next == \E j \in Uploads : Commit(j) \/ End(j)

Spec == Init /\ [][Next]_replaceVars

===============================================================================
