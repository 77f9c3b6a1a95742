------------------------------ MODULE Replicas -------------------------------
(***************************************************************************)
(* What the synced stores promise of each other.  Each host holds a         *)
(* collection, and payloads, copies of what hosts held, are on their way:   *)
(* they may be lost, be late, come twice and in any order.  A host's        *)
(* collection changes for its user, one identifier at a time, or takes in   *)
(* a whole payload: what it then holds outranks what it held and what came, *)
(* and is made of nothing else.  A crash may take an entry away, or keep    *)
(* the tombstones of before.  CloudSync.tla implements this with syncers    *)
(* that work in steps and a key-value store that hosts overwrite.           *)
(***************************************************************************)
CONSTANTS
  Hosts, Ids, None, NoStamp,
  Cell,             (* an entry or None, and the stamp of a tombstone        *)
  StampedDomains,   (* the stores that stamp a change after what it replaces *)
  Covers(_, _)      (* whether a cell outranks another                       *)

VARIABLES domain, held, payloads

replicaVars == <<domain, held, payloads>>

Collection == [Ids -> Cell]

Init == held \in [Hosts -> Collection] /\ payloads = {}

(* Only h's collection changes, and payloads may be lost.                   *)
Only(h) ==
  /\ held' \in [Hosts -> Collection] /\ \A g \in Hosts \ {h} : held'[g] = held[g]
  /\ payloads' \subseteq payloads /\ UNCHANGED domain

OnlyAt(h, i) == Only(h) /\ \A j \in Ids \ {i} : held'[h][j] = held[h][j]

(* A change leaves the tombstone alone unless it is a removal.              *)
Change(h, i) ==
  LET mine == held[h][i]
      c == held'[h][i]
  IN  /\ OnlyAt(h, i)
      /\ c.entry # None => c.removed = mine.removed
      /\ domain \in StampedDomains => Covers(c, mine)

Joins(c, mine, theirs) ==
  IF domain = "settings" THEN c \in {mine, theirs}
  ELSE /\ Covers(c, mine) /\ Covers(c, theirs)
       /\ c.removed \in {mine.removed, theirs.removed, NoStamp}
       /\ c.entry # None =>
            \E e, f \in {mine.entry, theirs.entry} \ {None} :
              c.entry.stamp = e.stamp /\ c.entry.value = e.value /\ c.entry.zone = f.zone

Learn(h, payload) ==
  Only(h) /\ \A i \in Ids : Joins(held'[h][i], held[h][i], payload[i])

(* The syncer of another host may get what this one holds now.              *)
Send(h) == payloads' \subseteq payloads \cup {held[h]} /\ UNCHANGED <<domain, held>>

TornRemoval(h, i) ==
  /\ domain # "settings"
  /\ OnlyAt(h, i) /\ held'[h][i] = [held[h][i] EXCEPT !.entry = None]

TornLearn(h, payload) ==
  /\ domain # "settings"
  /\ Only(h)
  /\ \A i \in Ids :
       LET mine == held[h][i]
           theirs == payload[i]
       IN  /\ held'[h][i].removed = mine.removed
           /\ \E r \in {mine.removed, theirs.removed, NoStamp} :
                Joins([entry |-> held'[h][i].entry, removed |-> r], mine, theirs)

Next ==
  \E h \in Hosts :
    \/ Send(h)
    \/ \E i \in Ids : Change(h, i) \/ TornRemoval(h, i)
    \/ \E payload \in payloads : Learn(h, payload) \/ TornLearn(h, payload)

Spec == Init /\ [][Next]_replicaVars
=============================================================================
