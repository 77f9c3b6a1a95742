----------------------------- MODULE SyncMerge ------------------------------
(***************************************************************************)
(* How two copies of a synced collection merge (internal/storage:          *)
(* syncmerge.go, sync.go, the MergeSync methods of the stores).            *)
(*                                                                         *)
(* A collection gives every identifier a cell: the entry saved under it,   *)
(* if any, and the stamp of its tombstone, if any.  An entry's value stands*)
(* for its encoding, so values compare as encodings do; only the timezone  *)
(* of a saved tablet, which is merged apart, is a field of its own.        *)
(***************************************************************************)
EXTENDS Integers

CONSTANTS Ids, None

NoStamp == -1      (* no tombstone; 0 is one that an old version left behind *)

Entry == [stamp : Nat, value : Nat, zone : Nat]

ASSUME SyncMergeAssumption == None \notin Entry
Cell  == [entry : Entry \cup {None}, removed : Nat \cup {NoStamp}]
Blank == [entry |-> None, removed |-> NoStamp]

Collection == [Ids -> Cell]

-----------------------------------------------------------------------------
(* mergeCollections                                                         *)

Later(s, t) == IF s >= t THEN s ELSE t

(* Mutant: the clock alone. *)
NextStampClock(now, current) == now

(* nextStamp: a change is stamped by the clock, or just after what it       *)
(* replaces when the clock is behind that.                                  *)
NextStamp(now, current) == Later(now, current + 1)

(* entryIsNewer; equal stamps compare the encodings. *)
EntryIsNewer(e, f) ==
  \/ e.stamp > f.stamp
  \/ e.stamp = f.stamp /\ e.value > f.value
  \/ e.stamp = f.stamp /\ e.value = f.value /\ e.zone > f.zone

Winner(e, f) ==
  IF e = None \/ (f # None /\ EntryIsNewer(f, e)) THEN f ELSE e

(* A tombstone outranks an entry of its own stamp; one with no stamp does   *)
(* not count and is dropped, as is one that an entry outranks.              *)
Resolve(entry, removal) ==
  IF entry # None /\ (removal <= 0 \/ entry.stamp > removal)
  THEN [entry |-> entry, removed |-> NoStamp]
  ELSE [entry |-> None, removed |-> IF removal > 0 THEN removal ELSE NoStamp]

MergeCell(l, r) == Resolve(Winner(l.entry, r.entry), Later(l.removed, r.removed))

Merge(l, r) == [i \in Ids |-> MergeCell(l[i], r[i])]

-----------------------------------------------------------------------------
(* Saved tablets: each side fills the timezones the other has and it lacks  *)
(* before the merge.                                                        *)

Zone(c) == IF c.entry = None THEN 0 ELSE c.entry.zone

Filled(c, other) ==
  IF c.entry # None /\ c.entry.zone = 0
  THEN [c EXCEPT !.entry.zone = Zone(other)]
  ELSE c

Fill(l, r) == [i \in Ids |-> Filled(l[i], r[i])]

-----------------------------------------------------------------------------
(* Settings: one entry, never removed, which starts as the defaults with no *)
(* stamp.  Equal settings keep the local stamp.                             *)

DefaultValue == 1

RemoteSettingsWin(remote, local) ==
  IF remote.stamp # local.stamp THEN remote.stamp > local.stamp
  ELSE IF remote.stamp = 0 /\ (remote.value = DefaultValue) # (local.value = DefaultValue)
       THEN local.value = DefaultValue
       ELSE remote.value > local.value

MergeSettings(l, r) ==
  IF r.entry.value = l.entry.value \/ ~RemoteSettingsWin(r.entry, l.entry) THEN l ELSE r

-----------------------------------------------------------------------------
(* The order the merge follows: what d says adds nothing to what c says.    *)

Covers(c, d) == MergeCell(c, d) = MergeCell(c, c)
=============================================================================
