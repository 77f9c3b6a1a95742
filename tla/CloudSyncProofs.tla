-------------------------- MODULE CloudSyncProofs ---------------------------
(* What TLAPS proves of the merge, for every stamp, value and timezone, and *)
(* of the hosts that use it.                                                *)
EXTENDS CloudSync, TLAPS

-----------------------------------------------------------------------------
(* The merge of two cells: the algebra that "two hosts that exchanged       *)
(* payloads both ways settle on the same value" (syncer.go:1) rests on.     *)

LEMMA LaterType ==
  ASSUME NEW s \in Nat \cup {NoStamp}, NEW t \in Nat \cup {NoStamp}
  PROVE  /\ Later(s, t) \in Nat \cup {NoStamp}
         /\ Later(s, t) = Later(t, s)
         /\ \A u \in Nat \cup {NoStamp} : Later(Later(s, t), u) = Later(s, Later(t, u))
  BY DEF Later, NoStamp

LEMMA WinnerOne ==
  ASSUME NEW e \in Entry \cup {None}, NEW f \in Entry \cup {None}
  PROVE  /\ Winner(e, f) \in Entry \cup {None} /\ Winner(e, f) \in {e, f}
         /\ Winner(e, None) = e /\ Winner(None, e) = e /\ Winner(e, e) = e
         /\ e # None => Winner(e, f) # None /\ Winner(e, f).stamp >= e.stamp
         /\ f # None => Winner(e, f) # None /\ Winner(e, f).stamp >= f.stamp
  BY DEF Winner, EntryIsNewer, Entry

LEMMA EntryTotal ==
  ASSUME NEW e \in Entry, NEW f \in Entry, ~EntryIsNewer(e, f), ~EntryIsNewer(f, e)
  PROVE  e = f
  BY DEF EntryIsNewer, Entry

LEMMA WinnerCommutes ==
  ASSUME NEW e \in Entry \cup {None}, NEW f \in Entry \cup {None}
  PROVE  Winner(e, f) = Winner(f, e)
<1>1. CASE e = None \/ f = None
  BY <1>1 DEF Winner
<1>2. CASE e # None /\ f # None
  <2>1. ~(EntryIsNewer(e, f) /\ EntryIsNewer(f, e))
    BY <1>2 DEF EntryIsNewer, Entry
  <2> QED BY <1>2, <2>1, EntryTotal DEF Winner
<1> QED BY <1>1, <1>2

LEMMA WinnerAssociates ==
  ASSUME NEW e \in Entry \cup {None}, NEW f \in Entry \cup {None}, NEW g \in Entry \cup {None}
  PROVE  Winner(Winner(e, f), g) = Winner(e, Winner(f, g))
<1>1. CASE e = None \/ f = None \/ g = None
  BY <1>1 DEF Winner
<1>2. CASE e # None /\ f # None /\ g # None
  BY <1>2 DEF Winner, EntryIsNewer, Entry
<1> QED BY <1>1, <1>2

LEMMA ResolveType ==
  ASSUME NEW e \in Entry \cup {None}, NEW s \in Nat \cup {NoStamp}
  PROVE  /\ Resolve(e, s) \in Cell
         /\ Resolve(Resolve(e, s).entry, Resolve(e, s).removed) = Resolve(e, s)
  BY DEF Resolve, Cell, Entry, NoStamp

(* What a merge forgets, the entry or the tombstone that lost, could not    *)
(* have won any later merge.                                                *)
LEMMA ResolveAbsorbs ==
  ASSUME NEW e \in Entry \cup {None}, NEW f \in Entry \cup {None},
         NEW s \in Nat \cup {NoStamp}, NEW t \in Nat \cup {NoStamp}
  PROVE  Resolve(Winner(Resolve(e, s).entry, f), Later(Resolve(e, s).removed, t))
           = Resolve(Winner(e, f), Later(s, t))
<1>1. CASE e # None /\ (s <= 0 \/ e.stamp > s)
  <2>1. Resolve(e, s).entry = e /\ Resolve(e, s).removed = NoStamp
    BY <1>1 DEF Resolve
  <2>2. Winner(e, f) \in Entry /\ Winner(e, f).stamp >= e.stamp /\ e \in Entry
    BY <1>1, WinnerOne
  <2> DEFINE w == Winner(e, f)
  <2>3. w \in Entry /\ w.stamp >= e.stamp /\ w # None
    BY <1>1, <2>2, WinnerOne
  <2>4. Resolve(w, Later(NoStamp, t)) = Resolve(w, Later(s, t))
    <3> HIDE DEF w
    <3> QED BY <1>1, <2>2, <2>3 DEF Resolve, Later, NoStamp, Entry
  <2> QED BY <2>1, <2>4
<1>2. CASE ~(e # None /\ (s <= 0 \/ e.stamp > s))
  <2>1. Resolve(e, s).entry = None /\ Resolve(e, s).removed = IF s > 0 THEN s ELSE NoStamp
    BY <1>2 DEF Resolve
  <2>2. Winner(None, f) = f
    BY WinnerOne
  <2>3. CASE e = None
    BY <2>1, <2>2, <2>3 DEF Resolve, Later, NoStamp
  <2>4. CASE e # None
    <3>1. s > 0 /\ e.stamp <= s /\ e \in Entry
      BY <1>2, <2>4 DEF Entry, NoStamp
    <3>2. CASE Winner(e, f) = f
      BY <2>1, <2>2, <3>1, <3>2
    <3>3. CASE Winner(e, f) = e
      <4>1. f = None \/ (f \in Entry /\ f.stamp <= e.stamp)
        BY <2>4, <3>3, WinnerOne DEF Entry
      <4> QED BY <2>1, <2>2, <2>4, <3>1, <3>3, <4>1 DEF Resolve, Later, NoStamp, Entry
    <3> QED BY <3>2, <3>3, WinnerOne
  <2> QED BY <2>3, <2>4
<1> QED BY <1>1, <1>2

LEMMA MergeType ==
  ASSUME NEW c \in Cell, NEW d \in Cell
  PROVE  MergeCell(c, d) \in Cell
  BY LaterType, WinnerOne, ResolveType DEF MergeCell, Cell

LEMMA CellParts ==
  ASSUME NEW c \in Cell
  PROVE  c.entry \in Entry \cup {None} /\ c.removed \in Nat \cup {NoStamp}
  BY DEF Cell

(* A merge of a merge only depends on the winner and the latest tombstone.  *)
LEMMA MergeTwice ==
  ASSUME NEW b \in Cell, NEW c \in Cell, NEW d \in Cell
  PROVE  MergeCell(MergeCell(b, c), d)
           = Resolve(Winner(Winner(b.entry, c.entry), d.entry),
                     Later(Later(b.removed, c.removed), d.removed))
<1> DEFINE e == Winner(b.entry, c.entry)
           s == Later(b.removed, c.removed)
<1>1. e \in Entry \cup {None} /\ s \in Nat \cup {NoStamp}
  BY CellParts, WinnerOne, LaterType
<1>2. d.entry \in Entry \cup {None} /\ d.removed \in Nat \cup {NoStamp}
  BY CellParts
<1>3. MergeCell(MergeCell(b, c), d) = Resolve(Winner(Resolve(e, s).entry, d.entry), Later(Resolve(e, s).removed, d.removed))
  BY DEF MergeCell
<1> HIDE DEF e, s
<1>4. Resolve(Winner(Resolve(e, s).entry, d.entry), Later(Resolve(e, s).removed, d.removed))
        = Resolve(Winner(e, d.entry), Later(s, d.removed))
  BY <1>1, <1>2, ResolveAbsorbs
<1> QED BY <1>3, <1>4 DEF e, s

(* Which of two hosts merges the other's payload makes no difference.       *)
THEOREM MergeCommutes ==
  ASSUME NEW c \in Cell, NEW d \in Cell
  PROVE  MergeCell(c, d) = MergeCell(d, c)
  BY CellParts, LaterType, WinnerCommutes DEF MergeCell

(* The order in which a host merges the payloads it gets makes no           *)
(* difference, although each merge forgets what it found outranked.         *)
THEOREM MergeAssociates ==
  ASSUME NEW b \in Cell, NEW c \in Cell, NEW d \in Cell
  PROVE  MergeCell(MergeCell(b, c), d) = MergeCell(b, MergeCell(c, d))
<1>1. MergeCell(b, MergeCell(c, d)) = MergeCell(MergeCell(c, d), b)
  BY MergeCommutes, MergeType
<1>2. Winner(Winner(b.entry, c.entry), d.entry) = Winner(Winner(c.entry, d.entry), b.entry)
  BY CellParts, WinnerAssociates, WinnerCommutes, WinnerOne
<1>3. Later(Later(b.removed, c.removed), d.removed) = Later(Later(c.removed, d.removed), b.removed)
  BY CellParts DEF Later, NoStamp
<1> QED BY <1>1, <1>2, <1>3, MergeTwice

(* A payload that was merged changes nothing when it comes again.           *)
THEOREM MergeIdempotent ==
  ASSUME NEW c \in Cell, NEW d \in Cell
  PROVE  MergeCell(MergeCell(c, d), d) = MergeCell(c, d)
<1>1. Winner(Winner(c.entry, d.entry), d.entry) = Winner(c.entry, d.entry)
  BY CellParts, WinnerAssociates, WinnerOne
<1>2. Later(Later(c.removed, d.removed), d.removed) = Later(c.removed, d.removed)
  BY CellParts DEF Later, NoStamp
<1> QED BY <1>1, <1>2, MergeTwice DEF MergeCell

(* A merge keeps all that either side said.                                 *)
THEOREM MergeCovers ==
  ASSUME NEW c \in Cell, NEW d \in Cell
  PROVE  Covers(MergeCell(c, d), c) /\ Covers(MergeCell(c, d), d)
<1> DEFINE m == MergeCell(c, d)
<1>1. m \in Cell
  BY MergeType
<1>2. MergeCell(m, d) = m
  BY MergeIdempotent
<1>3. MergeCell(m, c) = m
  BY MergeIdempotent, MergeCommutes
<1>4. MergeCell(m, m) = MergeCell(MergeCell(m, c), d)
  BY <1>1, MergeAssociates
<1> QED BY <1>2, <1>3, <1>4 DEF Covers

-----------------------------------------------------------------------------
(* Type correctness                                                         *)

LEMMA EntryType ==
  ASSUME NEW s \in Nat, NEW v \in Nat, NEW z \in Nat
  PROVE  EntryOf(s, v, z) \in Entry
  BY DEF EntryOf, Entry

LEMMA InitType == Init => Types
<1> SUFFICES ASSUME Init PROVE Types
  OBVIOUS
<1>1. Blank \in Cell
  BY DEF Blank, Cell
<1>2. \A v \in Contents[domain] : [Blank EXCEPT !.entry = EntryOf(0, v, 0)] \in Cell
  BY EntryType, CloudSyncAssumption DEF Init, Blank, Cell
<1>3. [Blank EXCEPT !.removed = 0] \in Cell
  BY DEF Blank, Cell
<1>4. InitialCells(domain) \subseteq Cell
  BY <1>1, <1>2, <1>3 DEF InitialCells, Unstamped
<1>5. file \in [Hosts -> Collection]
  BY <1>4 DEF Init, Collection
<1> QED BY <1>1, <1>5, CloudSyncAssumption DEF Init, Types, Collection

LEMMA TypeChange ==
  ASSUME Types, NEW h \in Hosts, NEW i \in Ids, NEW c \in Cell, Change(h, i, c)
  PROVE  Types'
<1>1. file' \in [Hosts -> Collection]
  BY DEF Types, Change, Collection
<1>2. newest' \in [Ids -> Cell \cup {None}]
  <2>1. Recorded(i, file[h][i], c) \in Cell \cup {None}
    BY MergeType DEF Types, Recorded
  <2> QED BY <2>1 DEF Types, Change
<1> QED BY <1>1, <1>2, CloudSyncAssumption DEF Types, Change, storeVars

(* What each edit writes is a cell. *)
LEMMA TypeEdit ==
  ASSUME Types, NEW h \in Hosts, NEW i \in Ids, Edit(h, i)
  PROVE  Types'
<1>1. file[h][i] \in Cell /\ file[h][i].entry \in Entry \cup {None}
  BY DEF Types, Collection, Cell
<1>2. Contents[domain] \subseteq Nat /\ Zones \subseteq Nat /\ Stamps \subseteq Nat
  BY CloudSyncAssumption DEF Stamps, Types
<1>3. \A e \in Entry : Saved(file[h][i], e) \in Cell
  BY <1>1 DEF Saved, Cell
<1>4. \A s \in Nat : [entry |-> None, removed |-> s] \in Cell
  BY DEF Cell
<1>5. ASSUME NEW v \in Contents[domain], NEW now \in Stamps,
             Add(h, i, v, now) \/ AddKey(h, i, v, now) \/ SaveNew(h, i, v, now) \/ SetInfo(h, i, v, now)
      PROVE  Types'
  <2>1. \E s \in Nat : Change(h, i, Saved(file[h][i], EntryOf(s, v, 0)))
    BY <1>2, <1>5 DEF Add, AddKey, SaveNew, SetInfo
  <2> QED BY <1>2, <1>3, <2>1, EntryType, TypeChange
<1>6. ASSUME NEW v \in Contents[domain], NEW now \in Stamps, Update(h, i, v, now)
      PROVE  Types'
  <2>1. file[h][i].entry.zone \in Nat
    BY <1>1, <1>6 DEF Update, Has, Entry
  <2>2. \E s \in Nat : Change(h, i, Saved(file[h][i], EntryOf(s, v, file[h][i].entry.zone)))
    BY <1>2, <1>6 DEF Update
  <2> QED BY <1>2, <1>3, <2>1, <2>2, EntryType, TypeChange
<1>7. ASSUME NEW z \in Zones, NEW now \in Stamps, UpdateTimezone(h, i, z, now)
      PROVE  Types'
  <2>1. file[h][i].entry.value \in Nat
    BY <1>1, <1>7 DEF UpdateTimezone, Has, Entry
  <2>2. \E s \in Nat : Change(h, i, Saved(file[h][i], EntryOf(s, file[h][i].entry.value, z)))
    BY <1>2, <1>7 DEF UpdateTimezone
  <2> QED BY <1>2, <1>3, <2>1, <2>2, EntryType, TypeChange
<1>8. ASSUME NEW z \in Zones, FillMissingTimezone(h, i, z)
      PROVE  Types'
  <2>1. [file[h][i].entry EXCEPT !.zone = z] \in Entry
    BY <1>1, <1>2, <1>8 DEF FillMissingTimezone, Has, Entry
  <2> QED BY <1>3, <1>8, <2>1, TypeChange DEF FillMissingTimezone
<1>9. ASSUME NEW now \in Stamps, Remove(h, i, now)
      PROVE  Types'
  <2>1. \E s \in Nat : Change(h, i, [entry |-> None, removed |-> s])
    BY <1>2, <1>9 DEF Remove
  <2> QED BY <1>4, <2>1, TypeChange
<1> QED BY <1>5, <1>6, <1>7, <1>8, <1>9 DEF Edit

LEMMA FilledType ==
  ASSUME NEW c \in Cell, NEW d \in Cell
  PROVE  Filled(c, d) \in Cell
<1>1. Zone(d) \in Nat
  BY DEF Zone, Cell, Entry
<1>2. c.entry # None => [c.entry EXCEPT !.zone = Zone(d)] \in Entry
  BY <1>1 DEF Cell, Entry
<1> QED BY <1>2 DEF Filled, Cell

LEMMA MergeSyncType ==
  ASSUME NEW l \in Collection, NEW r \in Collection
  PROVE  MergeSync(l, r) \in Collection
<1>1. \A i \in Ids : l[i] \in Cell /\ r[i] \in Cell
  BY DEF Collection
<1>2. \A i \in Ids : MergeCell(l[i], r[i]) \in Cell
  BY <1>1, MergeType
<1>3. \A i \in Ids : MergeCell(Filled(l[i], r[i]), Filled(r[i], l[i])) \in Cell
  BY <1>1, FilledType, MergeType
<1>4. \A i \in Ids : MergeSettings(l[i], r[i]) \in Cell
  BY <1>1 DEF MergeSettings
<1> QED BY <1>2, <1>3, <1>4 DEF MergeSync, Merge, Fill, Collection

LEMMA RestartType ==
  ASSUME TypeOK, NEW h \in Hosts, Restart(h),
         file' \in [Hosts -> Collection], newest' \in [Ids -> Cell \cup {None}]
  PROVE  TypeOK'
<1>1. crashes' \in 0..MaxEvents
  BY CloudSyncAssumption DEF TypeOK, Types, Restart
<1>2. /\ pc' \in [Hosts -> {"idle", "get", "merge", "export", "set"}]
      /\ remote' \in [Hosts -> Collection \cup {None}]
      /\ local' \in [Hosts -> Collection \cup {None}]
  BY DEF TypeOK, Types, Restart
<1>3. Types'
  BY <1>1, <1>2 DEF TypeOK, Types, Restart, storeVars
<1>4. \A g \in Hosts : pc'[g] = "merge" => g # h /\ pc[g] = "merge" /\ remote'[g] = remote[g]
  BY DEF TypeOK, Types, Restart
<1> QED BY <1>3, <1>4 DEF TypeOK, MergesPayload

LEMMA SyncingType ==
  ASSUME TypeOK, NEW h \in Hosts, Syncing(h)
  PROVE  TypeOK'
<1>1. CASE Wake(h)
  BY <1>1 DEF TypeOK, Types, MergesPayload, Wake, storeVars
<1>2. CASE Get(h)
  BY <1>2 DEF TypeOK, Types, MergesPayload, Get, storeVars
<1>3. CASE MergeRemote(h)
  <2>1. file[h] \in Collection /\ remote[h] \in Collection
    BY <1>3 DEF TypeOK, Types, MergesPayload, MergeRemote
  <2>2. file' \in [Hosts -> Collection]
    BY <1>3, <2>1, MergeSyncType DEF TypeOK, Types, MergeRemote
  <2> QED BY <1>3, <2>2 DEF TypeOK, Types, MergesPayload, MergeRemote, storeVars
<1>4. CASE ExportSync(h)
  BY <1>4 DEF TypeOK, Types, MergesPayload, ExportSync, storeVars
<1>5. CASE Set(h)
  BY <1>5 DEF TypeOK, Types, MergesPayload, Set
<1> QED BY <1>1, <1>2, <1>3, <1>4, <1>5 DEF Syncing

LEMMA CrashingType ==
  ASSUME TypeOK, NEW h \in Hosts, Crashing(h)
  PROVE  TypeOK'
<1>1. file \in [Hosts -> Collection] /\ newest \in [Ids -> Cell \cup {None}] /\ file[h] \in Collection
  BY DEF TypeOK, Types
<1>2. CASE Crash(h)
  BY <1>1, <1>2, RestartType DEF Crash
<1>3. ASSUME NEW i \in Ids, CrashInRemove(h, i)
      PROVE  TypeOK'
  <2>1. [file[h][i] EXCEPT !.entry = None] \in Cell
    BY <1>1 DEF Collection, Cell
  <2>2. file' \in [Hosts -> Collection] /\ newest' \in [Ids -> Cell \cup {None}]
    BY <1>1, <1>3, <2>1 DEF CrashInRemove, Collection
  <2> QED BY <1>3, <2>2, RestartType DEF CrashInRemove
<1>4. CASE CrashInMerge(h)
  <2> DEFINE merged == MergeSync(file[h], remote[h])
             mixed  == [i \in Ids |-> [entry |-> merged[i].entry, removed |-> file[h][i].removed]]
  <2>1. merged \in Collection
    BY <1>1, <1>4, MergeSyncType DEF TypeOK, Types, MergesPayload, CrashInMerge
  <2>2. \A i \in Ids : merged[i] \in Cell /\ file[h][i] \in Cell
    BY <1>1, <2>1 DEF Collection
  <2>3. file' = [file EXCEPT ![h] = mixed]
    BY <1>4 DEF CrashInMerge
  <2> HIDE DEF merged
  <2>4. mixed \in Collection
    BY <2>2 DEF Collection, Cell
  <2>5. file' \in [Hosts -> Collection]
    BY <1>1, <2>3, <2>4
  <2> QED BY <1>1, <1>4, <2>5, RestartType DEF CrashInMerge
<1> QED BY <1>2, <1>3, <1>4 DEF Crashing

LEMMA TypeInit == Init => TypeOK
  BY InitType DEF Init, TypeOK, MergesPayload

LEMMA TypeNext == TypeOK /\ [Next]_vars => TypeOK'
<1> SUFFICES ASSUME TypeOK, [Next]_vars PROVE TypeOK'
  OBVIOUS
<1>1. ASSUME NEW h \in Hosts, NEW i \in Ids, Edit(h, i)
      PROVE  TypeOK'
  <2>1. Types'
    BY <1>1, TypeEdit DEF TypeOK
  <2>2. pc' = pc /\ remote' = remote
    BY <1>1 DEF Edit, Add, AddKey, SaveNew, Update, UpdateTimezone, FillMissingTimezone,
                SetInfo, Remove, Change
  <2> QED BY <2>1, <2>2 DEF TypeOK, MergesPayload
<1>2. ASSUME NEW h \in Hosts, Upload(h)
      PROVE  TypeOK'
  BY <1>2 DEF TypeOK, Types, MergesPayload, Upload, syncerVars
<1>3. ASSUME NEW h \in Hosts, Download(h)
      PROVE  TypeOK'
  BY <1>3 DEF TypeOK, Types, MergesPayload, Download
<1>4. CASE UNCHANGED vars
  BY <1>4 DEF TypeOK, Types, MergesPayload, vars, syncerVars, storeVars
<1> QED BY <1>1, <1>2, <1>3, <1>4, SyncingType, CrashingType DEF Next

(* The files, the payloads and the copies of the key-value store are always *)
(* collections, and a syncer never merges a payload that it has not got.    *)
THEOREM SyncTypeCorrect == Spec => []TypeOK
  BY TypeInit, TypeNext, PTL DEF Spec

-----------------------------------------------------------------------------
(* Nothing that is shown is shadowed, and no host goes back, in the domains *)
(* whose every change is stamped after what it replaces.                    *)

Stamped == domain \in StampedDomains

Shown(c) == c.entry # None => c.removed <= 0 \/ c.entry.stamp > c.removed

ShownInv == TypeOK /\ (Stamped => \A h \in Hosts, i \in Ids : Shown(file[h][i]))

LEMMA ShownIsNotShadowed ==
  ASSUME NEW c \in Cell, Shown(c), c.entry # None
  PROVE  MergeCell(c, c).entry = c.entry
  BY CellParts, WinnerOne DEF MergeCell, Shown, Resolve, Later, NoStamp

(* What wins a merge outranks the tombstones of both sides. *)
LEMMA MergeShown ==
  ASSUME NEW c \in Cell, NEW d \in Cell
  PROVE  /\ Shown(MergeCell(c, d))
         /\ Shown([entry |-> MergeCell(c, d).entry, removed |-> c.removed])
<1> DEFINE e == Winner(c.entry, d.entry)
           s == Later(c.removed, d.removed)
<1>1. e \in Entry \cup {None} /\ s \in Nat \cup {NoStamp} /\ s >= c.removed /\ c.removed \in Nat \cup {NoStamp}
  BY CellParts, WinnerOne, LaterType DEF Later, NoStamp
<1>2. MergeCell(c, d) = Resolve(e, s)
  BY DEF MergeCell
<1> HIDE DEF e, s
<1> QED BY <1>1, <1>2 DEF Resolve, Shown, NoStamp, Entry

(* An edit of these domains is one of these four. *)
LEMMA StampedEdit ==
  ASSUME Types, Stamped, NEW h \in Hosts, NEW i \in Ids, Edit(h, i)
  PROVE  \E c \in Cell :
           /\ file' = [file EXCEPT ![h][i] = c] /\ crashes' = crashes
           /\ \/ /\ file[h][i].entry = None /\ c.entry # None /\ c.removed = file[h][i].removed
                 /\ c.entry.stamp > file[h][i].removed
              \/ /\ file[h][i].entry # None /\ c.entry # None /\ c.removed = file[h][i].removed
                 /\ c.entry.stamp > file[h][i].entry.stamp
              \/ /\ file[h][i].entry # None /\ c.entry = None
                 /\ c.removed > file[h][i].entry.stamp
<1> DEFINE f == file[h][i]
<1>1. f \in Cell /\ f.entry \in Entry \cup {None} /\ f.removed \in Nat \cup {NoStamp}
  BY CellParts DEF Types, Collection
<1>2. Contents[domain] \subseteq Nat /\ Stamps \subseteq Nat
  BY CloudSyncAssumption DEF Stamps, Types
<1>3. \A e \in Entry : /\ Saved(f, e) \in Cell /\ e # None
                       /\ Saved(f, e).entry = e /\ Saved(f, e).removed = f.removed
  BY <1>1, SyncMergeAssumption DEF Saved, Cell
<1>4. ASSUME NEW v \in Contents[domain], NEW now \in Stamps, Add(h, i, v, now) \/ AddKey(h, i, v, now)
      PROVE  \E s \in Nat : /\ f.entry = None /\ s > f.removed
                            /\ Change(h, i, Saved(f, EntryOf(s, v, 0)))
  <2>1. CASE Add(h, i, v, now)
    <3> DEFINE s == NextStamp(now, Later(f.removed, 0))
    <3>1. s \in Nat /\ s > f.removed
      BY <1>1, <1>2 DEF NextStamp, Later, NoStamp
    <3> QED BY <2>1, <3>1 DEF Add, Has
  <2>2. CASE AddKey(h, i, v, now)
    <3>1. f = Blank
      BY <2>2 DEF AddKey
    <3>2. now > f.removed
      BY <1>2, <3>1 DEF Blank, NoStamp
    <3> QED BY <1>2, <2>2, <3>1, <3>2 DEF AddKey, Blank
  <2> QED BY <1>4, <2>1, <2>2
<1>5. ASSUME NEW v \in Contents[domain], NEW now \in Stamps, Update(h, i, v, now)
      PROVE  \E s \in Nat : /\ f.entry # None /\ s > f.entry.stamp
                            /\ Change(h, i, Saved(f, EntryOf(s, v, f.entry.zone)))
  <2> DEFINE s == NextStamp(now, f.entry.stamp)
  <2>1. f.entry \in Entry
    BY <1>1, <1>5 DEF Update, Has
  <2>2. s \in Nat /\ s > f.entry.stamp
    BY <1>2, <2>1 DEF NextStamp, Later, Entry
  <2> QED BY <1>5, <2>2 DEF Update, Has
<1>6. ASSUME NEW now \in Stamps, Remove(h, i, now)
      PROVE  \E s \in Nat : /\ f.entry # None /\ s > f.entry.stamp
                            /\ Change(h, i, [entry |-> None, removed |-> s])
  <2> DEFINE s == NextStamp(now, f.entry.stamp)
  <2>1. f.entry \in Entry
    BY <1>1, <1>6 DEF Remove, Has
  <2>2. s \in Nat /\ s > f.entry.stamp
    BY <1>2, <2>1 DEF NextStamp, Later, Entry
  <2> QED BY <1>6, <2>2 DEF Remove, Has
<1>7. \A c : Change(h, i, c) => file' = [file EXCEPT ![h][i] = c] /\ crashes' = crashes
  BY DEF Change
<1>8. \/ \E v \in Contents[domain], now \in Stamps :
            Add(h, i, v, now) \/ AddKey(h, i, v, now) \/ Update(h, i, v, now)
      \/ \E now \in Stamps : Remove(h, i, now)
  BY DEF Edit, Stamped, StampedDomains, SaveNew, SetInfo, UpdateTimezone, FillMissingTimezone
<1> HIDE DEF f
<1>9. ASSUME NEW v \in Contents[domain], NEW s \in Nat, f.entry = None, s > f.removed,
             Change(h, i, Saved(f, EntryOf(s, v, 0)))
      PROVE  \E c \in Cell : /\ file' = [file EXCEPT ![h][i] = c] /\ crashes' = crashes
                             /\ c.entry # None /\ c.removed = f.removed /\ c.entry.stamp > f.removed
  <2> DEFINE e == EntryOf(s, v, 0)
  <2>1. e \in Entry /\ e.stamp = s
    BY <1>2, EntryType DEF EntryOf
  <2> HIDE DEF e
  <2>2. Change(h, i, Saved(f, e))
    BY <1>9 DEF e
  <2> QED BY <1>3, <1>7, <1>9, <2>1, <2>2
<1>10. ASSUME NEW v \in Contents[domain], NEW s \in Nat, f.entry # None, s > f.entry.stamp,
              Change(h, i, Saved(f, EntryOf(s, v, f.entry.zone)))
       PROVE  \E c \in Cell : /\ file' = [file EXCEPT ![h][i] = c] /\ crashes' = crashes
                              /\ c.entry # None /\ c.removed = f.removed
                              /\ c.entry.stamp > f.entry.stamp
  <2> DEFINE e == EntryOf(s, v, f.entry.zone)
  <2>1. f.entry.zone \in Nat
    BY <1>1, <1>10 DEF Entry
  <2>2. e \in Entry /\ e.stamp = s
    BY <1>2, <2>1, EntryType DEF EntryOf
  <2> HIDE DEF e
  <2>3. Change(h, i, Saved(f, e))
    BY <1>10 DEF e
  <2> QED BY <1>3, <1>7, <1>10, <2>2, <2>3
<1>11. ASSUME NEW s \in Nat, f.entry # None, s > f.entry.stamp,
              Change(h, i, [entry |-> None, removed |-> s])
       PROVE  \E c \in Cell : /\ file' = [file EXCEPT ![h][i] = c] /\ crashes' = crashes
                              /\ c.entry = None /\ c.removed > f.entry.stamp
  <2> DEFINE c == [entry |-> None, removed |-> s]
  <2>1. c \in Cell /\ c.entry = None /\ c.removed = s
    BY DEF Cell
  <2> HIDE DEF c
  <2>2. Change(h, i, c)
    BY <1>11 DEF c
  <2> QED BY <1>7, <1>11, <2>1, <2>2
<1>12. CASE \E v \in Contents[domain], now \in Stamps : Add(h, i, v, now) \/ AddKey(h, i, v, now)
  BY <1>4, <1>9, <1>12 DEF f
<1>13. CASE \E v \in Contents[domain], now \in Stamps : Update(h, i, v, now)
  BY <1>5, <1>10, <1>13 DEF f
<1>14. CASE \E now \in Stamps : Remove(h, i, now)
  BY <1>6, <1>11, <1>14 DEF f
<1> QED BY <1>8, <1>12, <1>13, <1>14

(* What a merge leaves in a file of these domains. *)
LEMMA StampedMerge ==
  ASSUME TypeOK, Stamped, NEW h \in Hosts, pc[h] = "merge", NEW i \in Ids
  PROVE  /\ file[h][i] \in Cell /\ remote[h][i] \in Cell
         /\ MergeSync(file[h], remote[h])[i] = MergeCell(file[h][i], remote[h][i])
<1>1. file[h] \in Collection /\ remote[h] \in Collection
  BY DEF TypeOK, Types, MergesPayload
<1> QED BY <1>1 DEF MergeSync, Merge, Stamped, StampedDomains, Collection

LEMMA ShownInit == Init => ShownInv
<1> SUFFICES ASSUME Init PROVE ShownInv
  OBVIOUS
<1>1. \A c \in InitialCells(domain) : Shown(c)
  BY DEF InitialCells, Unstamped, EntryOf, Blank, Shown, NoStamp
<1>2. \A h \in Hosts, i \in Ids : file[h][i] \in InitialCells(domain)
  BY DEF Init
<1> QED BY <1>1, <1>2, TypeInit DEF ShownInv

LEMMA DomainFixed == [Next]_vars => domain' = domain
<1>1. ASSUME NEW h \in Hosts, NEW i \in Ids, Edit(h, i)
      PROVE  domain' = domain
  BY <1>1 DEF Edit, Add, AddKey, SaveNew, Update, UpdateTimezone, FillMissingTimezone, SetInfo,
              Remove, Change
<1>2. ASSUME NEW h \in Hosts, Syncing(h) \/ Upload(h) \/ Download(h)
      PROVE  domain' = domain
  BY <1>2 DEF Syncing, Wake, Get, MergeRemote, ExportSync, Set, Upload, Download
<1>3. ASSUME NEW h \in Hosts, Crashing(h)
      PROVE  domain' = domain
  BY <1>3 DEF Crashing, Crash, CrashInRemove, CrashInMerge, Restart
<1>4. (UNCHANGED vars) => domain' = domain
  BY DEF vars
<1> QED BY <1>1, <1>2, <1>3, <1>4 DEF Next

LEMMA ShownNext == ShownInv /\ [Next]_vars => ShownInv'
<1> SUFFICES ASSUME ShownInv, [Next]_vars PROVE ShownInv'
  OBVIOUS
<1>1. TypeOK' /\ TypeOK /\ file \in [Hosts -> Collection]
  BY TypeNext DEF ShownInv, TypeOK, Types
<1>2. SUFFICES ASSUME Stamped, NEW g \in Hosts, NEW j \in Ids PROVE Shown(file'[g][j])
  BY <1>1, DomainFixed DEF ShownInv, Stamped
<1>3. Shown(file[g][j]) /\ \A k \in Hosts : file[k] \in Collection
  BY <1>1, <1>2 DEF ShownInv
<1>4. ASSUME NEW h \in Hosts, NEW i \in Ids, Edit(h, i)
      PROVE  Shown(file'[g][j])
  <2>1. PICK c \in Cell :
          /\ file' = [file EXCEPT ![h][i] = c]
          /\ \/ /\ file[h][i].entry = None /\ c.entry # None /\ c.removed = file[h][i].removed
                /\ c.entry.stamp > file[h][i].removed
             \/ /\ file[h][i].entry # None /\ c.entry # None /\ c.removed = file[h][i].removed
                /\ c.entry.stamp > file[h][i].entry.stamp
             \/ file[h][i].entry # None /\ c.entry = None
    BY <1>1, <1>2, <1>4, StampedEdit DEF TypeOK
  <2>2. file[h][i] \in Cell /\ Shown(file[h][i])
    BY <1>1, <1>2 DEF ShownInv, Collection
  <2>3. Shown(c)
    BY <2>1, <2>2 DEF Shown, Cell, Entry, NoStamp
  <2>4. file'[g][j] = IF g = h /\ j = i THEN c ELSE file[g][j]
    BY <1>1, <2>1 DEF Collection
  <2> QED BY <1>3, <2>3, <2>4
<1>5. ASSUME NEW h \in Hosts, MergeRemote(h)
      PROVE  Shown(file'[g][j])
  <2>1. file'[g][j] = IF g = h THEN MergeSync(file[h], remote[h])[j] ELSE file[g][j]
    BY <1>1, <1>5 DEF MergeRemote
  <2> QED BY ZenonT(40), <1>1, <1>2, <1>3, <1>5, <2>1, StampedMerge, MergeShown DEF MergeRemote
<1>6. ASSUME NEW h \in Hosts, NEW i \in Ids, CrashInRemove(h, i)
      PROVE  Shown(file'[g][j])
  BY <1>1, <1>3, <1>6 DEF CrashInRemove, Collection, Cell, Shown
<1>7. ASSUME NEW h \in Hosts, CrashInMerge(h)
      PROVE  Shown(file'[g][j])
  <2>1. CASE g # h
    BY <1>1, <1>3, <1>7, <2>1 DEF CrashInMerge
  <2>2. CASE g = h
    <3>1. file'[g][j] = [entry |-> MergeSync(file[h], remote[h])[j].entry, removed |-> file[h][j].removed]
      BY <1>1, <1>7, <2>2 DEF CrashInMerge
    <3> QED BY <1>1, <1>2, <1>7, <3>1, StampedMerge, MergeShown DEF CrashInMerge
  <2> QED BY <2>1, <2>2
<1>8. ASSUME UNCHANGED file
      PROVE  Shown(file'[g][j])
  BY <1>3, <1>8
<1>9. \/ UNCHANGED file
      \/ \E h \in Hosts : \/ MergeRemote(h) \/ CrashInMerge(h)
                          \/ \E i \in Ids : Edit(h, i) \/ CrashInRemove(h, i)
  BY DEF Next, Syncing, Crashing, Crash, Wake, Get, ExportSync, Set, Upload, Download, vars
<1> QED BY <1>4, <1>5, <1>6, <1>7, <1>8, <1>9

(* Where every change is stamped after what it replaces, the entry that a   *)
(* host shows outranks its own tombstone, through every edit, merge and     *)
(* crash, so no merge drops it for a removal that came before it.           *)
THEOREM NeverShadowed == Spec => []NothingShadowed
<1>1. ShownInv => NothingShadowed
  BY ShownIsNotShadowed DEF ShownInv, Stamped, TypeOK, Types, Collection, NothingShadowed, Has
<1> QED BY <1>1, ShownInit, ShownNext, PTL DEF Spec

(* What a change stamped after what it replaces covers. *)
LEMMA NewerCovers ==
  ASSUME NEW c \in Cell, NEW f \in Cell, Shown(f),
         \/ /\ f.entry = None /\ c.entry # None /\ c.removed = f.removed
            /\ c.entry.stamp > f.removed
         \/ /\ f.entry # None /\ c.entry # None /\ c.removed = f.removed
            /\ c.entry.stamp > f.entry.stamp
         \/ f.entry # None /\ c.entry = None /\ c.removed > f.entry.stamp
  PROVE  Covers(c, f)
<1>1. c.entry \in Entry \cup {None} /\ f.entry \in Entry \cup {None}
  BY CellParts
<1>2. c.removed \in Nat \cup {NoStamp} /\ f.removed \in Nat \cup {NoStamp}
  BY CellParts
<1>3. CASE c.entry # None
  <2>1. Winner(c.entry, f.entry) = c.entry /\ Winner(c.entry, c.entry) = c.entry
    BY <1>1, <1>3 DEF Winner, EntryIsNewer, Entry
  <2> QED BY <1>3, <2>1 DEF Covers, MergeCell
<1>4. CASE c.entry = None
  <2>1. f.entry \in Entry /\ c.removed > f.entry.stamp /\ (f.removed <= 0 \/ f.entry.stamp > f.removed)
    BY <1>1, <1>4 DEF Shown
  <2>2. Winner(c.entry, f.entry) = f.entry /\ Winner(c.entry, c.entry) = None
    BY <1>1, <1>4, WinnerOne
  <2>3. Later(c.removed, f.removed) = c.removed /\ Later(c.removed, c.removed) = c.removed
        /\ c.removed > 0 /\ f.entry.stamp <= c.removed
    BY <1>2, <2>1 DEF Later, NoStamp, Entry
  <2>4. ~(c.removed <= 0) /\ ~(f.entry.stamp > c.removed)
    BY <1>2, <2>1 DEF NoStamp, Entry
  <2>5. Resolve(f.entry, c.removed) = Resolve(None, c.removed)
    BY <2>4 DEF Resolve
  <2> QED BY <2>2, <2>3, <2>5 DEF Covers, MergeCell
<1> QED BY <1>3, <1>4

LEMMA CoversItself ==
  ASSUME NEW c
  PROVE  Covers(c, c)
  BY DEF Covers

(* Where every change is stamped after what it replaces, no step but a crash*)
(* takes any host back to a state that an edit or a merge has replaced.     *)
THEOREM NoStepBack == Spec => NeverOlder
<1> DEFINE Kept == crashes' = crashes /\ domain \in StampedDomains =>
                     \A h \in Hosts, i \in Ids : Covers(file'[h][i], file[h][i])
<1>1. ShownInv /\ [Next]_vars => [Kept]_vars
  <2> SUFFICES ASSUME ShownInv, Next, crashes' = crashes, Stamped, NEW g \in Hosts, NEW j \in Ids
               PROVE  Covers(file'[g][j], file[g][j])
    BY DEF Stamped
  <2>1. TypeOK /\ Types /\ file \in [Hosts -> Collection] /\ crashes \in Nat
    BY CloudSyncAssumption DEF ShownInv, TypeOK, Types
  <2>2. ASSUME NEW h \in Hosts, NEW i \in Ids, Edit(h, i)
        PROVE  Covers(file'[g][j], file[g][j])
    <3>1. PICK c \in Cell :
            /\ file' = [file EXCEPT ![h][i] = c]
            /\ \/ /\ file[h][i].entry = None /\ c.entry # None /\ c.removed = file[h][i].removed
                  /\ c.entry.stamp > file[h][i].removed
               \/ /\ file[h][i].entry # None /\ c.entry # None /\ c.removed = file[h][i].removed
                  /\ c.entry.stamp > file[h][i].entry.stamp
               \/ file[h][i].entry # None /\ c.entry = None /\ c.removed > file[h][i].entry.stamp
      BY <2>1, <2>2, StampedEdit
    <3>2. file[h][i] \in Cell /\ Shown(file[h][i])
      BY <2>1 DEF ShownInv, Collection
    <3>3. Covers(c, file[h][i])
      BY <3>1, <3>2, NewerCovers
    <3>4. file'[g][j] = IF g = h /\ j = i THEN c ELSE file[g][j]
      BY <2>1, <3>1 DEF Collection
    <3> QED BY <3>3, <3>4, CoversItself
  <2>3. ASSUME NEW h \in Hosts, MergeRemote(h)
        PROVE  Covers(file'[g][j], file[g][j])
    <3>1. file'[g][j] = IF g = h THEN MergeSync(file[h], remote[h])[j] ELSE file[g][j]
      BY <2>1, <2>3 DEF MergeRemote
    <3> QED BY <2>1, <2>3, <3>1, StampedMerge, MergeCovers, CoversItself DEF MergeRemote
  <2>4. ASSUME UNCHANGED file
        PROVE  Covers(file'[g][j], file[g][j])
    BY <2>4, CoversItself
  <2>5. ASSUME NEW h \in Hosts, Crashing(h)
        PROVE  FALSE
    BY <2>1, <2>5 DEF Crashing, Crash, CrashInRemove, CrashInMerge, Restart
  <2>6. \/ UNCHANGED file
        \/ \E h \in Hosts : MergeRemote(h) \/ Crashing(h) \/ \E i \in Ids : Edit(h, i)
    BY DEF Next, Syncing, Wake, Get, ExportSync, Set, Upload, Download
  <2> QED BY <2>2, <2>3, <2>4, <2>5, <2>6
<1>2. Spec => [][Kept]_vars
  <2> HIDE DEF Kept
  <2> QED BY <1>1, ShownInit, ShownNext, PTL DEF Spec
<1> QED BY <1>2 DEF NeverOlder

------------------------------------------------------------------------------
(* Hosts settle on the same value                                           *)

(* A copy that is uploaded and up to date is the newest upload, and what a  *)
(* syncer at work has read is still so, unless it is told to start again.   *)
SettledInv ==
  /\ \A h \in Hosts : h \notin dirty /\ h \notin behind => kv[h] = cloud
  /\ \A h \in Hosts : h \notin pending =>
       /\ pc[h] = "idle" => file[h] = kv[h]
       /\ pc[h] \in {"merge", "export", "set"} => remote[h] = kv[h]
       /\ pc[h] = "set" => local[h] = file[h]

LEMMA SettledInit == Init => SettledInv
  BY DEF Init, SettledInv

(* A change or a crash on h has its syncer start again. *)
LEMMA SettledTold ==
  ASSUME TypeOK, SettledInv, NEW h \in Hosts, pending' = pending \cup {h}, UNCHANGED storeVars,
         \A g \in Hosts \ {h} :
           pc'[g] = pc[g] /\ remote'[g] = remote[g] /\ local'[g] = local[g] /\ file'[g] = file[g]
  PROVE  SettledInv'
<1>1. UNCHANGED <<kv, dirty, behind, cloud>>
  BY DEF storeVars
<1> QED BY <1>1 DEF SettledInv

LEMMA EditChanges ==
  ASSUME NEW h \in Hosts, NEW i \in Ids, Edit(h, i)
  PROVE  \E c : Change(h, i, c)
  BY DEF Edit, Add, AddKey, SaveNew, Update, SetInfo, UpdateTimezone, FillMissingTimezone, Remove

LEMMA SettledStep == TypeOK /\ SettledInv /\ Next => SettledInv'
<1> SUFFICES ASSUME TypeOK, SettledInv, NEW h \in Hosts,
                    \/ \E i \in Ids : Edit(h, i)
                    \/ Syncing(h) \/ Upload(h) \/ Download(h) \/ Crashing(h)
             PROVE  SettledInv'
  BY DEF Next
<1>1. /\ file \in [Hosts -> Collection] /\ kv \in [Hosts -> Collection \cup {None}]
      /\ pc \in [Hosts -> {"idle", "get", "merge", "export", "set"}]
      /\ remote \in [Hosts -> Collection \cup {None}] /\ local \in [Hosts -> Collection \cup {None}]
      /\ pending \subseteq Hosts /\ dirty \subseteq Hosts /\ behind \subseteq Hosts
  BY DEF TypeOK, Types
<1>2. ASSUME NEW i \in Ids, Edit(h, i) PROVE SettledInv'
  BY <1>1, <1>2, EditChanges, SettledTold DEF Change
<1>3. CASE Wake(h)
  BY <1>1, <1>3 DEF Wake, SettledInv, storeVars
<1>4. CASE Get(h)
  BY <1>1, <1>4 DEF Get, SettledInv, storeVars
<1>5. CASE MergeRemote(h)
  BY <1>1, <1>5 DEF MergeRemote, SettledInv, storeVars
<1>6. CASE ExportSync(h)
  BY <1>1, <1>6 DEF ExportSync, SettledInv, storeVars
<1>7. CASE Set(h)
  BY <1>1, <1>7 DEF Set, SettledInv
<1>8. CASE Upload(h)
  BY <1>1, <1>8 DEF Upload, SettledInv, syncerVars
<1>9. CASE Download(h)
  BY <1>1, <1>9 DEF Download, SettledInv
<1>10. CASE Crashing(h)
  BY <1>1, <1>10, SettledTold DEF Crashing, Crash, CrashInRemove, CrashInMerge, Restart
<1> QED BY <1>2, <1>3, <1>4, <1>5, <1>6, <1>7, <1>8, <1>9, <1>10 DEF Syncing

LEMMA SettledStays == SettledInv /\ UNCHANGED vars => SettledInv'
  BY DEF SettledInv, vars, syncerVars, storeVars

(* Hosts that have exchanged payloads both ways "settle on the same value"  *)
(* (syncer.go:1): with nothing left to do, all files and the store agree,   *)
(* whatever was overwritten before it was read and wherever a host crashed. *)
THEOREM HostsConverge == Spec => []Converged
<1>1. SettledInv => Converged
  BY DEF SettledInv, Converged, Quiet
<1> QED BY <1>1, TypeInit, TypeNext, SettledInit, SettledStep, SettledStays, PTL DEF Spec

------------------------------------------------------------------------------
(* The order that merges follow                                             *)

LEMMA MergeIsOne ==
  ASSUME NEW c \in Cell, NEW d \in Cell
  PROVE  MergeCell(c, d) \in {MergeCell(c, c), MergeCell(d, d)}
<1>1. /\ c.entry \in Entry \cup {None} /\ c.removed \in Nat \cup {NoStamp}
      /\ d.entry \in Entry \cup {None} /\ d.removed \in Nat \cup {NoStamp}
  BY CellParts
<1>2. /\ MergeCell(c, c) = Resolve(c.entry, c.removed)
      /\ MergeCell(d, d) = Resolve(d.entry, d.removed)
  BY <1>1, WinnerOne DEF MergeCell, Later, NoStamp
<1>3. CASE Winner(c.entry, d.entry) = c.entry
  BY <1>1, <1>2, <1>3, WinnerOne DEF MergeCell, Resolve, Later, NoStamp, Entry
<1>4. CASE Winner(c.entry, d.entry) = d.entry
  BY <1>1, <1>2, <1>4, WinnerOne DEF MergeCell, Resolve, Later, NoStamp, Entry
<1> QED BY <1>1, <1>3, <1>4, WinnerOne

LEMMA CoversTotal ==
  ASSUME NEW c \in Cell, NEW d \in Cell
  PROVE  Covers(c, d) \/ Covers(d, c)
  BY MergeIsOne, MergeCommutes DEF Covers

(* Merging what a cell says with itself says nothing new. *)
LEMMA MergeOwn ==
  ASSUME NEW c \in Cell, NEW d \in Cell
  PROVE  MergeCell(MergeCell(c, c), d) = MergeCell(c, d)
<1>1. MergeCell(MergeCell(d, c), c) = MergeCell(d, c)
  BY MergeIdempotent
<1>2. MergeCell(MergeCell(d, c), c) = MergeCell(d, MergeCell(c, c))
  BY MergeAssociates
<1> QED BY <1>1, <1>2, MergeCommutes, MergeType

LEMMA CoversTransitive ==
  ASSUME NEW b \in Cell, NEW c \in Cell, NEW d \in Cell, Covers(b, c), Covers(c, d)
  PROVE  Covers(b, d)
<1>1. MergeCell(b, d) = MergeCell(MergeCell(b, c), d)
  BY MergeOwn DEF Covers
<1>2. MergeCell(MergeCell(b, c), d) = MergeCell(b, MergeCell(c, c))
  BY MergeAssociates DEF Covers
<1>3. MergeCell(b, MergeCell(c, c)) = MergeCell(b, c)
  BY MergeAssociates, MergeIdempotent
<1> QED BY <1>1, <1>2, <1>3 DEF Covers

LEMMA CoversMerge ==
  ASSUME NEW b \in Cell, NEW c \in Cell, NEW d \in Cell, Covers(b, c), Covers(b, d)
  PROVE  Covers(b, MergeCell(c, d))
<1>1. MergeCell(b, MergeCell(c, d)) = MergeCell(MergeCell(b, c), d)
  BY MergeAssociates
<1>2. MergeCell(MergeCell(b, c), d) = MergeCell(b, d)
  BY MergeOwn DEF Covers
<1> QED BY <1>1, <1>2 DEF Covers

(* What is filled in before the merge of saved tablets loses nothing.       *)
LEMMA FilledParts ==
  ASSUME NEW c \in Cell, NEW d \in Cell
  PROVE  /\ Filled(c, d).removed = c.removed
         /\ c.entry = None => Filled(c, d).entry = None
         /\ c.entry # None =>
              /\ Filled(c, d).entry # None /\ Filled(c, d).entry.stamp = c.entry.stamp
              /\ Winner(Filled(c, d).entry, c.entry) = Filled(c, d).entry
<1>1. c.entry \in Entry \cup {None} /\ Zone(d) \in Nat
  BY CellParts DEF Zone, Entry
<1>2. CASE c.entry # None /\ c.entry.zone = 0
  <2> DEFINE e == [c.entry EXCEPT !.zone = Zone(d)]
  <2>1. /\ e \in Entry /\ e.stamp = c.entry.stamp /\ e.value = c.entry.value /\ e.zone >= c.entry.zone
    BY <1>1, <1>2 DEF Entry
  <2>2. Filled(c, d).entry = e /\ Filled(c, d).removed = c.removed
    BY <1>2 DEF Filled, Cell
  <2>3. ~EntryIsNewer(c.entry, e) /\ e # None
    BY <1>1, <1>2, <2>1, SyncMergeAssumption DEF EntryIsNewer, Entry
  <2> QED BY <1>2, <2>1, <2>2, <2>3 DEF Winner
<1>3. CASE ~(c.entry # None /\ c.entry.zone = 0)
  BY <1>1, <1>3, WinnerOne DEF Filled
<1> QED BY <1>2, <1>3

LEMMA FilledCovers ==
  ASSUME NEW c \in Cell, NEW d \in Cell
  PROVE  Covers(Filled(c, d), c)
<1> DEFINE f == Filled(c, d)
<1>1. /\ f \in Cell /\ f.removed = c.removed /\ Winner(f.entry, c.entry) = f.entry
      /\ f.removed \in Nat \cup {NoStamp} /\ f.entry \in Entry \cup {None}
  BY FilledType, FilledParts, WinnerOne, CellParts
<1> HIDE DEF f
<1>2. MergeCell(f, c) = MergeCell(f, f)
  BY <1>1, WinnerOne DEF MergeCell
<1> QED BY <1>2 DEF Covers, f

------------------------------------------------------------------------------
(* No change is lost                                                        *)

Merging == domain \in StampedDomains \cup {"devices"}

(* A merge of two collections, timezones filled in or not. *)
LEMMA MergesCells ==
  ASSUME Merging, NEW l \in Collection, NEW r \in Collection, NEW i \in Ids
  PROVE  /\ l[i] \in Cell /\ r[i] \in Cell
         /\ \/ MergeSync(l, r)[i] = MergeCell(l[i], r[i])
            \/ MergeSync(l, r)[i] = MergeCell(Filled(l[i], r[i]), Filled(r[i], l[i]))
<1>1. CASE domain = "devices"
  BY <1>1 DEF MergeSync, Merge, Fill, Collection
<1>2. CASE domain \in StampedDomains
  BY <1>2 DEF MergeSync, Merge, StampedDomains, Collection
<1> QED BY <1>1, <1>2 DEF Merging, Collection

LEMMA MergeSyncCovers ==
  ASSUME Merging, NEW l \in Collection, NEW r \in Collection, NEW i \in Ids
  PROVE  Covers(MergeSync(l, r)[i], l[i])
<1> DEFINE c == l[i]
           f == Filled(l[i], r[i])
           g == Filled(r[i], l[i])
<1>1. c \in Cell /\ f \in Cell /\ g \in Cell /\ r[i] \in Cell
  BY MergesCells, FilledType
<1>2. Covers(MergeCell(f, g), f) /\ Covers(f, c) /\ MergeCell(f, g) \in Cell
  BY <1>1, MergeCovers, FilledCovers, MergeType
<1>3. Covers(MergeCell(f, g), c)
  <2> HIDE DEF c, f, g
  <2> QED BY <1>1, <1>2, CoversTransitive
<1> QED BY <1>1, <1>3, MergesCells, MergeCovers

(* A crash between the files of a merge: the merged entry over the old      *)
(* tombstone.  It takes from a host only what the payload outranked.        *)
LEMMA TornCell ==
  ASSUME NEW c \in Cell, NEW d \in Cell, NEW f \in Cell, NEW g \in Cell, Covers(c, d),
         f.removed = c.removed, g.removed = d.removed,
         c.entry # None => /\ f.entry # None /\ f.entry.stamp = c.entry.stamp
                           /\ Winner(f.entry, c.entry) = f.entry
  PROVE  Covers([entry |-> MergeCell(f, g).entry, removed |-> c.removed], c)
<1> DEFINE w == Winner(f.entry, g.entry)
           s == Later(c.removed, d.removed)
           t == [entry |-> MergeCell(f, g).entry, removed |-> c.removed]
<1>1. /\ c.entry \in Entry \cup {None} /\ c.removed \in Nat \cup {NoStamp}
      /\ d.entry \in Entry \cup {None} /\ d.removed \in Nat \cup {NoStamp}
      /\ f.entry \in Entry \cup {None} /\ g.entry \in Entry \cup {None}
  BY CellParts
<1>2. /\ w \in Entry \cup {None} /\ s \in Nat \cup {NoStamp} /\ s >= c.removed
      /\ Later(c.removed, c.removed) = c.removed
  BY <1>1, WinnerOne DEF Later, NoStamp
<1>3. c.entry # None => w # None /\ w.stamp >= c.entry.stamp /\ Winner(w, c.entry) = w
  <2>1. Winner(w, f.entry) = w
    BY <1>1, WinnerCommutes, WinnerAssociates, WinnerOne
  <2>2. c.entry # None => Winner(w, c.entry) = w
    <3>1. Winner(Winner(w, f.entry), c.entry) = Winner(w, Winner(f.entry, c.entry))
      BY <1>1, <1>2, WinnerAssociates
    <3> QED BY <2>1, <3>1
  <2> QED BY <1>1, <2>2, WinnerOne
<1>4. MergeCell(f, g) = Resolve(w, s)
  BY DEF MergeCell
<1>5. /\ t.entry = Resolve(w, s).entry /\ t.removed = c.removed
      /\ MergeCell(t, c) = Resolve(Winner(t.entry, c.entry), c.removed)
      /\ MergeCell(t, t) = Resolve(Winner(t.entry, t.entry), c.removed)
  BY <1>2, <1>4 DEF MergeCell
<1>6. MergeCell(c, c) = Resolve(c.entry, c.removed)
  BY <1>1, <1>2, WinnerOne DEF MergeCell
<1>7. MergeCell(c, d) = Resolve(Winner(c.entry, d.entry), s)
  BY DEF MergeCell
<1> HIDE DEF w, s, t
<1>8. CASE w # None /\ (s <= 0 \/ w.stamp > s)
  <2>1. t.entry = w
    BY <1>5, <1>8 DEF Resolve
  <2>2. Winner(w, c.entry) = w /\ Winner(w, w) = w
    BY <1>1, <1>2, <1>3, WinnerOne
  <2> QED BY <1>5, <2>1, <2>2 DEF Covers, t
<1>9. CASE ~(w # None /\ (s <= 0 \/ w.stamp > s))
  <2>1. t.entry = None
    BY <1>5, <1>9 DEF Resolve
  <2>2. Winner(None, c.entry) = c.entry /\ Winner(None, None) = None
    BY <1>1, WinnerOne
  <2>3. Resolve(c.entry, c.removed).entry = None
    <3> SUFFICES ASSUME c.entry # None, c.removed <= 0 \/ c.entry.stamp > c.removed PROVE FALSE
      BY DEF Resolve
    <3>1. Resolve(Winner(c.entry, d.entry), s).entry = c.entry
      BY <1>6, <1>7 DEF Covers, Resolve
    <3>2. Winner(c.entry, d.entry) = c.entry /\ (s <= 0 \/ c.entry.stamp > s)
      BY <3>1 DEF Resolve
    <3> QED BY <1>1, <1>2, <1>3, <1>9, <3>2 DEF Entry, NoStamp
  <2>4. Resolve(c.entry, c.removed) = Resolve(None, c.removed)
    BY <1>1, <2>3 DEF Resolve
  <2> QED BY <1>5, <2>1, <2>2, <2>4 DEF Covers, t
<1> QED BY <1>8, <1>9

LEMMA TornMerge ==
  ASSUME Merging, NEW l \in Collection, NEW r \in Collection, NEW i \in Ids, Covers(l[i], r[i])
  PROVE  Covers([entry |-> MergeSync(l, r)[i].entry, removed |-> l[i].removed], l[i])
<1> DEFINE c == l[i]
           d == r[i]
<1>1. /\ c \in Cell /\ d \in Cell
      /\ \/ MergeSync(l, r)[i] = MergeCell(c, d)
         \/ MergeSync(l, r)[i] = MergeCell(Filled(c, d), Filled(d, c))
  BY MergesCells
<1>2. c.entry # None => Winner(c.entry, c.entry) = c.entry
  BY <1>1, CellParts, WinnerOne
<1>3. /\ Filled(c, d) \in Cell /\ Filled(d, c) \in Cell
      /\ Filled(c, d).removed = c.removed /\ Filled(d, c).removed = d.removed
      /\ c.entry # None => /\ Filled(c, d).entry # None /\ Filled(c, d).entry.stamp = c.entry.stamp
                           /\ Winner(Filled(c, d).entry, c.entry) = Filled(c, d).entry
  BY <1>1, FilledType, FilledParts
<1>4. Covers(c, d)
  OBVIOUS
<1> HIDE DEF c, d
<1>5. Covers([entry |-> MergeCell(c, d).entry, removed |-> c.removed], c)
  BY <1>1, <1>2, <1>4, TornCell
<1>6. Covers([entry |-> MergeCell(Filled(c, d), Filled(d, c)).entry, removed |-> c.removed], c)
  BY <1>1, <1>3, <1>4, TornCell
<1> QED BY <1>1, <1>5, <1>6 DEF c

(* An edit covers what it replaces, unless it removes what was shadowed.    *)
LEMMA SavedCovers ==
  ASSUME NEW f \in Cell, NEW e \in Entry, Winner(e, f.entry) = e
  PROVE  Saved(f, e) \in Cell /\ Covers(Saved(f, e), f) /\ Saved(f, e).entry # None
<1>1. Saved(f, e) \in Cell /\ Saved(f, e).entry = e /\ Saved(f, e).removed = f.removed
  BY DEF Saved, Cell
<1>2. e # None /\ Winner(e, e) = e
  BY SyncMergeAssumption, WinnerOne
<1> QED BY <1>1, <1>2 DEF Covers, MergeCell

LEMMA LaterWins ==
  ASSUME NEW e \in Entry, NEW f \in Entry,
         e.stamp > f.stamp \/ (e.stamp = f.stamp /\ e.value = f.value /\ e.zone > f.zone)
  PROVE  Winner(e, f) = e
  BY SyncMergeAssumption DEF Winner, EntryIsNewer, Entry

LEMMA RemovedCovers ==
  ASSUME NEW f \in Cell, f.entry # None, NEW s \in Nat, s > f.entry.stamp, ~Shadowed(f)
  PROVE  Covers([entry |-> None, removed |-> s], f)
<1>1. f.entry \in Entry /\ f.removed \in Nat \cup {NoStamp}
  BY CellParts
<1>2. Winner(None, f.entry) = f.entry /\ Winner(None, None) = None
  BY <1>1, WinnerOne
<1>3. Later(s, f.removed) = s /\ Later(s, s) = s
  BY <1>1 DEF Later, Shadowed, Entry, NoStamp
<1>4. Resolve(f.entry, s) = Resolve(None, s)
  BY <1>1 DEF Resolve, Entry
<1> QED BY <1>2, <1>3, <1>4 DEF Covers, MergeCell

LEMMA EditCovers ==
  ASSUME Types, Merging, NEW h \in Hosts, NEW i \in Ids, Edit(h, i)
  PROVE  \E c \in Cell :
           Change(h, i, c) /\ (Covers(c, file[h][i]) \/ (c.entry = None /\ Shadowed(file[h][i])))
<1> DEFINE f == file[h][i]
           Good == \E c \in Cell : Change(h, i, c) /\ (Covers(c, f) \/ (c.entry = None /\ Shadowed(f)))
<1>1. f \in Cell /\ f.entry \in Entry \cup {None} /\ f.removed \in Nat \cup {NoStamp}
  BY CellParts DEF Types, Collection
<1>2. Contents[domain] \subseteq Nat /\ Zones \subseteq Nat /\ Stamps \subseteq Nat
  BY CloudSyncAssumption DEF Stamps, Types
<1>3. ASSUME NEW v \in Contents[domain], NEW now \in Stamps,
             Add(h, i, v, now) \/ AddKey(h, i, v, now) \/ SaveNew(h, i, v, now)
      PROVE  Good
  <2>1. f.entry = None /\ \E s \in Nat : Change(h, i, Saved(f, EntryOf(s, v, 0)))
    BY <1>2, <1>3 DEF Add, AddKey, SaveNew, Has, Blank
  <2>2. \A s \in Nat : EntryOf(s, v, 0) \in Entry /\ Winner(EntryOf(s, v, 0), None) = EntryOf(s, v, 0)
    BY <1>2, EntryType, WinnerOne
  <2> HIDE DEF f
  <2> QED BY <1>1, <2>1, <2>2, SavedCovers
<1>4. ASSUME NEW e \in Entry, f.entry # None, Change(h, i, Saved(f, e)),
             \/ e.stamp > f.entry.stamp
             \/ e.stamp = f.entry.stamp /\ e.value = f.entry.value /\ e.zone > f.entry.zone
      PROVE  Good
  <2> HIDE DEF f
  <2>1. Winner(e, f.entry) = e
    BY <1>1, <1>4, LaterWins
  <2> QED BY <1>1, <1>4, <2>1, SavedCovers
<1>5. ASSUME NEW v \in Contents[domain], NEW now \in Stamps, Update(h, i, v, now)
      PROVE  Good
  <2> DEFINE s == NextStamp(now, f.entry.stamp)
             e == EntryOf(s, v, f.entry.zone)
  <2>1. f.entry \in Entry /\ Change(h, i, Saved(f, e))
    BY <1>1, <1>5 DEF Update, Has
  <2>2. s \in Nat /\ s > f.entry.stamp
    BY <1>2, <2>1 DEF NextStamp, Later, Entry
  <2>3. e \in Entry /\ e.stamp = s
    BY <1>2, <2>1, <2>2, EntryType DEF EntryOf, Entry
  <2> HIDE DEF e, s, f, Good
  <2> QED BY <1>4, <2>1, <2>2, <2>3, SyncMergeAssumption
<1>6. ASSUME NEW z \in Zones, NEW now \in Stamps, UpdateTimezone(h, i, z, now)
      PROVE  Good
  <2> DEFINE s == NextStamp(now, f.entry.stamp)
             e == EntryOf(s, f.entry.value, z)
  <2>1. f.entry \in Entry /\ Change(h, i, Saved(f, e))
    BY <1>1, <1>6 DEF UpdateTimezone, Has
  <2>2. s \in Nat /\ s > f.entry.stamp
    BY <1>2, <2>1 DEF NextStamp, Later, Entry
  <2>3. e \in Entry /\ e.stamp = s
    BY <1>2, <2>1, <2>2, EntryType DEF EntryOf, Entry
  <2> HIDE DEF e, s, f, Good
  <2> QED BY <1>4, <2>1, <2>2, <2>3, SyncMergeAssumption
<1>7. ASSUME NEW z \in Zones, FillMissingTimezone(h, i, z)
      PROVE  Good
  <2> DEFINE e == [f.entry EXCEPT !.zone = z]
  <2>1. f.entry \in Entry /\ f.entry.zone = 0 /\ z # 0 /\ Change(h, i, Saved(f, e))
    BY <1>1, <1>7 DEF FillMissingTimezone, Has
  <2>2. e \in Entry /\ e.stamp = f.entry.stamp /\ e.value = f.entry.value /\ e.zone > f.entry.zone
    BY <1>2, <2>1 DEF Entry
  <2> HIDE DEF e, f, Good
  <2> QED BY <1>4, <2>1, <2>2, SyncMergeAssumption
<1>8. ASSUME NEW now \in Stamps, Remove(h, i, now)
      PROVE  Good
  <2> DEFINE s == NextStamp(now, f.entry.stamp)
             c == [entry |-> None, removed |-> s]
  <2>1. f.entry \in Entry /\ f.entry # None /\ Change(h, i, c)
    BY <1>1, <1>8 DEF Remove, Has
  <2>2. s \in Nat /\ s > f.entry.stamp
    BY <1>2, <2>1 DEF NextStamp, Later, Entry
  <2>3. c \in Cell /\ c.entry = None
    BY <2>2 DEF Cell
  <2>4. ~Shadowed(f) => Covers(c, f)
    <3> HIDE DEF f, s
    <3> QED BY <1>1, <2>1, <2>2, RemovedCovers
  <2> QED BY <2>1, <2>3, <2>4
<1>9. \/ \E v \in Contents[domain], now \in Stamps :
           Add(h, i, v, now) \/ AddKey(h, i, v, now) \/ SaveNew(h, i, v, now) \/ Update(h, i, v, now)
      \/ \E z \in Zones, now \in Stamps : UpdateTimezone(h, i, z, now)
      \/ \E z \in Zones : FillMissingTimezone(h, i, z)
      \/ \E now \in Stamps : Remove(h, i, now)
  BY DEF Edit, Merging, StampedDomains, SetInfo
<1> HIDE DEF Good
<1>10. Good
  BY <1>3, <1>5, <1>6, <1>7, <1>8, <1>9
<1> QED BY <1>10 DEF Good

(* Of every identifier that is looked at, some host has what x says of it.  *)
Held(f, n, x) == \A i \in Ids : n[i] # None => \E g \in Hosts : Covers(f[g][i], x[i])
Known(f, n, x) == x = None \/ Held(f, n, x)

(* Some host has every change that was made, and every payload that is      *)
(* about: so a syncer that crashes in a merge has nothing alone that the    *)
(* payload outranked.                                                       *)
KeptInv ==
  Merging =>
    /\ Hosts # {} => Held(file, newest, newest)
    /\ Known(file, newest, cloud)
    /\ \A h \in Hosts : /\ Known(file, newest, kv[h]) /\ Known(file, newest, remote[h])
                        /\ Known(file, newest, local[h])

(* What a step leaves to the hosts together. *)
Rises ==
  \A i \in Ids : newest'[i] # None =>
    newest[i] # None /\ \A g \in Hosts : \E k \in Hosts : Covers(file'[k][i], file[g][i])

LEMMA KeptInit == Init => KeptInv
<1> SUFFICES ASSUME Init PROVE KeptInv
  OBVIOUS
<1>1. TypeOK
  BY TypeInit
<1>2. ASSUME NEW h \in Hosts, NEW i \in Ids PROVE Covers(file[h][i], Blank)
  <2>1. file[h][i] \in Cell /\ Blank \in Cell
    BY <1>1 DEF TypeOK, Types, Collection, Blank, Cell
  <2>2. /\ file[h][i].entry \in Entry \cup {None} /\ file[h][i].removed \in Nat \cup {NoStamp}
        /\ Blank.entry = None /\ Blank.removed = NoStamp
    BY <2>1, CellParts DEF Blank
  <2> QED BY <2>2, WinnerOne DEF Covers, MergeCell, Later, NoStamp
<1> QED BY <1>2 DEF Init, KeptInv, Held, Known

LEMMA HeldStays ==
  ASSUME TypeOK, TypeOK', Rises, NEW x, \A i \in Ids : newest[i] # None => x[i] \in Cell, Held(file, newest, x)
  PROVE  Held(file', newest', x)
<1> SUFFICES ASSUME NEW i \in Ids, newest'[i] # None PROVE \E k \in Hosts : Covers(file'[k][i], x[i])
  BY DEF Held
<1>1. newest[i] # None
  BY DEF Rises
<1>2. PICK g \in Hosts : Covers(file[g][i], x[i])
  BY <1>1 DEF Held
<1>3. PICK k \in Hosts : Covers(file'[k][i], file[g][i])
  BY DEF Rises
<1>4. file'[k][i] \in Cell /\ file[g][i] \in Cell /\ x[i] \in Cell
  BY <1>1 DEF TypeOK, Types, Collection
<1> QED BY <1>2, <1>3, <1>4, CoversTransitive

LEMMA KnownStays ==
  ASSUME TypeOK, TypeOK', Rises, NEW x \in Collection \cup {None}, Known(file, newest, x)
  PROVE  Known(file', newest', x)
<1>1. x = None \/ \A i \in Ids : x[i] \in Cell
  BY DEF Collection
<1> QED BY <1>1, HeldStays DEF Known

LEMMA OwnIsKnown == \A f, n : \A h \in Hosts : Known(f, n, f[h])
  BY CoversItself DEF Known, Held

(* A step that moves payloads about, on a store where nothing was lost.     *)
LEMMA KeptMoves ==
  ASSUME TypeOK, TypeOK', KeptInv, domain' = domain, Rises,
         Merging /\ Hosts # {} => Held(file', newest', newest'),
         \A h \in Hosts :
           /\ kv'[h] \in {kv[h], cloud, local[h]}
           /\ remote'[h] \in {remote[h], kv[h], None}
           /\ local'[h] \in {local[h], file'[h], None},
         cloud' = cloud \/ \E h \in Hosts : cloud' = kv[h]
  PROVE  KeptInv'
<1> SUFFICES ASSUME Merging
             PROVE  /\ Hosts # {} => Held(file', newest', newest')
                    /\ Known(file', newest', cloud')
                    /\ \A h \in Hosts : /\ Known(file', newest', kv'[h]) /\ Known(file', newest', remote'[h])
                                        /\ Known(file', newest', local'[h])
  BY DEF KeptInv, Merging
<1>1. /\ cloud \in Collection \cup {None}
      /\ \A h \in Hosts : /\ kv[h] \in Collection \cup {None} /\ remote[h] \in Collection \cup {None}
                          /\ local[h] \in Collection \cup {None}
  BY DEF TypeOK, Types
<1>2. /\ Known(file, newest, cloud)
      /\ \A h \in Hosts : /\ Known(file, newest, kv[h]) /\ Known(file, newest, remote[h])
                          /\ Known(file, newest, local[h])
  BY DEF KeptInv
<1>3. /\ Known(file', newest', cloud)
      /\ \A h \in Hosts : /\ Known(file', newest', kv[h]) /\ Known(file', newest', remote[h])
                          /\ Known(file', newest', local[h])
  BY <1>1, <1>2, KnownStays
<1>4. Known(file', newest', None) /\ \A h \in Hosts : Known(file', newest', file'[h])
  BY OwnIsKnown DEF Known
<1> QED BY <1>3, <1>4

LEMMA SameRises ==
  ASSUME TypeOK, UNCHANGED <<file, newest, domain>>, KeptInv
  PROVE  Rises /\ (Merging /\ Hosts # {} => Held(file', newest', newest'))
  BY CoversItself DEF Rises, KeptInv

(* An edit on h. *)
LEMMA KeptEdit ==
  ASSUME TypeOK, TypeOK', KeptInv, NEW h \in Hosts, NEW i \in Ids, Edit(h, i)
  PROVE  KeptInv'
<1> SUFFICES ASSUME Merging PROVE KeptInv'
  BY DomainFixed DEF Next, KeptInv, Merging
<1>1. PICK c \in Cell :
        Change(h, i, c) /\ (Covers(c, file[h][i]) \/ (c.entry = None /\ Shadowed(file[h][i])))
  BY EditCovers DEF TypeOK
<1>2. /\ \A g \in Hosts, j \in Ids : file'[g][j] = IF g = h /\ j = i THEN c ELSE file[g][j]
      /\ \A j \in Ids : newest'[j] = IF j = i THEN Recorded(i, file[h][i], c) ELSE newest[j]
      /\ UNCHANGED <<domain, remote, local, kv, cloud>>
  BY <1>1 DEF Change, TypeOK, Types, Collection, storeVars
<1>3. newest'[i] # None =>
        /\ newest[i] # None /\ newest'[i] = MergeCell(newest[i], c) /\ Covers(c, file[h][i])
        /\ newest[i] \in Cell
  BY <1>1, <1>2 DEF Recorded, TypeOK, Types
<1>4. Rises
  BY <1>2, <1>3, CoversItself DEF Rises
<1>5. ASSUME NEW j \in Ids, newest'[j] # None
      PROVE  \E g \in Hosts : Covers(file'[g][j], newest'[j])
  <2>1. PICK g \in Hosts : Covers(file'[g][j], newest[j])
    <3>1. Held(file, newest, newest)
      BY DEF KeptInv
    <3>2. \A k \in Ids : newest[k] # None => newest[k] \in Cell
      BY DEF TypeOK, Types
    <3> QED BY <1>4, <1>5, <3>1, <3>2, HeldStays DEF Held
  <2>2. CASE j # i
    BY <1>2, <2>1, <2>2
  <2>3. CASE j = i
    <3> DEFINE b == file'[g][i]
    <3>1. b \in Cell /\ newest[i] \in Cell /\ Covers(b, newest[i]) /\ newest'[i] = MergeCell(newest[i], c)
      BY <1>3, <1>5, <2>1, <2>3 DEF TypeOK, Types, Collection
    <3>2. file'[h][i] = c
      BY <1>2
    <3> HIDE DEF b
    <3>3. CASE Covers(b, c)
      BY <2>3, <3>1, <3>3, CoversMerge DEF b
    <3>4. CASE Covers(c, b)
      <4>1. Covers(c, newest[i])
        BY <3>1, <3>4, CoversTransitive
      <4>2. Covers(c, MergeCell(newest[i], c))
        BY <3>1, <4>1, CoversItself, CoversMerge
      <4> QED BY <2>3, <3>1, <3>2, <4>2
    <3> QED BY <3>1, <3>3, <3>4, CoversTotal
  <2> QED BY <2>2, <2>3
<1>6. Held(file', newest', newest')
  BY <1>5 DEF Held
<1> QED BY <1>2, <1>4, <1>6, KeptMoves

(* A merge on h, whole or torn by a crash. *)
LEMMA KeptMerge ==
  ASSUME TypeOK, TypeOK', KeptInv, Merging, NEW h \in Hosts, MergeRemote(h) \/ CrashInMerge(h)
  PROVE  Rises /\ Held(file', newest', newest')
<1> DEFINE l == file[h]
           r == remote[h]
<1>1. l \in Collection /\ r \in Collection /\ Known(file, newest, r) /\ r # None
  BY CloudSyncAssumption DEF TypeOK, Types, MergesPayload, MergeRemote, CrashInMerge, KeptInv
<1>2. /\ newest' = newest /\ \A g \in Hosts \ {h} : file'[g] = file[g]
      /\ \/ file'[h] = MergeSync(l, r)
         \/ file'[h] = [i \in Ids |-> [entry |-> MergeSync(l, r)[i].entry, removed |-> l[i].removed]]
  BY DEF MergeRemote, CrashInMerge, TypeOK, Types
<1>3. ASSUME NEW i \in Ids, newest[i] # None, NEW g \in Hosts
      PROVE  \E k \in Hosts : Covers(file'[k][i], file[g][i])
  <2>1. l[i] \in Cell /\ r[i] \in Cell
    BY <1>1 DEF Collection
  <2>2. CASE g # h
    BY <1>2, <2>2, CoversItself
  <2>3. CASE g = h /\ file'[h] = MergeSync(l, r)
    BY <1>1, <2>3, MergeSyncCovers
  <2>4. CASE g = h /\ Covers(l[i], r[i])
            /\ file'[h] = [j \in Ids |-> [entry |-> MergeSync(l, r)[j].entry, removed |-> l[j].removed]]
    <3>1. Covers([entry |-> MergeSync(l, r)[i].entry, removed |-> l[i].removed], l[i])
      <4> HIDE DEF l, r
      <4> QED BY <1>1, <2>4, TornMerge
    <3> QED BY <2>4, <3>1
  <2>5. CASE g = h /\ ~Covers(l[i], r[i])
    <3>1. PICK k \in Hosts : Covers(file[k][i], r[i])
      BY <1>1, <1>3 DEF Known, Held
    <3>2. k # h /\ Covers(r[i], l[i]) /\ file[k][i] \in Cell
      BY <2>1, <2>5, <3>1, CoversTotal DEF TypeOK, Types, Collection
    <3>3. Covers(file[k][i], l[i])
      <4> HIDE DEF l, r
      <4> QED BY <2>1, <3>1, <3>2, CoversTransitive
    <3> QED BY <1>2, <2>5, <3>2, <3>3
  <2> QED BY <1>2, <2>2, <2>3, <2>4, <2>5
<1>4. Rises
  BY <1>2, <1>3 DEF Rises
<1>5. Held(file, newest, newest) /\ \A i \in Ids : newest[i] # None => newest[i] \in Cell
  BY DEF KeptInv, TypeOK, Types
<1> QED BY <1>2, <1>4, <1>5, HeldStays

(* A crash that tears a removal: nothing more is claimed of its identifier. *)
LEMMA KeptTornRemoval ==
  ASSUME TypeOK, TypeOK', KeptInv, Merging, NEW h \in Hosts, NEW i \in Ids, CrashInRemove(h, i)
  PROVE  Rises /\ Held(file', newest', newest')
<1>1. /\ \A g \in Hosts, j \in Ids \ {i} : file'[g][j] = file[g][j]
      /\ newest'[i] = None /\ \A j \in Ids \ {i} : newest'[j] = newest[j]
  BY DEF CrashInRemove, TypeOK, Types, Collection
<1>2. Rises
  BY <1>1, CoversItself DEF Rises
<1>3. Held(file, newest, newest) /\ \A j \in Ids : newest[j] # None => newest[j] \in Cell
  BY DEF KeptInv, TypeOK, Types
<1>4. Held(file', newest', newest)
  BY <1>2, <1>3, HeldStays
<1> QED BY <1>1, <1>2, <1>4 DEF Held

LEMMA KeptStep == TypeOK /\ TypeOK' /\ KeptInv /\ Next => KeptInv'
<1> SUFFICES ASSUME TypeOK, TypeOK', KeptInv, NEW h \in Hosts,
                    \/ \E i \in Ids : Edit(h, i)
                    \/ Syncing(h) \/ Upload(h) \/ Download(h) \/ Crashing(h)
             PROVE  KeptInv'
  BY DEF Next
<1>1. ASSUME NEW i \in Ids, Edit(h, i) PROVE KeptInv'
  BY <1>1, KeptEdit
<1>2. domain' = domain
  BY DomainFixed DEF Next
<1>3. /\ kv \in [Hosts -> Collection \cup {None}] /\ remote \in [Hosts -> Collection \cup {None}]
      /\ local \in [Hosts -> Collection \cup {None}]
  BY DEF TypeOK, Types
<1>4. CASE Wake(h)
  BY <1>2, <1>3, <1>4, KeptMoves, SameRises DEF Wake, storeVars
<1>5. CASE Get(h)
  BY <1>2, <1>3, <1>5, KeptMoves, SameRises DEF Get, storeVars
<1>6. CASE ExportSync(h)
  BY <1>2, <1>3, <1>6, KeptMoves, SameRises DEF ExportSync, storeVars
<1>7. CASE Set(h)
  BY <1>2, <1>3, <1>7, KeptMoves, SameRises DEF Set
<1>8. CASE Upload(h)
  BY <1>2, <1>3, <1>8, KeptMoves, SameRises DEF Upload, syncerVars
<1>9. CASE Download(h)
  BY <1>2, <1>3, <1>9, KeptMoves, SameRises DEF Download
<1>10. CASE Crash(h)
  BY <1>2, <1>3, <1>10, KeptMoves, SameRises DEF Crash, Restart, storeVars
<1>11. CASE MergeRemote(h)
  <2>1. CASE ~Merging
    BY <1>2, <2>1 DEF KeptInv, Merging
  <2> QED BY <1>2, <1>3, <1>11, <2>1, KeptMoves, KeptMerge DEF MergeRemote, storeVars
<1>12. CASE CrashInMerge(h)
  <2>1. CASE ~Merging
    BY <1>2, <2>1 DEF KeptInv, Merging
  <2> QED BY <1>2, <1>3, <1>12, <2>1, KeptMoves, KeptMerge DEF CrashInMerge, Restart, storeVars
<1>13. ASSUME NEW i \in Ids, CrashInRemove(h, i) PROVE KeptInv'
  <2>1. CASE ~Merging
    BY <1>2, <2>1 DEF KeptInv, Merging
  <2> QED BY <1>2, <1>3, <1>13, <2>1, KeptMoves, KeptTornRemoval DEF CrashInRemove, Restart, storeVars
<1> QED BY <1>1, <1>4, <1>5, <1>6, <1>7, <1>8, <1>9, <1>10, <1>11, <1>12, <1>13 DEF Syncing, Crashing

LEMMA KeptStays == KeptInv /\ UNCHANGED vars => KeptInv'
  BY DEF KeptInv, Merging, Known, Held, vars, syncerVars, storeVars

(* No change is lost: once all is quiet, every host has every change that a *)
(* user made, or one that outranks it, whatever was overwritten in the      *)
(* key-value store and wherever in a merge a host crashed.                  *)
THEOREM ChangesSurvive == Spec => []EditsSurvive
<1>1. TypeOK /\ KeptInv /\ Converged => EditsSurvive
  <2> SUFFICES ASSUME KeptInv, Converged, Quiet, Merging, NEW h \in Hosts, NEW i \in Ids, newest[i] # None
               PROVE  Covers(file[h][i], newest[i])
    BY DEF EditsSurvive, Merging
  <2>1. \E g \in Hosts : Covers(file[g][i], newest[i])
    BY DEF KeptInv, Held
  <2> QED BY <2>1 DEF Converged
<1> QED BY <1>1, HostsConverge, TypeInit, TypeNext, KeptInit, KeptStep, KeptStays, PTL DEF Spec
------------------------------------------------------------------------------
(* The hosts implement Replicas                                             *)

(* What an entry may be made of: the stamp and the value of one side and the *)
(* timezone of one side.                                                    *)
MadeOf(e, f, g) ==
  \E a, b \in {f, g} \ {None} : e.stamp = a.stamp /\ e.value = a.value /\ e.zone = b.zone

LEMMA FilledIsMade ==
  ASSUME NEW c \in Cell, NEW d \in Cell, c.entry # None
  PROVE  /\ Filled(c, d).entry # None
         /\ MadeOf(Filled(c, d).entry, c.entry, d.entry)
<1>1. c.entry \in Entry /\ d.entry \in Entry \cup {None}
  BY CellParts
<1>2. CASE c.entry.zone # 0
  BY <1>1, <1>2 DEF Filled, MadeOf
<1>3. CASE c.entry.zone = 0
  <2> DEFINE e == [c.entry EXCEPT !.zone = Zone(d)]
  <2>1. e.stamp = c.entry.stamp /\ e.value = c.entry.value /\ e.zone = Zone(d) /\ e \in Entry
    BY <1>1 DEF Entry, Zone
  <2>2. Filled(c, d).entry = e
    BY <1>3 DEF Filled, Cell
  <2>3. Zone(d) = c.entry.zone \/ (d.entry # None /\ Zone(d) = d.entry.zone)
    BY <1>3 DEF Zone
  <2> HIDE DEF e
  <2>4. e # None
    BY <2>1, SyncMergeAssumption
  <2> QED BY <1>1, <2>1, <2>2, <2>3, <2>4 DEF MadeOf
<1> QED BY <1>2, <1>3

(* A merged cell outranks both that it is made of.                          *)
LEMMA MergeJoinsCells ==
  ASSUME NEW c \in Cell, NEW d \in Cell, NEW f \in Cell, NEW g \in Cell,
         \/ f = c /\ g = d
         \/ f = Filled(c, d) /\ g = Filled(d, c)
  PROVE  LET m == MergeCell(f, g)
         IN  /\ Covers(m, c) /\ Covers(m, d)
             /\ m.removed \in {c.removed, d.removed, NoStamp}
             /\ m.entry # None => MadeOf(m.entry, c.entry, d.entry)
<1> DEFINE m == MergeCell(f, g)
<1>1. Covers(f, c) /\ Covers(g, d)
  BY FilledCovers, CoversItself
<1>2. m \in Cell /\ Covers(m, f) /\ Covers(m, g)
  BY MergeType, MergeCovers, MergeCommutes
<1>3. Covers(m, c) /\ Covers(m, d)
  <2> HIDE DEF m
  <2> QED BY <1>1, <1>2, CoversTransitive
<1>4. f.removed = c.removed /\ g.removed = d.removed
  BY FilledParts
<1>5. m.removed \in {c.removed, d.removed, NoStamp}
  BY <1>4 DEF MergeCell, Resolve, Later
<1>6. m.entry \in {None, f.entry, g.entry}
  BY DEF MergeCell, Resolve, Winner
<1>7. f.entry # None => c.entry # None /\ MadeOf(f.entry, c.entry, d.entry)
  <2>1. CASE f = c
    BY <2>1 DEF MadeOf
  <2>2. CASE f = Filled(c, d)
    BY <2>2, FilledParts, FilledIsMade
  <2> QED BY <2>1, <2>2
<1>8. g.entry # None => d.entry # None /\ MadeOf(g.entry, d.entry, c.entry)
  <2>1. CASE g = d
    BY <2>1 DEF MadeOf
  <2>2. CASE g = Filled(d, c)
    BY <2>2, FilledParts, FilledIsMade
  <2> QED BY <2>1, <2>2
<1>9. \A e : MadeOf(e, d.entry, c.entry) => MadeOf(e, c.entry, d.entry)
  BY DEF MadeOf
<1> QED BY <1>3, <1>5, <1>6, <1>7, <1>8, <1>9

LEMMA MergeSyncJoins ==
  ASSUME NEW l \in Collection, NEW r \in Collection, NEW i \in Ids
  PROVE  Promised!Joins(MergeSync(l, r)[i], l[i], r[i])
<1> DEFINE c == l[i]
           d == r[i]
           m == MergeSync(l, r)[i]
<1>1. c \in Cell /\ d \in Cell /\ Filled(c, d) \in Cell /\ Filled(d, c) \in Cell
  BY FilledType DEF Collection
<1>2. CASE domain = "settings"
  BY <1>2 DEF MergeSync, MergeSettings, Promised!Joins
<1>3. CASE domain # "settings"
  <2>1. m = MergeCell(c, d) \/ m = MergeCell(Filled(c, d), Filled(d, c))
    BY <1>3 DEF MergeSync, Merge, Fill, Collection
  <2> HIDE DEF m
  <2>2. /\ Covers(m, c) /\ Covers(m, d)
        /\ m.removed \in {c.removed, d.removed, NoStamp}
        /\ m.entry # None => MadeOf(m.entry, c.entry, d.entry)
    BY <1>1, <2>1, MergeJoinsCells
  <2>3. Promised!Joins(m, c, d)
    BY <1>3, <2>2 DEF Promised!Joins, MadeOf
  <2> QED BY <2>3 DEF m
<1> QED BY <1>2, <1>3

(* Payloads come only from payloads and from what is exported.              *)
LEMMA PayloadsAre ==
  \A p : p \in Payloads <=>
           p # None /\ (p = cloud \/ \E h \in Hosts : p \in {kv[h], remote[h], local[h]})
  BY DEF Payloads

LEMMA PayloadsFrom ==
  ASSUME NEW More, Hosts # {},
         \A h \in Hosts : {kv'[h], remote'[h], local'[h], cloud'} \subseteq Payloads \cup {None} \cup More
  PROVE  Payloads' \subseteq Payloads \cup More
<1> SUFFICES ASSUME NEW p \in Payloads' PROVE p \in Payloads \cup More
  OBVIOUS
<1>1. p # None /\ (p = cloud' \/ \E h \in Hosts : p \in {kv'[h], remote'[h], local'[h]})
  BY DEF Payloads
<1> QED BY <1>1

LEMMA PayloadsThere ==
  \A h \in Hosts : {kv[h], remote[h], local[h], cloud} \subseteq Payloads \cup {None}
  BY PayloadsAre

LEMMA CopyTypes ==
  ASSUME TypeOK
  PROVE  /\ kv \in [Hosts -> Collection \cup {None}] /\ remote \in [Hosts -> Collection \cup {None}]
         /\ local \in [Hosts -> Collection \cup {None}]
  BY DEF TypeOK, Types

LEMMA EditIsAChange ==
  ASSUME NEW h \in Hosts, NEW i \in Ids, Edit(h, i)
  PROVE  \E c : Change(h, i, c)
  BY DEF Edit, Add, AddKey, SaveNew, Update, UpdateTimezone, FillMissingTimezone, SetInfo, Remove

(* The steps of the syncers and of the key-value store.                     *)
LEMMA PayloadsMove ==
  ASSUME TypeOK, NEW h \in Hosts,
         \/ Wake(h) \/ Get(h) \/ MergeRemote(h) \/ Set(h) \/ Upload(h) \/ Download(h) \/ Restart(h)
         \/ \E i \in Ids : Edit(h, i)
  PROVE  Payloads' \subseteq Payloads
<1> DEFINE Same == \A g \in Hosts : {kv'[g], remote'[g], local'[g], cloud'} \subseteq Payloads \cup {None}
<1> SUFFICES Same
  BY PayloadsFrom
<1>1. CASE Wake(h) \/ MergeRemote(h) \/ \E i \in Ids : Edit(h, i)
  <2>1. ASSUME Wake(h) \/ MergeRemote(h) PROVE UNCHANGED <<kv, remote, local, cloud>>
    BY <2>1 DEF Wake, MergeRemote, storeVars
  <2>2. ASSUME NEW i \in Ids, Edit(h, i) PROVE UNCHANGED <<kv, remote, local, cloud>>
    BY <2>2, EditIsAChange DEF Change, storeVars
  <2> QED BY <1>1, <2>1, <2>2, PayloadsThere
<1>2. CASE Get(h)
  BY <1>2, PayloadsThere, CopyTypes DEF Get, storeVars
<1>3. CASE Set(h)
  BY <1>3, PayloadsThere, CopyTypes DEF Set
<1>4. CASE Upload(h)
  BY <1>4, PayloadsThere, CopyTypes DEF Upload, syncerVars
<1>5. CASE Download(h)
  BY <1>5, PayloadsThere, CopyTypes DEF Download
<1>6. CASE Restart(h)
  BY <1>6, PayloadsThere, CopyTypes DEF Restart, storeVars
<1> QED BY <1>1, <1>2, <1>3, <1>4, <1>5, <1>6

LEMMA PayloadsSent ==
  ASSUME TypeOK, NEW h \in Hosts, ExportSync(h)
  PROVE  Payloads' \subseteq Payloads \cup {file[h]}
<1>1. \A g \in Hosts :
        {kv'[g], remote'[g], local'[g], cloud'} \subseteq Payloads \cup {None} \cup {file[h]}
  BY PayloadsThere, CopyTypes DEF ExportSync, storeVars
<1> QED BY <1>1, PayloadsFrom

(* What an edit writes: a tombstone is left alone unless it is a removal.    *)
LEMMA EditWrites ==
  ASSUME Types, NEW h \in Hosts, NEW i \in Ids, Edit(h, i)
  PROVE  \E c : /\ file' = [file EXCEPT ![h][i] = c] /\ UNCHANGED domain
                /\ c.entry # None => c.removed = file[h][i].removed
<1>1. file[h][i] \in Cell
  BY DEF Types, Collection
<1>2. \A e : Saved(file[h][i], e).removed = file[h][i].removed
  BY <1>1 DEF Saved, Cell
<1>3. \/ \E e : Change(h, i, Saved(file[h][i], e))
      \/ \E now \in Stamps : Remove(h, i, now)
  BY DEF Edit, Add, AddKey, SaveNew, Update, UpdateTimezone, FillMissingTimezone, SetInfo
<1>4. CASE \E e : Change(h, i, Saved(file[h][i], e))
  BY <1>2, <1>4 DEF Change
<1>5. ASSUME NEW now \in Stamps, Remove(h, i, now)
      PROVE  \E c : /\ file' = [file EXCEPT ![h][i] = c] /\ UNCHANGED domain
                    /\ c.entry # None => c.removed = file[h][i].removed
  <2>1. \E s : Change(h, i, [entry |-> None, removed |-> s])
    BY <1>5 DEF Remove
  <2>2. \A s : [entry |-> None, removed |-> s].entry = None
    OBVIOUS
  <2> QED BY <2>1, <2>2 DEF Change
<1> QED BY <1>3, <1>4, <1>5

LEMMA EditChangesOne ==
  ASSUME TypeOK, TypeOK', ShownInv, NEW h \in Hosts, NEW i \in Ids, Edit(h, i)
  PROVE  Promised!Change(h, i)
<1>1. /\ file \in [Hosts -> Collection] /\ file' \in [Hosts -> Collection] /\ Types
      /\ file[h] \in Collection
  BY DEF TypeOK, Types
<1>2. PICK c : /\ file' = [file EXCEPT ![h][i] = c] /\ UNCHANGED domain
               /\ c.entry # None => c.removed = file[h][i].removed
  BY <1>1, EditWrites
<1>3. file'[h][i] = c /\ \A j \in Ids \ {i} : file'[h][j] = file[h][j]
  BY <1>1, <1>2 DEF Collection
<1>4. \A g \in Hosts \ {h} : file'[g] = file[g]
  BY <1>1, <1>2
<1>5. Payloads' \subseteq Payloads
  BY PayloadsMove
<1>6. Promised!OnlyAt(h, i)
  BY <1>1, <1>2, <1>3, <1>4, <1>5 DEF Promised!OnlyAt, Promised!Only, Promised!Collection, Collection
<1>7. ASSUME domain \in StampedDomains PROVE Covers(file'[h][i], file[h][i])
  <2>1. PICK f \in Cell :
          /\ file' = [file EXCEPT ![h][i] = f]
          /\ \/ /\ file[h][i].entry = None /\ f.entry # None /\ f.removed = file[h][i].removed
                /\ f.entry.stamp > file[h][i].removed
             \/ /\ file[h][i].entry # None /\ f.entry # None /\ f.removed = file[h][i].removed
                /\ f.entry.stamp > file[h][i].entry.stamp
             \/ file[h][i].entry # None /\ f.entry = None /\ f.removed > file[h][i].entry.stamp
    BY <1>1, <1>7, StampedEdit DEF Stamped
  <2>2. file[h][i] \in Cell /\ Shown(file[h][i])
    BY <1>1, <1>7 DEF ShownInv, Stamped, Collection
  <2>3. file'[h][i] = f
    BY <1>1, <2>1 DEF Collection
  <2> QED BY <2>1, <2>2, <2>3, NewerCovers
<1> QED BY <1>2, <1>3, <1>6, <1>7 DEF Promised!Change

LEMMA MergeLearns ==
  ASSUME TypeOK, TypeOK', NEW h \in Hosts, pc[h] = "merge",
         Payloads' \subseteq Payloads, UNCHANGED domain
  PROVE  /\ remote[h] \in Payloads
         /\ file' = [file EXCEPT ![h] = MergeSync(@, remote[h])] => Promised!Learn(h, remote[h])
         /\ /\ domain # "settings"
            /\ file' = [file EXCEPT ![h] =
                 [i \in Ids |-> [entry |-> MergeSync(@, remote[h])[i].entry, removed |-> @[i].removed]]]
            => Promised!TornLearn(h, remote[h])
<1> DEFINE p == remote[h]
           merged == MergeSync(file[h], p)
<1>1. /\ file \in [Hosts -> Collection] /\ file' \in [Hosts -> Collection] /\ file[h] \in Collection
      /\ p \in Collection /\ p # None
  BY DEF TypeOK, Types, MergesPayload
<1>2. p \in Payloads
  BY <1>1, PayloadsAre
<1>3. \A i \in Ids : Promised!Joins(merged[i], file[h][i], p[i])
  BY <1>1, MergeSyncJoins
<1>4. merged \in Collection
  BY <1>1, MergeSyncType
<1> HIDE DEF merged
<1>5. (\A g \in Hosts \ {h} : file'[g] = file[g]) => Promised!Only(h)
  BY <1>1 DEF Promised!Only, Promised!Collection, Collection
<1>6. ASSUME file' = [file EXCEPT ![h] = merged] PROVE Promised!Learn(h, p)
  <2>1. file'[h] = merged /\ \A g \in Hosts \ {h} : file'[g] = file[g]
    BY <1>1, <1>6
  <2> QED BY <1>3, <1>5, <2>1 DEF Promised!Learn
<1> DEFINE torn == [i \in Ids |-> [entry |-> merged[i].entry, removed |-> file[h][i].removed]]
<1>7. ASSUME domain # "settings", file' = [file EXCEPT ![h] = torn] PROVE Promised!TornLearn(h, p)
  <2>1. file'[h] = torn /\ \A g \in Hosts \ {h} : file'[g] = file[g]
    BY <1>1, <1>7
  <2>2. ASSUME NEW i \in Ids
        PROVE  /\ file'[h][i].removed = file[h][i].removed
               /\ \E r \in {file[h][i].removed, p[i].removed, NoStamp} :
                    Promised!Joins([entry |-> file'[h][i].entry, removed |-> r], file[h][i], p[i])
    <3>1. file'[h][i] = [entry |-> merged[i].entry, removed |-> file[h][i].removed]
      BY <2>1
    <3>2. file'[h][i].entry = merged[i].entry /\ file'[h][i].removed = file[h][i].removed
      BY <3>1
    <3>3. [entry |-> merged[i].entry, removed |-> merged[i].removed] = merged[i]
      BY <1>4 DEF Collection, Cell
    <3>4. merged[i].removed \in {file[h][i].removed, p[i].removed, NoStamp}
      BY <1>3, <1>7 DEF Promised!Joins
    <3> QED BY <1>3, <3>2, <3>3, <3>4
  <2> QED BY <1>5, <1>7, <2>1, <2>2 DEF Promised!TornLearn
<1> QED BY <1>2, <1>6, <1>7 DEF merged

LEMMA ReplicasStep ==
  TypeOK /\ TypeOK' /\ ShownInv /\ [Next]_vars => [Promised!Next]_(Promised!replicaVars)
<1> SUFFICES ASSUME TypeOK, TypeOK', ShownInv, [Next]_vars
             PROVE  Promised!Next \/ UNCHANGED Promised!replicaVars
  OBVIOUS
<1>1. CASE UNCHANGED vars
  <2>1. UNCHANGED <<domain, file, kv, remote, local, cloud>>
    BY <1>1 DEF vars, syncerVars, storeVars
  <2> QED BY <2>1 DEF Promised!replicaVars, Payloads
<1>2. ASSUME NEW h \in Hosts, NEW i \in Ids, Edit(h, i) PROVE Promised!Next
  BY <1>2, EditChangesOne DEF Promised!Next
<1>3. ASSUME NEW h \in Hosts, Wake(h) \/ Get(h) \/ Set(h) \/ Upload(h) \/ Download(h) \/ Crash(h)
      PROVE  Promised!Next
  <2>1. Payloads' \subseteq Payloads
    BY <1>3, PayloadsMove DEF Crash
  <2>2. UNCHANGED <<domain, file>>
    BY <1>3 DEF Wake, Get, Set, Upload, Download, Crash, Restart
  <2>3. Promised!Send(h)
    BY <2>1, <2>2 DEF Promised!Send
  <2> QED BY <2>3 DEF Promised!Next
<1>4. ASSUME NEW h \in Hosts, ExportSync(h) PROVE Promised!Next
  <2>1. Promised!Send(h)
    BY <1>4, PayloadsSent DEF ExportSync, Promised!Send
  <2> QED BY <2>1 DEF Promised!Next
<1>5. ASSUME NEW h \in Hosts, MergeRemote(h) PROVE Promised!Next
  <2>1. Payloads' \subseteq Payloads
    BY <1>5, PayloadsMove
  <2>2. remote[h] \in Payloads /\ Promised!Learn(h, remote[h])
    BY <1>5, <2>1, MergeLearns DEF MergeRemote
  <2> QED BY <2>2 DEF Promised!Next
<1>6. ASSUME NEW h \in Hosts, CrashInMerge(h) PROVE Promised!Next
  <2>1. Payloads' \subseteq Payloads /\ UNCHANGED domain
    BY <1>6, PayloadsMove DEF CrashInMerge, Restart
  <2>2. remote[h] \in Payloads /\ Promised!TornLearn(h, remote[h])
    BY <1>6, <2>1, MergeLearns DEF CrashInMerge
  <2> QED BY <2>2 DEF Promised!Next
<1>7. ASSUME NEW h \in Hosts, NEW i \in Ids, CrashInRemove(h, i) PROVE Promised!Next
  <2>1. /\ Payloads' \subseteq Payloads /\ UNCHANGED domain /\ domain # "settings"
        /\ file' = [file EXCEPT ![h][i].entry = None]
    BY <1>7, PayloadsMove DEF CrashInRemove, Restart
  <2>2. /\ file \in [Hosts -> Collection] /\ file' \in [Hosts -> Collection] /\ file[h] \in Collection
    BY DEF TypeOK, Types
  <2>3. /\ file'[h][i] = [file[h][i] EXCEPT !.entry = None]
        /\ \A j \in Ids \ {i} : file'[h][j] = file[h][j]
        /\ \A g \in Hosts \ {h} : file'[g] = file[g]
    BY <2>1, <2>2 DEF Collection
  <2>4. Promised!TornRemoval(h, i)
    BY <2>1, <2>2, <2>3
    DEF Promised!TornRemoval, Promised!OnlyAt, Promised!Only, Promised!Collection, Collection
  <2> QED BY <2>4 DEF Promised!Next
<1> QED BY <1>1, <1>2, <1>3, <1>4, <1>5, <1>6, <1>7 DEF Next, Syncing, Crashing

(* The hosts, their syncers and the key-value store come to what Replicas    *)
(* promises, step by step: nothing but a user's change, of one identifier at *)
(* a time, and the merge of a whole payload that some host held changes a    *)
(* collection, wherever a host crashes but for what the crash tore.          *)
THEOREM SyncImplementsReplicas == Spec => ActsAsReplicas
<1>1. Init => Promised!Init
  <2> SUFFICES ASSUME Init PROVE Promised!Init
    OBVIOUS
  <2>1. file \in [Hosts -> Collection]
    BY TypeInit DEF TypeOK, Types
  <2>2. Payloads = {}
    BY PayloadsAre DEF Init
  <2> QED BY <2>1, <2>2 DEF Promised!Init, Promised!Collection, Collection
<1>2. TypeOK /\ TypeOK' /\ ShownInv /\ [Next]_vars => [Promised!Next]_(Promised!replicaVars)
  BY ReplicasStep
<1>3. Spec => []ShownInv
  BY ShownInit, ShownNext, PTL DEF Spec
<1> QED BY <1>1, <1>2, <1>3, SyncTypeCorrect, PTL DEF Spec, ActsAsReplicas, Promised!Spec
------------------------------------------------------------------------------
(* Two hosts that exchange payloads both ways                               *)

LEMMA MergedIsSettled ==
  ASSUME NEW c \in Cell, NEW d \in Cell
  PROVE  LET m == MergeCell(c, d)
         IN  MergeCell(m, m) = m /\ MergeCell(d, m) = m
<1> DEFINE m == MergeCell(c, d)
<1>1. m \in Cell
  BY MergeType
<1>2. MergeCell(m, d) = m
  BY MergeIdempotent
<1>3. MergeCell(m, c) = m
  BY MergeIdempotent, MergeCommutes
<1>4. MergeCell(m, MergeCell(c, d)) = MergeCell(MergeCell(m, c), d)
  BY <1>1, MergeAssociates
<1>5. MergeCell(d, m) = m
  BY <1>1, <1>2, MergeCommutes
<1> QED BY <1>2, <1>3, <1>4, <1>5

(* Of saved tablets: what the merge filled in is not undone when the result *)
(* comes back.                                                              *)
LEMMA FilledAgain ==
  ASSUME NEW c \in Cell, NEW d \in Cell
  PROVE  LET m == MergeCell(Filled(c, d), Filled(d, c))
         IN  Filled(m, d) = m /\ MergeCell(Filled(d, m), Filled(m, d)) = m
<1> DEFINE f == Filled(c, d)
           g == Filled(d, c)
           m == MergeCell(f, g)
           k == Filled(d, m)
<1>1. /\ f \in Cell /\ g \in Cell /\ m \in Cell /\ k \in Cell
      /\ c.entry \in Entry \cup {None} /\ d.entry \in Entry \cup {None}
      /\ f.entry \in Entry \cup {None} /\ g.entry \in Entry \cup {None}
  BY FilledType, MergeType, CellParts
<1>2. k.removed = d.removed /\ g.removed = d.removed /\ f.removed = c.removed
  BY <1>1, FilledParts
<1>3. f.entry = IF c.entry # None /\ c.entry.zone = 0 THEN [c.entry EXCEPT !.zone = Zone(d)] ELSE c.entry
  BY DEF Filled, Cell
<1>4. g.entry = IF d.entry # None /\ d.entry.zone = 0 THEN [d.entry EXCEPT !.zone = Zone(c)] ELSE d.entry
  BY DEF Filled, Cell
<1>5. k.entry = IF d.entry # None /\ d.entry.zone = 0 THEN [d.entry EXCEPT !.zone = Zone(m)] ELSE d.entry
  BY DEF Filled, Cell
<1>6. Filled(m, d) = IF m.entry # None /\ m.entry.zone = 0 THEN [m EXCEPT !.entry.zone = Zone(d)] ELSE m
  BY DEF Filled
<1>7. Zone(c) = (IF c.entry = None THEN 0 ELSE c.entry.zone) /\ Zone(d) = (IF d.entry = None THEN 0 ELSE d.entry.zone)
      /\ Zone(m) = (IF m.entry = None THEN 0 ELSE m.entry.zone)
  BY DEF Zone
<1>8. m.entry \in {None, f.entry, g.entry} /\ m.entry \in Entry \cup {None}
  BY <1>1, CellParts DEF MergeCell, Resolve, Winner
<1>9. MergeCell(m, d) = m
  <2>1. Covers(m, g) /\ Covers(g, d)
    BY <1>1, MergeCovers, FilledCovers
  <2>2. MergeCell(m, m) = m
    BY <1>1, MergedIsSettled
  <2> HIDE DEF m, g
  <2>3. Covers(m, d)
    BY <1>1, <2>1, CoversTransitive
  <2> QED BY <2>2, <2>3 DEF Covers
<1> HIDE DEF f, g, k, m
<1>10. CASE m.entry = None
  <2>1. d.entry # None /\ d.entry.zone = 0 => [d.entry EXCEPT !.zone = 0] = d.entry
    BY <1>1 DEF Entry
  <2>2. k.entry = d.entry
    BY <1>5, <1>7, <1>10, <2>1
  <2>3. k = d
    BY <1>1, <1>2, <2>2 DEF Cell
  <2> QED BY <1>1, <1>6, <1>9, <1>10, <2>3, MergeCommutes DEF f, g, k, m
<1>11. CASE m.entry # None
  <2>1. m.entry.zone = 0 => Zone(d) = 0
    <3>1. CASE m.entry = f.entry
      <4>1. c.entry \in Entry
        BY <1>1, <1>3, <1>11, <3>1
      <4>2. CASE c.entry.zone = 0
        <5>1. [c.entry EXCEPT !.zone = Zone(d)].zone = Zone(d)
          BY <4>1 DEF Entry
        <5> QED BY <1>1, <1>3, <3>1, <4>1, <4>2, <5>1, SyncMergeAssumption
      <4> QED BY <1>3, <3>1, <4>2
    <3>2. CASE m.entry = g.entry
      <4>1. d.entry \in Entry
        BY <1>1, <1>4, <1>11, <3>2
      <4> QED BY <1>4, <1>7, <3>2, <4>1 DEF Entry
    <3> QED BY <1>8, <1>11, <3>1, <3>2
  <2>2. Filled(m, d) = m
    <3>1. m.entry.zone = 0 => [m EXCEPT !.entry.zone = 0] = m
      BY <1>1, <1>8, <1>11 DEF Cell, Entry
    <3> QED BY <1>6, <2>1, <3>1
  <2>3. m.entry \in Entry /\ m.removed = NoStamp
        /\ (Later(f.removed, g.removed) <= 0 \/ m.entry.stamp > Later(f.removed, g.removed))
        /\ m.entry = Winner(f.entry, g.entry)
    BY <1>8, <1>11 DEF m, MergeCell, Resolve
  <2>4. Later(m.removed, k.removed) <= 0 \/ m.entry.stamp > Later(m.removed, k.removed)
    <3>1. c.removed \in Nat \cup {NoStamp} /\ d.removed \in Nat \cup {NoStamp}
      BY CellParts
    <3> QED BY <1>2, <2>3, <3>1 DEF Later, NoStamp, Entry
  <2>5. Winner(m.entry, k.entry) = m.entry
    <3>1. CASE d.entry # None /\ d.entry.zone = 0
      <4>1. d.entry \in Entry /\ k.entry = [d.entry EXCEPT !.zone = m.entry.zone] /\ g.entry # None
        BY <1>1, <1>4, <1>5, <1>7, <1>11, <3>1, SyncMergeAssumption DEF Entry, Zone
      <4>2. /\ k.entry.stamp = d.entry.stamp /\ k.entry.value = d.entry.value /\ k.entry.zone = m.entry.zone
            /\ g.entry.stamp = d.entry.stamp /\ g.entry.value = d.entry.value /\ g.entry \in Entry
        BY <1>1, <1>4, <3>1, <4>1 DEF Entry
      <4>3. m.entry = g.entry \/ ~EntryIsNewer(g.entry, m.entry)
        BY <1>1, <2>3, <4>1 DEF Winner, EntryIsNewer, Entry
      <4>4. ~EntryIsNewer(k.entry, m.entry)
        BY <2>3, <4>2, <4>3 DEF EntryIsNewer, Entry
      <4> QED BY <1>11, <4>4 DEF Winner
    <3>2. CASE ~(d.entry # None /\ d.entry.zone = 0)
      <4>1. k.entry = g.entry
        BY <1>4, <1>5, <3>2
      <4> QED BY <1>1, <2>3, <4>1, WinnerAssociates, WinnerOne
    <3> QED BY <3>1, <3>2
  <2>6. MergeCell(m, k) = [entry |-> m.entry, removed |-> NoStamp]
    BY <1>11, <2>4, <2>5 DEF MergeCell, Resolve
  <2>7. MergeCell(m, k) = m
    BY <1>1, <2>3, <2>6 DEF Cell
  <2> QED BY <1>1, <2>2, <2>7, MergeCommutes DEF f, g, k, m
<1> QED BY <1>10, <1>11

(* Of two settings that differ one wins, whichever host asks.               *)
LEMMA SettingsOneWins ==
  ASSUME NEW e \in Entry, NEW f \in Entry, e.value # f.value
  PROVE  RemoteSettingsWin(e, f) <=> ~RemoteSettingsWin(f, e)
  BY DEF RemoteSettingsWin, DefaultValue, Entry

LEMMA SettingsExchange ==
  ASSUME NEW c \in Cell, NEW d \in Cell, c.entry # None, d.entry # None
  PROVE  LET m == MergeSettings(c, d)
             n == MergeSettings(d, m)
         IN  n.entry.value = m.entry.value /\ MergeSettings(m, n) = m
<1>1. c.entry \in Entry /\ d.entry \in Entry
  BY CellParts
<1>2. CASE c.entry.value = d.entry.value
  BY <1>2 DEF MergeSettings
<1>3. CASE c.entry.value # d.entry.value
  BY <1>1, <1>3, SettingsOneWins DEF MergeSettings
<1> QED BY <1>2, <1>3

Settled(m, n) ==
  IF domain = "settings" THEN \A i \in Ids : m[i].entry.value = n[i].entry.value ELSE m = n

(* "Two hosts that exchanged payloads both ways settle on the same value"   *)
(* (syncer.go:1), in every store: once one has merged what the other held   *)
(* and the other what came of that, they hold the same, settings but for    *)
(* their stamps, and a payload of it would change nothing more.             *)
THEOREM ExchangeSettles ==
  ASSUME NEW l \in Collection, NEW r \in Collection,
         domain = "settings" => \A i \in Ids : l[i].entry # None /\ r[i].entry # None
  PROVE  LET m == MergeSync(l, r)
             n == MergeSync(r, m)
         IN  Settled(m, n) /\ MergeSync(m, n) = m
<1> DEFINE m == MergeSync(l, r)
           n == MergeSync(r, m)
<1>1. m \in Collection /\ n \in Collection
  BY MergeSyncType
<1>2. \A i \in Ids : l[i] \in Cell /\ r[i] \in Cell /\ m[i] \in Cell
  BY <1>1 DEF Collection
<1>3. CASE domain = "settings"
  <2>1. /\ m = [i \in Ids |-> MergeSettings(l[i], r[i])]
        /\ n = [i \in Ids |-> MergeSettings(r[i], m[i])]
        /\ MergeSync(m, n) = [i \in Ids |-> MergeSettings(m[i], n[i])]
    BY <1>3 DEF MergeSync
  <2> HIDE DEF m, n
  <2>2. \A i \in Ids : n[i].entry.value = m[i].entry.value /\ MergeSettings(m[i], n[i]) = m[i]
    BY <1>2, <1>3, <2>1, SettingsExchange
  <2>3. MergeSync(m, n) = m
    BY <1>1, <2>1, <2>2 DEF Collection
  <2> QED BY <1>3, <2>2, <2>3 DEF Settled, m, n
<1>4. CASE domain = "devices"
  <2>1. /\ m = [i \in Ids |-> MergeCell(Filled(l[i], r[i]), Filled(r[i], l[i]))]
        /\ n = [i \in Ids |-> MergeCell(Filled(r[i], m[i]), Filled(m[i], r[i]))]
        /\ MergeSync(m, m) = [i \in Ids |-> MergeCell(Filled(m[i], m[i]), Filled(m[i], m[i]))]
    BY <1>4 DEF MergeSync, Merge, Fill
  <2> HIDE DEF m, n
  <2>2. \A i \in Ids : n[i] = m[i]
    BY <1>2, <2>1, FilledAgain
  <2>3. n = m
    BY <1>1, <2>2 DEF Collection
  <2>4. ASSUME NEW i \in Ids PROVE MergeCell(Filled(m[i], m[i]), Filled(m[i], m[i])) = m[i]
    <3> DEFINE c == Filled(l[i], r[i])
               d == Filled(r[i], l[i])
    <3>1. c \in Cell /\ d \in Cell
      BY <1>2, FilledType
    <3>2. m[i] = MergeCell(c, d)
      BY <2>1
    <3> HIDE DEF c, d
    <3>3. MergeCell(m[i], m[i]) = m[i]
      BY <3>1, <3>2, MergedIsSettled
    <3>4. Filled(m[i], m[i]) = m[i]
      <4>1. m[i].entry \in Entry \cup {None}
        BY <1>2, CellParts
      <4>2. m[i].entry # None /\ m[i].entry.zone = 0 => [m[i] EXCEPT !.entry.zone = 0] = m[i]
        BY <1>2, <4>1 DEF Cell, Entry
      <4> QED BY <4>2 DEF Filled, Zone
    <3> QED BY <3>3, <3>4
  <2>5. MergeSync(m, m) = m
    BY <1>1, <2>1, <2>4 DEF Collection
  <2> QED BY <1>4, <2>3, <2>5 DEF Settled, m, n
<1>5. CASE domain \notin {"settings", "devices"}
  <2>1. /\ m = [i \in Ids |-> MergeCell(l[i], r[i])]
        /\ n = [i \in Ids |-> MergeCell(r[i], m[i])]
        /\ MergeSync(m, m) = [i \in Ids |-> MergeCell(m[i], m[i])]
    BY <1>5 DEF MergeSync, Merge
  <2> HIDE DEF m, n
  <2>2. \A i \in Ids : MergeCell(r[i], m[i]) = m[i] /\ MergeCell(m[i], m[i]) = m[i]
    BY <1>2, <2>1, MergedIsSettled
  <2>3. n = m /\ MergeSync(m, m) = m
    BY <1>1, <2>1, <2>2 DEF Collection
  <2> QED BY <1>5, <2>3 DEF Settled, m, n
<1> QED BY <1>3, <1>4, <1>5
=============================================================================
