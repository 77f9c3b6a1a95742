----------------------------- MODULE CloudSync ------------------------------
(***************************************************************************)
(* Hosts that keep one synced domain the same (internal/cloudsync/syncer.go*)
(* and the stores of internal/storage), through a key-value store that each*)
(* host sees a copy of and that is written as a whole, the last write wins.*)
(*                                                                         *)
(* Stores work under a lock, so a change or a merge is one step; only a    *)
(* crash shows what lies between the writes of its two files.  A payload   *)
(* always decodes and a file can always be read and written.               *)
(***************************************************************************)
EXTENDS SyncMerge

CONSTANTS
  Hosts,
  Domains,     (* the synced stores to look at, one in each behaviour        *)
  Contents,    (* what the entries of each store may hold                    *)
  Zones,       (* the timezones of saved tablets; 0 is none                  *)
  MaxStamp,    (* bound on the clocks, which need not agree                  *)
  MaxEvents    (* bound on the changes users make and the crashes, together  *)

AllDomains == {"settings", "favorites", "follows", "devices", "keys", "deviceinfo"}

(* The stores whose every change is stamped after what it replaces. *)
StampedDomains == {"favorites", "follows", "keys"}

ASSUME CloudSyncAssumption ==
  /\ Domains \subseteq AllDomains
  /\ Contents \in [AllDomains -> SUBSET Nat]
  /\ Zones \subseteq Nat
  /\ MaxStamp \in Nat /\ MaxEvents \in Nat
  /\ None \notin Collection

VARIABLES
  domain,   (* the store that is synced                                      *)
  file,     (* the collection in each host's files, tombstones included      *)
  pending,  (* hosts whose syncer is told that the domain changed            *)
  pc,       (* where each host's syncer is                                   *)
  remote,   (* the payload each syncer got; None when none was published     *)
  local,    (* the payload each syncer exported                              *)
  kv,       (* each host's copy of the key-value store                       *)
  dirty,    (* hosts whose copy is not uploaded                              *)
  behind,   (* hosts that have not downloaded the newest upload              *)
  cloud,    (* the newest upload                                             *)
  edits, crashes,
  newest    (* history: the changes users made, merged; None once a removal   *)
            (* left less of an identifier than there was                      *)

syncerVars == <<pending, pc, remote, local>>
storeVars  == <<kv, dirty, behind, cloud>>
vars       == <<domain, file, syncerVars, storeVars, edits, crashes, newest>>

Stamps == 0..MaxStamp

Types ==
  /\ domain \in Domains
  /\ file \in [Hosts -> Collection]
  /\ pending \subseteq Hosts
  /\ pc \in [Hosts -> {"idle", "get", "merge", "export", "set"}]
  /\ remote \in [Hosts -> Collection \cup {None}]
  /\ local \in [Hosts -> Collection \cup {None}]
  /\ kv \in [Hosts -> Collection \cup {None}]
  /\ dirty \subseteq Hosts
  /\ behind \subseteq Hosts
  /\ cloud \in Collection \cup {None}
  /\ edits \in 0..MaxEvents
  /\ crashes \in 0..MaxEvents
  /\ newest \in [Ids -> Cell \cup {None}]

(* A syncer merges only a payload that it has got. *)
MergesPayload == \A h \in Hosts : pc[h] = "merge" => remote[h] # None

TypeOK == Types /\ MergesPayload

EntryOf(stamp, value, zone) == [stamp |-> stamp, value |-> value, zone |-> zone]

(* Before the first sync a host has nothing, or what it saved before there  *)
(* was sync, without stamps, or a tombstone that an old version did not     *)
(* stamp; settings have their defaults.                                     *)
Unstamped(d) == {[Blank EXCEPT !.entry = EntryOf(0, v, 0)] : v \in Contents[d]}

InitialCells(d) ==
  IF d = "settings" THEN Unstamped(d)
  ELSE Unstamped(d) \cup {Blank, [Blank EXCEPT !.removed = 0]}

Init ==
  /\ domain \in Domains
  /\ file \in [Hosts -> [Ids -> InitialCells(domain)]]
  /\ pending = Hosts
  /\ pc = [h \in Hosts |-> "idle"]
  /\ remote = [h \in Hosts |-> None]
  /\ local = [h \in Hosts |-> None]
  /\ kv = [h \in Hosts |-> None]
  /\ dirty = {}
  /\ behind = {}
  /\ cloud = None
  /\ edits = 0
  /\ crashes = 0
  /\ newest = [i \in Ids |-> Blank]

-----------------------------------------------------------------------------
(* Changes that users make on a host                                        *)

(* A tablet that is saved again is stamped by the clock, which its tombstone*)
(* may be ahead of (DeviceStore.Save).                                      *)
Shadowed(c) == c.entry # None /\ c.removed > 0 /\ c.entry.stamp <= c.removed

(* The changes merged, once c has replaced old.  A removal of an entry that *)
(* its tombstone outranks puts an older tombstone in the place of that one  *)
(* (Tombstones.Record), and what becomes of the identifier is left open.    *)
Recorded(i, old, c) ==
  IF newest[i] = None \/ (c.entry = None /\ Shadowed(old)) THEN None ELSE MergeCell(newest[i], c)

(* Mutant: the syncer is not told. *)
ChangeSilently(h, i, c) ==
  /\ edits + crashes < MaxEvents
  /\ edits' = edits + 1
  /\ file' = [file EXCEPT ![h][i] = c]
  /\ newest' = [newest EXCEPT ![i] = Recorded(i, file[h][i], c)]
  /\ UNCHANGED <<domain, syncerVars, storeVars, crashes>>

(* Writes cell c, which h.changed() then reports to the syncer. *)
Change(h, i, c) ==
  /\ edits + crashes < MaxEvents
  /\ edits' = edits + 1
  /\ file' = [file EXCEPT ![h][i] = c]
  /\ pending' = pending \cup {h}
  /\ newest' = [newest EXCEPT ![i] = Recorded(i, file[h][i], c)]
  /\ UNCHANGED <<domain, pc, remote, local, storeVars, crashes>>

Saved(c, e) == [c EXCEPT !.entry = e]

Has(h, i) == file[h][i].entry # None

(* Toggle on, readdStamp: newer than the tombstone of an earlier removal. *)
Add(h, i, v, now) ==
  /\ domain \in {"favorites", "follows"}
  /\ ~Has(h, i)
  /\ LET stamp == NextStamp(now, Later(file[h][i].removed, 0))
     IN  stamp \in Stamps /\ Change(h, i, Saved(file[h][i], EntryOf(stamp, v, 0)))

(* KeyStore.Add makes an identifier up, which nothing has used. *)
AddKey(h, i, v, now) ==
  /\ domain = "keys"
  /\ newest[i] = Blank /\ \A g \in Hosts : file[g][i] = Blank
  /\ Change(h, i, Saved(file[h][i], EntryOf(now, v, 0)))

(* DeviceStore.Save of a device that is not, or no longer, in the file. *)
SaveNew(h, i, v, now) ==
  /\ domain = "devices"
  /\ ~Has(h, i)
  /\ Change(h, i, Saved(file[h][i], EntryOf(now, v, 0)))

(* SetSeen, PruneSeen, Rename, UpdateName, Save of a device in the file and *)
(* of the settings: the entry is stamped after itself.                      *)
Update(h, i, v, now) ==
  /\ domain \in {"settings", "follows", "devices", "keys"}
  /\ Has(h, i)
  /\ domain \in {"settings", "follows"} => v # file[h][i].entry.value
  /\ LET e == file[h][i].entry
         stamp == NextStamp(now, e.stamp)
     IN  stamp \in Stamps /\ Change(h, i, Saved(file[h][i], EntryOf(stamp, v, e.zone)))

UpdateTimezone(h, i, z, now) ==
  /\ domain = "devices"
  /\ Has(h, i)
  /\ z # file[h][i].entry.zone
  /\ LET e == file[h][i].entry
         stamp == NextStamp(now, e.stamp)
     IN  stamp \in Stamps /\ Change(h, i, Saved(file[h][i], EntryOf(stamp, e.value, z)))

(* The tablet's own timezone, when none was chosen, is not an edit. *)
FillMissingTimezone(h, i, z) ==
  /\ domain = "devices"
  /\ Has(h, i) /\ file[h][i].entry.zone = 0 /\ z # 0
  /\ Change(h, i, Saved(file[h][i], [file[h][i].entry EXCEPT !.zone = z]))

(* DeviceInfoCacheStore.Set, stamped after the tombstone only. *)
SetInfo(h, i, v, now) ==
  /\ domain = "deviceinfo"
  /\ LET stamp == NextStamp(now, Later(file[h][i].removed, 0))
     IN  stamp \in Stamps /\ Change(h, i, Saved(file[h][i], EntryOf(stamp, v, 0)))

(* Mutant: the tombstone is stamped by the clock alone. *)
RemoveByClock(h, i, now) ==
  /\ domain # "settings"
  /\ Has(h, i)
  /\ Change(h, i, [entry |-> None, removed |-> now])

(* Toggle off, Delete, Remove, Clear: the entry is taken out of its file,   *)
(* then its tombstone is recorded.                                          *)
Remove(h, i, now) ==
  /\ domain # "settings"
  /\ Has(h, i)
  /\ LET stamp == NextStamp(now, file[h][i].entry.stamp)
     IN  stamp \in Stamps /\ Change(h, i, [entry |-> None, removed |-> stamp])

Edit(h, i) ==
  \/ \E v \in Contents[domain], now \in Stamps :
       \/ Add(h, i, v, now)
       \/ AddKey(h, i, v, now)
       \/ SaveNew(h, i, v, now)
       \/ Update(h, i, v, now)
       \/ SetInfo(h, i, v, now)
  \/ \E z \in Zones, now \in Stamps : UpdateTimezone(h, i, z, now)
  \/ \E z \in Zones : FillMissingTimezone(h, i, z)
  \/ \E now \in Stamps : Remove(h, i, now)

-----------------------------------------------------------------------------
(* The syncer                                                               *)

(* The stores' MergeSync: the collection that host h has after merging r. *)
MergeSync(l, r) ==
  CASE domain = "settings" -> [i \in Ids |-> MergeSettings(l[i], r[i])]
    [] domain = "devices"  -> Merge(Fill(l, r), Fill(r, l))
    [] OTHER               -> Merge(l, r)

Wake(h) ==
  /\ pc[h] = "idle" /\ h \in pending
  /\ pending' = pending \ {h}
  /\ pc' = [pc EXCEPT ![h] = "get"]
  /\ UNCHANGED <<domain, file, remote, local, storeVars, edits, crashes, newest>>

(* Mutant: a domain with no payload is merged. *)
GetUnchecked(h) ==
  /\ pc[h] = "get"
  /\ remote' = [remote EXCEPT ![h] = kv[h]]
  /\ pc' = [pc EXCEPT ![h] = "merge"]
  /\ UNCHANGED <<domain, file, pending, local, storeVars, edits, crashes, newest>>

Get(h) ==
  /\ pc[h] = "get"
  /\ remote' = [remote EXCEPT ![h] = kv[h]]
  /\ pc' = [pc EXCEPT ![h] = IF kv[h] = None THEN "export" ELSE "merge"]
  /\ UNCHANGED <<domain, file, pending, local, storeVars, edits, crashes, newest>>

MergeRemote(h) ==
  /\ pc[h] = "merge"
  /\ file' = [file EXCEPT ![h] = MergeSync(@, remote[h])]
  /\ pc' = [pc EXCEPT ![h] = "export"]
  /\ UNCHANGED <<domain, pending, remote, local, storeVars, edits, crashes, newest>>

ExportSync(h) ==
  /\ pc[h] = "export"
  /\ local' = [local EXCEPT ![h] = file[h]]
  /\ pc' = [pc EXCEPT ![h] = "set"]
  /\ UNCHANGED <<domain, file, pending, remote, storeVars, edits, crashes, newest>>

(* Mutant: what woke the syncer while it was at work is forgotten. *)
SetForgets(h) ==
  /\ pc[h] = "set"
  /\ IF local[h] # remote[h]
     THEN kv' = [kv EXCEPT ![h] = local[h]] /\ dirty' = dirty \cup {h}
     ELSE UNCHANGED <<kv, dirty>>
  /\ pending' = pending \ {h}
  /\ remote' = [remote EXCEPT ![h] = None]
  /\ local' = [local EXCEPT ![h] = None]
  /\ pc' = [pc EXCEPT ![h] = "idle"]
  /\ UNCHANGED <<domain, file, behind, cloud, edits, crashes, newest>>

(* Mutant: every reconcile publishes. *)
SetAlways(h) ==
  /\ pc[h] = "set"
  /\ kv' = [kv EXCEPT ![h] = local[h]] /\ dirty' = dirty \cup {h}
  /\ remote' = [remote EXCEPT ![h] = None]
  /\ local' = [local EXCEPT ![h] = None]
  /\ pc' = [pc EXCEPT ![h] = "idle"]
  /\ UNCHANGED <<domain, file, pending, behind, cloud, edits, crashes, newest>>

(* Only what differs from the payload that was merged is published. *)
Set(h) ==
  /\ pc[h] = "set"
  /\ IF local[h] # remote[h]
     THEN kv' = [kv EXCEPT ![h] = local[h]] /\ dirty' = dirty \cup {h}
     ELSE UNCHANGED <<kv, dirty>>
  /\ remote' = [remote EXCEPT ![h] = None]
  /\ local' = [local EXCEPT ![h] = None]
  /\ pc' = [pc EXCEPT ![h] = "idle"]
  /\ UNCHANGED <<domain, file, pending, behind, cloud, edits, crashes, newest>>

Syncing(h) == Wake(h) \/ Get(h) \/ MergeRemote(h) \/ ExportSync(h) \/ Set(h)

-----------------------------------------------------------------------------
(* The key-value store, which is not part of reManager                      *)

Upload(h) ==
  /\ h \in dirty
  /\ cloud' = kv[h]
  /\ dirty' = dirty \ {h}
  /\ behind' = Hosts \ {h}
  /\ UNCHANGED <<domain, file, syncerVars, kv, edits, crashes, newest>>

(* A download replaces the host's copy, whether or not that was uploaded,   *)
(* and wakes its syncer when the value changed.                             *)
Download(h) ==
  /\ h \in behind
  /\ behind' = behind \ {h}
  /\ dirty' = dirty \ {h}
  /\ kv' = [kv EXCEPT ![h] = cloud]
  /\ pending' = IF kv[h] # cloud THEN pending \cup {h} ELSE pending
  /\ UNCHANGED <<domain, file, pc, remote, local, cloud, edits, crashes, newest>>

-----------------------------------------------------------------------------
(* A host crashes, perhaps between the two files that a removal or a merge  *)
(* writes, and starts again; Start tells the syncer of every domain.        *)

Restart(h) ==
  /\ edits + crashes < MaxEvents
  /\ crashes' = crashes + 1
  /\ pc' = [pc EXCEPT ![h] = "idle"]
  /\ remote' = [remote EXCEPT ![h] = None]
  /\ local' = [local EXCEPT ![h] = None]
  /\ pending' = pending \cup {h}
  /\ UNCHANGED <<domain, storeVars, edits>>

Crash(h) == Restart(h) /\ UNCHANGED <<file, newest>>

(* The entry is out of its file and no tombstone says so: whether it is     *)
(* removed, or comes back from another host, is left open.                  *)
CrashInRemove(h, i) ==
  /\ domain # "settings"
  /\ Has(h, i)
  /\ Restart(h)
  /\ file' = [file EXCEPT ![h][i].entry = None]
  /\ newest' = [newest EXCEPT ![i] = None]

(* The merged entries are saved and the tombstones are still the old ones. *)
CrashInMerge(h) ==
  /\ domain # "settings"
  /\ pc[h] = "merge"
  /\ Restart(h)
  /\ file' = [file EXCEPT ![h] =
       [i \in Ids |-> [entry |-> MergeSync(@, remote[h])[i].entry, removed |-> @[i].removed]]]
  /\ UNCHANGED newest

Crashing(h) == Crash(h) \/ (\E i \in Ids : CrashInRemove(h, i)) \/ CrashInMerge(h)

-----------------------------------------------------------------------------

Next ==
  \E h \in Hosts :
    \/ \E i \in Ids : Edit(h, i)
    \/ Syncing(h)
    \/ Upload(h)
    \/ Download(h)
    \/ Crashing(h)

(* Syncers run, and the key-value store delivers; users need do nothing. *)
Fairness ==
  \A h \in Hosts : WF_vars(Syncing(h)) /\ WF_vars(Upload(h)) /\ WF_vars(Download(h))

Spec == Init /\ [][Next]_vars /\ Fairness

-----------------------------------------------------------------------------
(* Properties                                                               *)

Quiet ==
  /\ pending = {} /\ dirty = {} /\ behind = {}
  /\ \A h \in Hosts : pc[h] = "idle"

(* Hosts that have exchanged payloads both ways "settle on the same value"  *)
(* (syncer.go:1): with nothing left to do, all files and the store agree,   *)
(* whatever was overwritten before it was read and wherever a host crashed. *)
Converged == Quiet => \A h \in Hosts : file[h] = cloud /\ kv[h] = cloud

(* No change is lost: once all is quiet, every host has every change that a *)
(* user made, or one that outranks it.  (Not so of settings, which merge    *)
(* another way, of the device info cache, whose changes may tie, and of     *)
(* identifiers whose removal a crash tore or a clock behind the tombstone   *)
(* undid: payloads from before it can then take later changes along.)       *)
EditsSurvive ==
  Quiet /\ domain \in StampedDomains \cup {"devices"} =>
    \A h \in Hosts, i \in Ids : newest[i] # None => Covers(file[h][i], newest[i])

(* Without a crash no host ever goes back to a state that an edit or a      *)
(* merge has replaced: what a user changed does not come back on its own,   *)
(* as nextStamp promises where every change uses it.                        *)
NeverOlder ==
  [][crashes' = crashes /\ domain \in StampedDomains =>
       \A h \in Hosts, i \in Ids : Covers(file'[h][i], file[h][i])]_vars

(* What a host shows as saved outranks its own tombstone: a change that the *)
(* user sees made is not undone by the next merge with anything at all.     *)
NothingShadowed ==
  \A h \in Hosts, i \in Ids :
    domain \in StampedDomains /\ Has(h, i) => MergeCell(file[h][i], file[h][i]).entry = file[h][i].entry

(* The syncers, their wakings and the copies that overwrite each other come *)
(* to what Replicas promises: nothing but a user's change, of one identifier*)
(* at a time, and the merge of a whole payload that some host held changes  *)
(* a collection, wherever a host crashes but for what the crash tore.       *)
Payloads ==
  ({kv[h] : h \in Hosts} \cup {remote[h] : h \in Hosts} \cup {local[h] : h \in Hosts} \cup {cloud}) \ {None}

Promised == INSTANCE Replicas WITH held <- file, payloads <- Payloads

ActsAsReplicas == Promised!Spec

(* "Republishing unconditionally would never go quiet" (syncer.go:82): once *)
(* users stop, the hosts stop waking each other.                            *)
GoesQuiet == <>[]Quiet
=============================================================================
