--------------------------- MODULE TransfersProofs ---------------------------
(* What TLAPS proves of Transfers for any number of jobs, workers, chunks,  *)
(* tablets and clients.                                                     *)
EXTENDS Transfers, FiniteSetTheorems, TLAPS

(* No two uploads go to one path; without it two of them can publish a      *)
(* short file, which transfers_same.cfg shows.                              *)
OwnPaths == \A i, j \in Uploads : Path[i] = Path[j] => i = j

-----------------------------------------------------------------------------
(* The inductive invariant                                                  *)

(* The job has not had a client yet. *)
Before(j) == state[j] \in {"new", "queued"} \/ pc[j] \in {"check", "client"}

(* The queue holds each queued job once at most, and a job has a worker for *)
(* as long as it runs.                                                      *)
QueueInv ==
  /\ \A j \in Jobs : pc[j] # "none" <=> state[j] = "starting"
  /\ \A i \in 1..Len(queue) : state[queue[i]] = "queued"
  /\ \A i, k \in 1..Len(queue) : queue[i] = queue[k] => i = k

(* Where a job holds a client and spare channels, and how it writes.        *)
RunOf(j) ==
  /\ Before(j) => held[j] = 0 /\ attempt[j] = "plain"
  /\ pc[j] \in {"open", "spares", "write", "stat", "rename", "abort", "returned"} \/ state[j] = "done"
       => held[j] # 0
  /\ attempt[j] = "split" => j \in Uploads /\ held[j] # 0
  /\ pc[j] \in {"spares", "stat", "rename", "abort"} => j \in Uploads
  /\ spares[j] # 0 => pc[j] \in {"write", "stat", "rename", "abort", "returned", "failed"}

(* What each attempt has written.                                           *)
WrittenOf(j) ==
  /\ \E n \in 0..Chunks : written[<<j, "plain">>] = 1..n
  /\ attempt[j] = "split" => written[<<j, "plain">>] = {}
  /\ Before(j) => written[<<j, "split">>] = {} /\ written[<<j, "plain">>] = {}
  /\ bytes[j] = Cardinality(written[File(j)])
  /\ pc[j] = "stat" /\ attempt[j] = "split" => written[File(j)] = 1..Chunks
  /\ pc[j] \in {"rename", "returned"} \/ state[j] = "done" => written[File(j)] = 1..Chunks

(* The temporary names: taken from Open to Commit or Abort.                 *)
TempOf(j) ==
  /\ \A t \in Tablets : temp[t][Path[j]] \in {None, <<j, "split">>, <<j, "plain">>}
  /\ Before(j) => \A t \in Tablets : temp[t][Path[j]] = None
  /\ pc[j] \in {"spares", "write", "stat", "rename", "abort"} => Temp(j) = File(j)
  /\ pc[j] \in {"open", "failed", "returned"} \/ state[j] \in Ended => (Alive(j) => Temp(j) = None)

(* What stands under the destination names.                                 *)
DestOf(j) ==
  /\ \A t \in Tablets :
       /\ dest[t][Path[j]] \in {None, <<j, "split">>, <<j, "plain">>}
       /\ dest[t][Path[j]] # None => written[dest[t][Path[j]]] = 1..Chunks
  /\ pc[j] = "returned" \/ state[j] = "done" => dest[Tablet(j)][Path[j]] = File(j)

(* The local files of downloads.                                            *)
LocalOf(j) ==
  /\ pc[j] \in {"write", "returned"} \/ state[j] = "done" => j \in local
  /\ Before(j) \/ pc[j] \in {"open", "failed"} \/ state[j] = "failed" => j \notin local

RunInv     == \A j \in Jobs : RunOf(j)
WrittenInv == \A j \in Jobs : WrittenOf(j)
TempInv    == \A j \in Uploads : TempOf(j)
DestInv    == \A j \in Uploads : DestOf(j)
LocalInv   == \A j \in Downloads : LocalOf(j)

TransfersInv == QueueInv /\ RunInv /\ WrittenInv /\ TempInv /\ DestInv /\ LocalInv

-----------------------------------------------------------------------------
(* Facts about the operators                                                *)

LEMMA MaxLinksType == MaxLinks \in Nat \ {0}
  BY TransfersAssumption

LEMMA PathsIsPath == \A j \in Uploads : Path[j] \in Paths
  BY DEF Paths

LEMMA FilesIsFile == \A j \in Jobs : <<j, "split">> \in Files /\ <<j, "plain">> \in Files
  BY DEF Files

LEMMA FileType == TypeOK => \A j \in Jobs : File(j) \in Files
  BY DEF TypeOK, File, Files

LEMMA RunningFinite == IsFiniteSet(Running) /\ Cardinality(Running) \in Nat
<1>1. Running \in SUBSET Jobs
  BY DEF Running
<1> QED BY <1>1, TransfersAssumption, FS_Subset, FS_CardinalityType

(* A step that gives no job a worker keeps to the number of workers.        *)
LEMMA RunningShrinks ==
  ASSUME Running' \subseteq Running, Cardinality(Running) <= Workers
  PROVE  Cardinality(Running') <= Workers
<1>1. IsFiniteSet(Running') /\ Cardinality(Running') <= Cardinality(Running)
  BY RunningFinite, FS_Subset
<1>2. Cardinality(Running') \in Nat /\ Cardinality(Running) \in Nat /\ Workers \in Nat
  BY <1>1, RunningFinite, FS_CardinalityType, TransfersAssumption
<1> QED BY <1>1, <1>2

LEMMA RunningGrows ==
  ASSUME NEW j, Running' \subseteq Running \cup {j}, Cardinality(Running) < Workers
  PROVE  Cardinality(Running') <= Workers
<1>1. IsFiniteSet(Running \cup {j}) /\ Cardinality(Running \cup {j}) <= Cardinality(Running) + 1
  <2>1. /\ IsFiniteSet(Running \cup {j})
        /\ Cardinality(Running \cup {j}) = IF j \in Running THEN Cardinality(Running) ELSE Cardinality(Running) + 1
    BY RunningFinite, FS_AddElement
  <2> QED BY <2>1, RunningFinite
<1>2. IsFiniteSet(Running') /\ Cardinality(Running') <= Cardinality(Running \cup {j})
  BY <1>1, FS_Subset
<1>3. /\ Cardinality(Running') \in Nat /\ Cardinality(Running) \in Nat
      /\ Cardinality(Running \cup {j}) \in Nat /\ Workers \in Nat
  BY <1>1, <1>2, RunningFinite, FS_CardinalityType, TransfersAssumption
<1> QED BY <1>1, <1>2, <1>3

-----------------------------------------------------------------------------
(* Type correctness                                                         *)

LEMMA InitType == Init => TypeOK
<1> SUFFICES ASSUME Init PROVE TypeOK
  OBVIOUS
<1>1. Running = {}
  BY DEF Running, Init
<1>2. Cardinality(Running) <= Workers
  BY <1>1, FS_EmptySet, TransfersAssumption
<1>3. links \in Seq(Tablets) /\ Len(links) \in 1..MaxLinks
  BY MaxLinksType DEF Init
<1>4. held \in [Jobs -> 0..Len(links)]
  BY <1>3 DEF Init
<1>5. spares \in [Jobs -> 0..SpareCap] /\ bytes \in [Jobs -> Nat]
  BY TransfersAssumption DEF Init
<1>6. written \in [Files -> SUBSET (1..Chunks)]
  BY DEF Init
<1>7. temp \in [Tablets -> [Paths -> Files \cup {None}]] /\ dest = temp
  BY DEF Init
<1>8. pc \in [Jobs -> Pc] /\ state \in [Jobs -> {"new"} \cup Active \cup Ended]
  BY DEF Init, Pc
<1>9. /\ session \in {"up", "lost", "off"} /\ connGen \in Nat /\ sweeping \in BOOLEAN
  BY DEF Init
<1>11. queue = <<>> /\ <<>> \in Seq(Jobs)
  BY DEF Init
<1>10. /\ queuedOn \in [Jobs -> Nat] /\ canceled \subseteq Jobs
       /\ attempt \in [Jobs -> {"split", "plain"}] /\ local \subseteq Downloads
  BY DEF Init
<1> QED BY <1>2, <1>3, <1>4, <1>5, <1>6, <1>7, <1>8, <1>9, <1>10, <1>11 DEF TypeOK

(* The actions of one job that leave the connection and the queue alone and *)
(* move it between two places of its worker.                                *)
LEMMA TypeGoto ==
  ASSUME TypeOK, NEW j \in Jobs, NEW from \in Pc \ {"none"}, NEW to \in Pc, Goto(j, from, to)
  PROVE  pc' \in [Jobs -> Pc] /\ Cardinality(Running') <= Workers
<1>1. pc' \in [Jobs -> Pc] /\ Running' \subseteq Running
  BY DEF Goto, TypeOK, Running
<1>2. Cardinality(Running) <= Workers
  BY DEF TypeOK
<1> QED BY <1>1, <1>2, RunningShrinks

LEMMA TypeSame ==
  ASSUME TypeOK, UNCHANGED pc
  PROVE  pc' \in [Jobs -> Pc] /\ Cardinality(Running') <= Workers
<1>1. pc' \in [Jobs -> Pc] /\ Running' = Running
  BY DEF TypeOK, Running
<1> QED BY <1>1 DEF TypeOK

LEMMA TypeCalls ==
  ASSUME TypeOK, NEW j \in Jobs, Enqueue(j) \/ CancelTransfer(j)
  PROVE  TypeOK'
<1>1. UNCHANGED pc
  BY DEF Enqueue, CancelTransfer, runVars
<1>2. pc' \in [Jobs -> Pc] /\ Cardinality(Running') <= Workers
  BY <1>1, TypeSame
<1>3. CASE Enqueue(j)
  BY <1>2, <1>3 DEF TypeOK, Enqueue, connVars, runVars, fileVars, Active
<1>4. CASE CancelTransfer(j)
  BY <1>2, <1>4 DEF TypeOK, CancelTransfer, connVars, runVars, fileVars
<1> QED BY <1>3, <1>4

(* A client more: those that were connected keep their numbers.             *)
NewLink(t) == Len(links) < MaxLinks /\ links' = Append(links, t)

LEMMA NewLinkType ==
  ASSUME TypeOK, NEW t \in Tablets, NewLink(t)
  PROVE  /\ links' \in Seq(Tablets) /\ Len(links') = Len(links) + 1 /\ Len(links') \in 1..MaxLinks
         /\ \A i \in 1..Len(links) : links'[i] = links[i]
         /\ held \in [Jobs -> 0..Len(links')]
<1>1. links \in Seq(Tablets) /\ Len(links) \in 1..MaxLinks /\ held \in [Jobs -> 0..Len(links)]
  BY DEF TypeOK
<1>2. links' \in Seq(Tablets) /\ Len(links') = Len(links) + 1
  BY <1>1 DEF NewLink
<1>3. Len(links') \in 1..MaxLinks
  BY <1>1, <1>2, MaxLinksType DEF NewLink
<1>4. \A i \in 1..Len(links) : links'[i] = links[i]
  BY <1>1 DEF NewLink
<1>5. held \in [Jobs -> 0..Len(links')]
  BY <1>1, <1>2
<1> QED BY <1>2, <1>3, <1>4, <1>5

LEMMA TypeConnecting ==
  ASSUME TypeOK, Connecting
  PROVE  TypeOK'
<1>1. UNCHANGED pc
  BY DEF Connecting, Lose, Reconnect, Disconnect, CancelAllTransfers, Connect, runVars
<1>2. pc' \in [Jobs -> Pc] /\ Cardinality(Running') <= Workers
  BY <1>1, TypeSame
<1> USE <1>2 DEF TypeOK, connVars, jobVars, runVars, fileVars
<1>3. CASE Lose                BY <1>3 DEF Lose
<1>4. CASE Reconnect
  <2>1. NewLink(links[Len(links)]) /\ links[Len(links)] \in Tablets
    BY <1>4, MaxLinksType DEF Reconnect, NewLink
  <2> QED BY <1>4, <2>1, NewLinkType DEF Reconnect
<1>5. CASE Disconnect          BY <1>5 DEF Disconnect
<1>6. CASE CancelAllTransfers  BY <1>6 DEF CancelAllTransfers
<1>7. ASSUME NEW t \in Tablets, Connect(t) PROVE TypeOK'
  BY <1>7, NewLinkType DEF Connect, NewLink
<1> QED BY <1>3, <1>4, <1>5, <1>6, <1>7 DEF Connecting

LEMMA TypePick ==
  ASSUME TypeOK, NEW j \in Jobs, Pick(j)
  PROVE  TypeOK'
<1>1. pc' \in [Jobs -> Pc] /\ Running' \subseteq Running \cup {j}
  BY DEF Pick, Goto, TypeOK, Running, Pc
<1>2. Cardinality(Running') <= Workers
  BY <1>1, RunningGrows DEF Pick
<1>3. queue' \in Seq(Jobs)
  BY DEF Pick, TypeOK
<1> QED BY <1>1, <1>2, <1>3 DEF Pick, TypeOK, connVars, fileVars, Active, Ended

LEMMA TypeStarting ==
  ASSUME TypeOK, NEW j \in Jobs, CheckGen(j) \/ GetClient(j) \/ GetClientFails(j)
  PROVE  TypeOK'
<1>1. \E from \in Pc \ {"none"}, to \in Pc : Goto(j, from, to)
  BY DEF CheckGen, GetClient, GetClientFails, Fail, Pc
<1>2. pc' \in [Jobs -> Pc] /\ Cardinality(Running') <= Workers
  BY <1>1, TypeGoto
<1>3. Client \in 0..Len(links)
  BY DEF TypeOK, Client
<1> QED BY ZenonT(40), <1>2, <1>3 DEF CheckGen, GetClient, GetClientFails, TypeOK, connVars, jobVars, fileVars

(* What a step over a client may write under the temporary names.           *)
LEMMA TypeTemp ==
  ASSUME TypeOK, NEW j \in Uploads, NEW f \in Files \cup {None}, SetTemp(j, f) \/ UNCHANGED temp
  PROVE  temp' \in [Tablets -> [Paths -> Files \cup {None}]]
<1>1. CASE UNCHANGED temp
  BY <1>1 DEF TypeOK
<1>2. CASE SetTemp(j, f)
  <2> DEFINE row(t) == [temp[t] EXCEPT ![Path[j]] = f]
  <2>1. temp \in [Tablets -> [Paths -> Files \cup {None}]]
    BY DEF TypeOK
  <2>2. temp' = [temp EXCEPT ![Tablet(j)] = row(Tablet(j))]
    BY <1>2 DEF SetTemp
  <2>3. \A t \in Tablets : row(t) \in [Paths -> Files \cup {None}]
    BY <2>1
  <2> QED BY <2>1, <2>2, <2>3
<1> QED BY <1>1, <1>2

LEMMA TypeUploading ==
  ASSUME TypeOK, NEW j \in Jobs, Uploading(j)
  PROVE  TypeOK'
<1>1. j \in Uploads /\ File(j) \in Files
  BY FileType DEF Uploading
<1>2. \E from \in Pc \ {"none"}, to \in Pc : Goto(j, from, to)
  BY DEF Uploading, Open, OpenFails, TakeSpares, UploadRead, UploadFails, Abort, CommitStat, CommitRename,
         CommitFails, Fail, Pc
<1>3. pc' \in [Jobs -> Pc] /\ Cardinality(Running') <= Workers
  BY <1>2, TypeGoto
<1>4. temp' \in [Tablets -> [Paths -> Files \cup {None}]]
  BY <1>1, TypeTemp DEF Uploading, Open, OpenFails, TakeSpares, UploadRead, UploadFails, Abort, CommitStat,
                        CommitRename, CommitFails, RemoveTemp, fileVars
<1> USE <1>3, <1>4 DEF TypeOK, connVars, jobVars, fileVars
<1>5. CASE Open(j) \/ OpenFails(j) \/ Abort(j) \/ CommitFails(j)
  BY <1>5 DEF Open, OpenFails, Abort, CommitFails
<1>6. CASE TakeSpares(j)
  BY <1>6 DEF TakeSpares
<1>7. CASE UploadRead(j) \/ UploadFails(j) \/ CommitStat(j)
  BY <1>7 DEF UploadRead, UploadFails, CommitStat
<1>8. CASE CommitRename(j)
  <2>1. Path[j] \in Paths
    BY <1>1, PathsIsPath
  <2>2. Tablet(j) \in Tablets => Temp(j) \in Files \cup {None}
    BY <2>1 DEF Temp
  <2>3. dest' \in [Tablets -> [Paths -> Files \cup {None}]]
    BY <1>8, <2>1, <2>2 DEF CommitRename
  <2> QED BY <1>8, <2>3 DEF CommitRename
<1> QED BY <1>5, <1>6, <1>7, <1>8 DEF Uploading

LEMMA TypeDownloading ==
  ASSUME TypeOK, NEW j \in Jobs, Downloading(j)
  PROVE  TypeOK'
<1>1. \E from \in Pc \ {"none"}, to \in Pc : Goto(j, from, to)
  BY DEF Downloading, Create, DownloadRead, DownloadFails, Fail, Pc
<1>2. pc' \in [Jobs -> Pc] /\ Cardinality(Running') <= Workers
  BY <1>1, TypeGoto
<1> QED BY <1>2 DEF Downloading, Create, DownloadRead, DownloadFails, TypeOK, connVars, jobVars, fileVars

LEMMA TypeWrite ==
  ASSUME TypeOK, NEW j \in Jobs, Write(j)
  PROVE  TypeOK'
<1>1. pc' \in [Jobs -> Pc] /\ Cardinality(Running') <= Workers
  BY TypeSame DEF Write
<1>2. File(j) \in Files
  BY FileType
<1>3. written' \in [Files -> SUBSET (1..Chunks)] /\ bytes' \in [Jobs -> Nat]
  BY <1>2 DEF Write, TypeOK
<1> QED BY <1>1, <1>3 DEF Write, TypeOK, connVars, jobVars

LEMMA TypeEnding ==
  ASSUME TypeOK, NEW j \in Jobs, FallBack(j) \/ Finish(j)
  PROVE  TypeOK'
<1>1. \E from \in Pc \ {"none"}, to \in Pc : Goto(j, from, to)
  BY DEF FallBack, Finish, Pc
<1>2. pc' \in [Jobs -> Pc] /\ Cardinality(Running') <= Workers
  BY <1>1, TypeGoto
<1>3. spares' \in [Jobs -> 0..SpareCap]
  <2>1. spares \in [Jobs -> 0..SpareCap] /\ spares' = [spares EXCEPT ![j] = 0] /\ 0 \in 0..SpareCap
    BY TransfersAssumption DEF FallBack, Finish, TypeOK
  <2> QED BY <2>1
<1>4. state' \in [Jobs -> {"new"} \cup Active \cup Ended]
  BY DEF FallBack, Finish, Ends, TypeOK, Ended, jobVars
<1>5. attempt' \in [Jobs -> {"split", "plain"}] /\ bytes' \in [Jobs -> Nat]
  <2>1. CASE FallBack(j)  BY <2>1 DEF FallBack, TypeOK
  <2>2. CASE Finish(j)    BY <2>2 DEF Finish, TypeOK
  <2> QED BY <2>1, <2>2
<1>6. UNCHANGED <<connVars, queue, queuedOn, canceled, held, fileVars>>
  BY DEF FallBack, Finish, jobVars
<1> QED BY <1>2, <1>3, <1>4, <1>5, <1>6 DEF TypeOK, connVars, fileVars

LEMMA TypeStep == TypeOK /\ [Next]_vars => TypeOK'
<1> SUFFICES ASSUME TypeOK, [Next]_vars PROVE TypeOK'
  OBVIOUS
<1>1. ASSUME NEW j \in Jobs, Enqueue(j) \/ CancelTransfer(j) PROVE TypeOK'
  BY <1>1, TypeCalls
<1>2. ASSUME NEW j \in Jobs, Working(j) PROVE TypeOK'
  BY <1>2, TypePick, TypeStarting, TypeUploading, TypeDownloading, TypeWrite, TypeEnding DEF Working
<1>3. CASE Connecting
  BY <1>3, TypeConnecting
<1>4. CASE UNCHANGED vars
  <2>1. pc' \in [Jobs -> Pc] /\ Cardinality(Running') <= Workers
    BY <1>4, TypeSame DEF vars, runVars
  <2> QED BY <1>4, <2>1 DEF TypeOK, vars, connVars, jobVars, runVars, fileVars
<1> QED BY <1>1, <1>2, <1>3, <1>4 DEF Next

(* Every variable keeps its type and never more workers run than there are  *)
(* (newTransferManager, worker).                                            *)
THEOREM TypeCorrect == Spec => []TypeOK
  BY InitType, TypeStep, PTL DEF Spec

-----------------------------------------------------------------------------
(* What a step leaves alone                                                 *)

(* Nothing that belongs to the job changes.                                 *)
Untouched(j) ==
  /\ pc'[j] = pc[j] /\ state'[j] = state[j] /\ held'[j] = held[j] /\ attempt'[j] = attempt[j]
  /\ spares'[j] = spares[j] /\ bytes'[j] = bytes[j]
  /\ written'[<<j, "split">>] = written[<<j, "split">>]
  /\ written'[<<j, "plain">>] = written[<<j, "plain">>]
  /\ (j \in local') = (j \in local)

Acting(j) == Enqueue(j) \/ CancelTransfer(j) \/ Working(j)

LEMMA OthersUntouched ==
  ASSUME TypeOK, NEW j \in Jobs, Acting(j), NEW i \in Jobs \ {j}
  PROVE  Untouched(i) /\ UNCHANGED connVars
<1> USE DEF TypeOK, Untouched, runVars, fileVars, jobVars, connVars, Goto, Fail
<1>1. CASE Enqueue(j) \/ CancelTransfer(j)
  BY <1>1 DEF Enqueue, CancelTransfer
<1>2. CASE Pick(j) \/ CheckGen(j) \/ GetClient(j) \/ GetClientFails(j)
  BY <1>2 DEF Pick, CheckGen, GetClient, GetClientFails
<1>3. CASE Uploading(j)
  BY <1>3 DEF Uploading, Open, OpenFails, TakeSpares, UploadRead, UploadFails, Abort, CommitStat, CommitRename,
             CommitFails
<1>4. CASE Write(j)
  BY <1>4 DEF Write, File, Files
<1>5. CASE Downloading(j)
  BY <1>5 DEF Downloading, Create, DownloadRead, DownloadFails
<1>6. CASE FallBack(j) \/ Finish(j)
  BY <1>6 DEF FallBack, Finish, Ends
<1> QED BY <1>1, <1>2, <1>3, <1>4, <1>5, <1>6 DEF Acting, Working

LEMMA ConnectingUntouched ==
  ASSUME Connecting, NEW i \in Jobs
  PROVE  Untouched(i) /\ UNCHANGED <<queue, fileVars>>
  BY DEF Connecting, Lose, Reconnect, Disconnect, CancelAllTransfers, Connect, Untouched, jobVars, runVars, fileVars

LEMMA StutterUntouched ==
  ASSUME UNCHANGED vars, NEW i \in Jobs
  PROVE  Untouched(i) /\ UNCHANGED <<connVars, queue, fileVars>>
  BY DEF vars, Untouched, jobVars, runVars, fileVars

LEMMA RunUntouched ==
  ASSUME NEW i \in Jobs, RunOf(i), Untouched(i)
  PROVE  RunOf(i)'
  BY DEF RunOf, Untouched, Before

LEMMA WrittenUntouched ==
  ASSUME TypeOK, NEW i \in Jobs, WrittenOf(i), Untouched(i)
  PROVE  WrittenOf(i)'
<1>1. written'[File(i)'] = written[File(i)] /\ File(i)' = File(i)
  BY DEF File, Untouched, TypeOK
<1> QED BY <1>1 DEF WrittenOf, Untouched, Before

LEMMA LocalUntouched ==
  ASSUME NEW i \in Jobs, LocalOf(i), Untouched(i)
  PROVE  LocalOf(i)'
  BY DEF LocalOf, Untouched, Before

-----------------------------------------------------------------------------
(* The queue                                                                *)

LEMMA QueueStep == TypeOK /\ QueueInv /\ [Next]_vars => QueueInv'
<1> SUFFICES ASSUME TypeOK, QueueInv, [Next]_vars PROVE QueueInv'
  OBVIOUS
<1> USE DEF QueueInv
<1>1. ASSUME NEW j \in Jobs, Enqueue(j) PROVE QueueInv'
  <2>1. /\ queue \in Seq(Jobs) /\ Len(queue') = Len(queue) + 1 /\ Len(queue) \in Nat
        /\ queue'[Len(queue) + 1] = j
        /\ \A i \in 1..Len(queue) : queue'[i] = queue[i] /\ queue[i] \in Jobs
    BY <1>1 DEF Enqueue, TypeOK
  <2>2. state[j] = "new" /\ state' = [state EXCEPT ![j] = "queued"] /\ pc' = pc
    BY <1>1 DEF Enqueue, runVars
  <2>3. \A i \in 1..Len(queue) : queue[i] # j
    BY <2>2
  <2>4. \A i \in 1..Len(queue') : i \in 1..Len(queue) \/ i = Len(queue) + 1
    BY <2>1
  <2>5. \A i \in Jobs : i # j => state'[i] = state[i]
    BY <2>2 DEF TypeOK
  <2>6. \A i \in Jobs : pc'[i] # "none" <=> state'[i] = "starting"
    BY <2>2 DEF TypeOK
  <2>7. \A i \in 1..Len(queue') : state'[queue'[i]] = "queued"
    <3>1. \A i \in 1..Len(queue) : state'[queue'[i]] = "queued"
      BY <2>1, <2>3, <2>5
    <3>2. state'[j] = "queued"
      BY <2>2 DEF TypeOK
    <3> QED BY <2>1, <2>4, <3>1, <3>2
  <2>8. \A i, k \in 1..Len(queue') : queue'[i] = queue'[k] => i = k
    BY <2>1, <2>3, <2>4
  <2> QED BY <2>6, <2>7, <2>8
<1>2. ASSUME NEW j \in Jobs, Pick(j) PROVE QueueInv'
  <2>1. /\ queue \in Seq(Jobs) /\ Len(queue) \in Nat \ {0} /\ Len(queue') = Len(queue) - 1
        /\ queue[1] = j
        /\ \A i \in 1..Len(queue') : queue'[i] = queue[i + 1] /\ queue[i + 1] \in Jobs
    BY <1>2 DEF Pick, TypeOK
  <2>2. \A i \in 1..Len(queue') : i + 1 \in 1..Len(queue) /\ i + 1 # 1
    BY <2>1
  <2>3. \A i \in 1..Len(queue') : queue'[i] # j
    BY <2>1, <2>2
  <2>4. state[j] = "queued" /\ pc[j] = "none"
    BY <2>1
  <2>5. /\ \A i \in Jobs : i # j => state'[i] = state[i] /\ pc'[i] = pc[i]
        /\ pc'[j] # "none" <=> state'[j] = "starting"
    BY <1>2, <2>4 DEF Pick, Goto, TypeOK
  <2>6. \A i \in 1..Len(queue') : state'[queue'[i]] = "queued"
    BY <2>1, <2>2, <2>3, <2>5
  <2>7. \A i, k \in 1..Len(queue') : queue'[i] = queue'[k] => i = k
    BY <2>1, <2>2
  <2> QED BY <2>5, <2>6, <2>7
<1>3. ASSUME NEW j \in Jobs, Finish(j) PROVE QueueInv'
  <2>1. /\ queue' = queue /\ pc[j] # "none" /\ pc' = [pc EXCEPT ![j] = "none"]
        /\ \E outcome \in Ended : state' = [state EXCEPT ![j] = outcome]
    BY <1>3 DEF Finish, Goto, Ends, Ended
  <2>0. \A i \in 1..Len(queue) : queue[i] \in Jobs
    BY DEF TypeOK
  <2>2. \A i \in 1..Len(queue) : queue[i] \in Jobs /\ queue[i] # j
    <3>1. state[j] = "starting"
      BY <2>1
    <3> QED BY <2>0, <3>1
  <2>3. \A i \in Jobs : pc'[i] # "none" <=> state'[i] = "starting"
    BY <2>1 DEF TypeOK, Ended
  <2>4. \A i \in 1..Len(queue') : state'[queue'[i]] = "queued"
    BY <2>1, <2>2 DEF TypeOK
  <2> QED BY <2>1, <2>3, <2>4
<1>4. ASSUME UNCHANGED <<queue, state>>,
             \A i \in Jobs : pc'[i] # "none" <=> pc[i] # "none"
      PROVE  QueueInv'
  BY <1>4
<1>5. ASSUME NEW j \in Jobs, CancelTransfer(j) PROVE QueueInv'
  BY <1>4, <1>5 DEF CancelTransfer, runVars
<1>6. ASSUME NEW j \in Jobs, CheckGen(j) \/ GetClient(j) \/ GetClientFails(j) \/ FallBack(j) PROVE QueueInv'
  BY <1>4, <1>6 DEF CheckGen, GetClient, GetClientFails, FallBack, Fail, Goto, TypeOK, jobVars
<1>7. ASSUME NEW j \in Jobs, Uploading(j) PROVE QueueInv'
  BY <1>4, <1>7 DEF Uploading, Open, OpenFails, TakeSpares, UploadRead, UploadFails, Abort, CommitStat,
                   CommitRename, CommitFails, Fail, Goto, TypeOK, jobVars
<1>8. ASSUME NEW j \in Jobs, Downloading(j) \/ Write(j) PROVE QueueInv'
  BY <1>4, <1>8 DEF Downloading, Create, DownloadRead, DownloadFails, Write, Fail, Goto, TypeOK, jobVars
<1>9. CASE Connecting \/ UNCHANGED vars
  BY <1>4, <1>9 DEF Connecting, Lose, Reconnect, Disconnect, CancelAllTransfers, Connect, vars, jobVars, runVars
<1> QED BY <1>1, <1>2, <1>3, <1>5, <1>6, <1>7, <1>8, <1>9 DEF Next, Working

-----------------------------------------------------------------------------
(* Clients and channels, and what is written                                *)

LEMMA ClientType == TypeOK => Client \in 0..Len(links)
  BY DEF TypeOK, Client

LEMMA RunActing ==
  ASSUME TypeOK, QueueInv, NEW j \in Jobs, RunOf(j), Acting(j)
  PROVE  RunOf(j)'
<1> USE DEF TypeOK, QueueInv, RunOf, Before, Goto, Fail, runVars, jobVars
<1>1. CASE Enqueue(j) \/ CancelTransfer(j)
  BY <1>1 DEF Enqueue, CancelTransfer
<1>2. CASE Pick(j)
  <2>1. state[j] = "queued" /\ pc[j] = "none"
    BY <1>2 DEF Pick
  <2> QED BY <1>2, <2>1 DEF Pick
<1>3. CASE CheckGen(j) \/ GetClientFails(j)
  BY <1>3 DEF CheckGen, GetClientFails
<1>4. CASE GetClient(j)
  <2>1. Large \subseteq Uploads
    BY TransfersAssumption
  <2> QED BY <1>4, <2>1, ClientType DEF GetClient
<1>5. CASE Uploading(j)
  <2>1. CASE Open(j)          BY <2>1, <1>5 DEF Open, Uploading
  <2>2. CASE OpenFails(j)     BY <2>2 DEF OpenFails
  <2>3. CASE TakeSpares(j)    BY <2>3 DEF TakeSpares
  <2>4. CASE UploadRead(j)    BY <2>4, <1>5 DEF UploadRead, Uploading
  <2>5. CASE UploadFails(j)   BY <2>5, <1>5 DEF UploadFails, Uploading
  <2>6. CASE Abort(j)         BY <2>6 DEF Abort
  <2>7. CASE CommitStat(j)    BY <2>7 DEF CommitStat
  <2>8. CASE CommitRename(j)  BY <2>8 DEF CommitRename
  <2>9. CASE CommitFails(j)   BY <2>9 DEF CommitFails
  <2> QED BY <1>5, <2>1, <2>2, <2>3, <2>4, <2>5, <2>6, <2>7, <2>8, <2>9 DEF Uploading
<1>6. CASE Write(j)
  BY <1>6 DEF Write
<1>7. CASE Downloading(j)
  BY <1>7 DEF Downloading, Create, DownloadRead, DownloadFails
<1>8. CASE FallBack(j)
  BY <1>8 DEF FallBack
<1>9. CASE Finish(j)
  BY <1>9 DEF Finish, Ends
<1> QED BY <1>1, <1>2, <1>3, <1>4, <1>5, <1>6, <1>7, <1>8, <1>9 DEF Acting, Working

LEMMA RunStep == TypeOK /\ QueueInv /\ RunInv /\ [Next]_vars => RunInv'
<1> SUFFICES ASSUME TypeOK, QueueInv, RunInv, [Next]_vars, NEW i \in Jobs PROVE RunOf(i)'
  BY DEF RunInv
<1>1. RunOf(i)
  BY DEF RunInv
<1>2. ASSUME NEW j \in Jobs, Acting(j) PROVE RunOf(i)'
  <2>1. CASE i = j   BY <1>1, <1>2, <2>1, RunActing
  <2>2. CASE i # j   BY <1>1, <1>2, <2>2, OthersUntouched, RunUntouched
  <2> QED BY <2>1, <2>2
<1>3. CASE Connecting \/ UNCHANGED vars
  BY <1>1, <1>3, ConnectingUntouched, StutterUntouched, RunUntouched
<1> QED BY <1>2, <1>3 DEF Next, Acting

LEMMA NoneWritten == Cardinality({}) = 0 /\ 1..0 = {}
  BY FS_EmptySet

LEMMA WholeIsChunks == Chunks \in Nat \ {0} /\ Cardinality(1..Chunks) = Chunks
  BY TransfersAssumption, FS_Interval

(* The size of a file that was written in order is the number of its chunks. *)
LEMMA PrefixSize ==
  ASSUME NEW n \in Nat
  PROVE  Max((1..n) \cup {0}) = n
<1> DEFINE S == (1..n) \cup {0}
<1>1. n \in S /\ \A y \in S : n >= y /\ y \in Nat
  OBVIOUS
<1>2. \A x \in S : (\A y \in S : x >= y) => x = n
  BY <1>1
<1>3. Max(S) = CHOOSE x \in S : \A y \in S : x >= y
  BY DEF Max
<1> QED BY <1>1, <1>2, <1>3

LEMMA WrittenFinite ==
  ASSUME TypeOK, NEW j \in Jobs
  PROVE  IsFiniteSet(written[File(j)]) /\ Cardinality(written[File(j)]) \in Nat
<1>1. written[File(j)] \in SUBSET (1..Chunks)
  BY FileType DEF TypeOK
<1>2. IsFiniteSet(1..Chunks)
  BY WholeIsChunks, FS_Interval
<1> QED BY <1>1, <1>2, FS_Subset, FS_CardinalityType

LEMMA WrittenWrite ==
  ASSUME TypeOK, QueueInv, NEW j \in Jobs, WrittenOf(j), Write(j)
  PROVE  WrittenOf(j)'
<1>1. File(j)' = File(j) /\ File(j) \in Files /\ File(j) = <<j, attempt[j]>>
  BY FileType DEF Write, File
<1>2. PICK c \in 1..Chunks \ written[File(j)] :
        /\ attempt[j] = "plain" => c = Cardinality(written[File(j)]) + 1
        /\ written' = [written EXCEPT ![File(j)] = @ \cup {c}]
  BY DEF Write
<1>3. written'[File(j)] = written[File(j)] \cup {c}
  BY <1>1, <1>2 DEF TypeOK
<1>4. Cardinality(written'[File(j)]) = Cardinality(written[File(j)]) + 1
  BY <1>2, <1>3, WrittenFinite, FS_AddElement
<1>5. bytes'[j] = bytes[j] + 1
  BY DEF Write, TypeOK
<1>6. \E n \in 0..Chunks : written'[<<j, "plain">>] = 1..n
  <2>1. PICK n \in 0..Chunks : written[<<j, "plain">>] = 1..n
    BY DEF WrittenOf
  <2>2. CASE attempt[j] = "split"
    <3>1. written'[<<j, "plain">>] = written[<<j, "plain">>]
      BY <1>1, <1>2, <2>2, FilesIsFile DEF TypeOK
    <3> QED BY <2>1, <3>1
  <2>3. CASE attempt[j] = "plain"
    <3>1. Cardinality(1..n) = n
      BY <2>1, FS_Interval
    <3>2. c = n + 1 /\ n + 1 \in 1..Chunks
      BY <1>1, <1>2, <2>1, <2>3, <3>1
    <3>3. written'[<<j, "plain">>] = 1..(n + 1)
      <4>1. (1..n) \cup {n + 1} = 1..(n + 1)
        BY <2>1, WholeIsChunks
      <4> QED BY <1>1, <1>3, <2>1, <2>3, <3>2, <4>1
    <3> QED BY <3>2, <3>3
  <2> QED BY <2>2, <2>3 DEF TypeOK
<1>7. attempt[j] = "split" => written'[<<j, "plain">>] = {}
  <2>1. attempt[j] = "split" => written'[<<j, "plain">>] = written[<<j, "plain">>]
    BY <1>1, <1>2, FilesIsFile DEF TypeOK
  <2> QED BY <2>1 DEF WrittenOf
<1>8. pc[j] = "write" /\ pc' = pc /\ state' = state /\ attempt' = attempt
  BY DEF Write, jobVars
<1>9. state[j] # "done" /\ ~Before(j)
  BY <1>8, QueueInv DEF QueueInv, Before
<1>10. bytes'[j] = Cardinality(written'[File(j)'])
  BY <1>1, <1>4, <1>5 DEF WrittenOf
<1> QED BY <1>6, <1>7, <1>8, <1>9, <1>10 DEF WrittenOf, Before

LEMMA WrittenActing ==
  ASSUME TypeOK, QueueInv, NEW j \in Jobs, RunOf(j), WrittenOf(j), TempOf(j) \/ ~CommitStat(j), Acting(j)
  PROVE  WrittenOf(j)'
<1>1. CASE Write(j)
  BY <1>1, WrittenWrite
<1> USE DEF Goto, Fail, runVars, jobVars, fileVars
<1>2. CASE Enqueue(j) \/ CancelTransfer(j)
  BY <1>2 DEF Enqueue, CancelTransfer, TypeOK, QueueInv, WrittenOf, Before, File
<1>3. CASE Pick(j)
  <2>1. state[j] = "queued" /\ pc[j] = "none"
    BY <1>3 DEF Pick, TypeOK, QueueInv
  <2> QED BY <1>3, <2>1 DEF Pick, TypeOK, WrittenOf, Before, File
<1>4. CASE CheckGen(j) \/ GetClientFails(j)
  BY <1>4 DEF CheckGen, GetClientFails, TypeOK, WrittenOf, Before, File
<1>5. CASE GetClient(j)
  <2>1. /\ written[<<j, "split">>] = {} /\ written[<<j, "plain">>] = {} /\ bytes[j] = 0
        /\ UNCHANGED <<written, bytes, state>> /\ pc[j] = "client" /\ pc'[j] = "open"
    BY <1>5, NoneWritten DEF GetClient, TypeOK, WrittenOf, Before, File
  <2>2. attempt'[j] \in {"split", "plain"}
    BY <1>5 DEF GetClient, TypeOK
  <2>3. written'[File(j)'] = {}
    BY <2>1, <2>2 DEF File
  <2>4. \E n \in 0..Chunks : written'[<<j, "plain">>] = 1..n
    BY <2>1 DEF WrittenOf
  <2>5. state[j] = "starting"
    BY <2>1 DEF QueueInv
  <2> QED BY <2>1, <2>3, <2>4, <2>5, NoneWritten DEF WrittenOf, Before
<1>6. CASE Uploading(j) /\ ~CommitStat(j) /\ ~CommitRename(j) /\ ~UploadRead(j)
  BY ZenonT(40), <1>6 DEF Uploading, Open, OpenFails, TakeSpares, UploadFails, Abort, CommitFails, TypeOK, QueueInv,
              WrittenOf, Before, File
<1>7. CASE UploadRead(j) \/ CommitRename(j)
  BY <1>7 DEF UploadRead, CommitRename, TypeOK, QueueInv, WrittenOf, Before, File
<1>8. CASE Downloading(j)
  BY <1>8 DEF Downloading, Create, DownloadRead, DownloadFails, TypeOK, QueueInv, WrittenOf, Before, File
<1>9. CASE FallBack(j)
  BY <1>9, NoneWritten DEF FallBack, TypeOK, QueueInv, WrittenOf, Before, File
<1>10. CASE Finish(j)
  BY ZenonT(40), <1>10 DEF Finish, Ends, TypeOK, QueueInv, WrittenOf, Before, File
<1>11. CASE CommitStat(j) /\ TempOf(j)
  <2>1. Temp(j) = File(j) /\ pc[j] = "stat" /\ Size(File(j)) = Chunks /\ pc' = [pc EXCEPT ![j] = "rename"]
    BY <1>11 DEF CommitStat, TempOf
  <2>2. written[File(j)] = 1..Chunks
    <3>1. CASE attempt[j] = "split"
      BY <2>1, <3>1 DEF WrittenOf
    <3>2. CASE attempt[j] = "plain"
      <4>1. File(j) = <<j, "plain">> /\ File(j) # None
        BY <3>2, TransfersAssumption DEF File, Jobs
      <4>2. PICK n \in 0..Chunks : written[File(j)] = 1..n
        BY <4>1 DEF WrittenOf
      <4>3. Size(File(j)) = Max((1..n) \cup {0})
        BY <4>1, <4>2 DEF Size
      <4>4. Max((1..n) \cup {0}) = n
        BY <4>2, PrefixSize, WholeIsChunks
      <4> QED BY <2>1, <4>2, <4>3, <4>4
    <3> QED BY <3>1, <3>2 DEF TypeOK
  <2> QED BY <1>11, <2>1, <2>2 DEF CommitStat, TypeOK, QueueInv, WrittenOf, Before, File
<1> QED BY <1>1, <1>2, <1>3, <1>4, <1>5, <1>6, <1>7, <1>8, <1>9, <1>10, <1>11 DEF Acting, Working, Uploading

-----------------------------------------------------------------------------
(* Local files of downloads                                                 *)

LEMMA LocalActing ==
  ASSUME TypeOK, QueueInv, RunInv, NEW j \in Downloads, LocalOf(j), Acting(j)
  PROVE  LocalOf(j)'
<1>1. j \in Jobs /\ j \notin Uploads
  BY TransfersAssumption DEF Jobs
<1>2. RunOf(j)
  BY <1>1 DEF RunInv
<1> USE <1>1, <1>2 DEF TypeOK, QueueInv, RunOf, LocalOf, Before, Goto, Fail, jobVars, fileVars
<1>3. CASE Enqueue(j) \/ CancelTransfer(j) \/ Write(j)
  BY <1>3 DEF Enqueue, CancelTransfer, Write, runVars
<1>4. CASE Pick(j)
  <2>1. state[j] = "queued" /\ pc[j] = "none"
    BY <1>4 DEF Pick
  <2> QED BY <1>4, <2>1 DEF Pick
<1>5. CASE CheckGen(j) \/ GetClientFails(j) \/ GetClient(j)
  BY <1>5 DEF CheckGen, GetClientFails, GetClient
<1>6. CASE Downloading(j)
  BY <1>6 DEF Downloading, Create, DownloadRead, DownloadFails
<1>7. CASE FallBack(j)
  BY <1>7 DEF FallBack
<1>8. CASE Finish(j)
  BY <1>8 DEF Finish, Ends
<1> QED BY <1>3, <1>4, <1>5, <1>6, <1>7, <1>8 DEF Acting, Working, Uploading

LEMMA LocalStep == TypeOK /\ QueueInv /\ RunInv /\ LocalInv /\ [Next]_vars => LocalInv'
<1> SUFFICES ASSUME TypeOK, QueueInv, RunInv, LocalInv, [Next]_vars, NEW i \in Downloads PROVE LocalOf(i)'
  BY DEF LocalInv
<1>1. LocalOf(i) /\ i \in Jobs
  BY DEF LocalInv, Jobs
<1>2. ASSUME NEW j \in Jobs, Acting(j) PROVE LocalOf(i)'
  <2>1. CASE i = j   BY <1>1, <1>2, <2>1, LocalActing
  <2>2. CASE i # j   BY <1>1, <1>2, <2>2, OthersUntouched, LocalUntouched
  <2> QED BY <2>1, <2>2
<1>3. CASE Connecting \/ UNCHANGED vars
  BY <1>1, <1>3, ConnectingUntouched, StutterUntouched, LocalUntouched
<1> QED BY <1>2, <1>3 DEF Next, Acting

-----------------------------------------------------------------------------
(* The files on the tablets, for uploads to paths of their own              *)

LEMMA TabletType ==
  ASSUME TypeOK, NEW j \in Jobs, held[j] # 0
  PROVE  Tablet(j) \in Tablets /\ held[j] \in 1..Len(links)
<1>1. held[j] \in 1..Len(links)
  BY DEF TypeOK
<1> QED BY <1>1 DEF TypeOK, Tablet

(* A step over an upload's client changes what is under its own name, on    *)
(* the tablet of that client.                                               *)
LEMMA SetTempAt ==
  ASSUME OwnPaths, TypeOK, NEW j \in Uploads, NEW f, SetTemp(j, f), held[j] # 0
  PROVE  \A i \in Uploads, t \in Tablets :
           temp'[t][Path[i]] = IF i = j /\ t = Tablet(j) THEN f ELSE temp[t][Path[i]]
<1>1. Tablet(j) \in Tablets
  BY TabletType DEF Jobs
<1>2. \A t \in Tablets : DOMAIN temp[t] = Paths
  BY DEF TypeOK
<1>3. DOMAIN temp = Tablets
  BY DEF TypeOK
<1>4. ASSUME NEW i \in Uploads, NEW t \in Tablets
      PROVE  temp'[t][Path[i]] = IF i = j /\ t = Tablet(j) THEN f ELSE temp[t][Path[i]]
  BY <1>1, <1>2, <1>3, PathsIsPath DEF SetTemp, OwnPaths
<1> QED BY <1>4

(* A client that is dead stays dead, and a tablet is the one it was dialed  *)
(* to.                                                                      *)
LEMMA DeadStaysDead ==
  ASSUME TypeOK, NEW j \in Jobs, Connecting \/ UNCHANGED connVars, held'[j] = held[j]
  PROVE  /\ Alive(j)' => Alive(j)
         /\ held[j] # 0 => Tablet(j)' = Tablet(j)
<1>1. held[j] \in 0..Len(links) /\ Len(links) \in Nat
  BY DEF TypeOK
<1>2. CASE Lose \/ Disconnect \/ CancelAllTransfers \/ UNCHANGED connVars
  BY <1>1, <1>2 DEF Lose, Disconnect, CancelAllTransfers, connVars, Alive, Client, Tablet
<1>3. ASSUME NEW t \in Tablets, NewLink(t) PROVE ~Alive(j)' /\ (held[j] # 0 => Tablet(j)' = Tablet(j))
  BY <1>1, <1>3, NewLinkType DEF Alive, Client, Tablet
<1>4. CASE Reconnect
  <2>1. links[Len(links)] \in Tablets
    BY DEF TypeOK
  <2> QED BY <1>3, <1>4, <2>1 DEF Reconnect, NewLink
<1>5. ASSUME NEW t \in Tablets, Connect(t) PROVE ~Alive(j)' /\ (held[j] # 0 => Tablet(j)' = Tablet(j))
  BY <1>3, <1>5 DEF Connect, NewLink
<1> QED BY <1>2, <1>4, <1>5 DEF Connecting

(* A step that leaves the job and its temporary names alone.                *)
LEMMA TempUntouched ==
  ASSUME TypeOK, NEW i \in Uploads, RunOf(i), TempOf(i), Untouched(i), Connecting \/ UNCHANGED connVars,
         \A t \in Tablets : temp'[t][Path[i]] = temp[t][Path[i]]
  PROVE  TempOf(i)'
<1>1. i \in Jobs /\ held'[i] = held[i] /\ attempt'[i] = attempt[i]
  BY DEF Jobs, Untouched
<1>2. Alive(i)' => Alive(i)
  BY <1>1, DeadStaysDead
<1>3. held[i] # 0 => Temp(i)' = Temp(i) /\ File(i)' = File(i)
  BY <1>1, DeadStaysDead, TabletType DEF Temp, File
<1>4. Alive(i) => held[i] # 0
  BY <1>1, ClientType DEF Alive
<1> QED BY <1>1, <1>2, <1>3, <1>4 DEF TempOf, RunOf, Untouched, Before

LEMMA TempOthers ==
  ASSUME OwnPaths, TypeOK, RunInv, NEW j \in Jobs, Acting(j), NEW i \in Uploads, i # j
  PROVE  \A t \in Tablets : temp'[t][Path[i]] = temp[t][Path[i]]
<1>1. CASE UNCHANGED temp
  BY <1>1
<1>2. ASSUME j \in Uploads, NEW f, SetTemp(j, f), held[j] # 0
      PROVE  \A t \in Tablets : temp'[t][Path[i]] = temp[t][Path[i]]
  BY <1>2, SetTempAt
<1>3. Alive(j) => held[j] # 0
  BY ClientType DEF Alive
<1> QED BY <1>1, <1>2, <1>3 DEF Acting, Enqueue, CancelTransfer, Working, Pick, CheckGen, GetClient,
     GetClientFails, Uploading, Open, OpenFails, TakeSpares, UploadRead, UploadFails, Abort, CommitStat,
     CommitRename, CommitFails, RemoveTemp, Write, Downloading, Create, DownloadRead, DownloadFails, FallBack,
     Finish, fileVars

LEMMA TempSet ==
  ASSUME OwnPaths, TypeOK, NEW j \in Uploads, NEW f, SetTemp(j, f), held[j] # 0
  PROVE  /\ temp'[Tablet(j)][Path[j]] = f
         /\ \A t \in Tablets : temp'[t][Path[j]] \in {f, temp[t][Path[j]]}
  BY TabletType, SetTempAt DEF Jobs

LEMMA TempRemoved ==
  ASSUME OwnPaths, TypeOK, NEW j \in Uploads, RemoveTemp(j), UNCHANGED <<connVars, held>>
  PROVE  /\ Alive(j)' => Temp(j)' = None
         /\ \A t \in Tablets : temp'[t][Path[j]] \in {None, temp[t][Path[j]]}
<1>1. Alive(j)' = Alive(j) /\ Tablet(j)' = Tablet(j)
  BY DEF Alive, Client, Tablet, connVars
<1>2. CASE Alive(j)
  BY <1>1, <1>2, TempSet, ClientType DEF RemoveTemp, Alive, Temp
<1>3. CASE ~Alive(j)
  BY <1>1, <1>3 DEF RemoveTemp
<1> QED BY <1>2, <1>3

LEMMA TempUploading ==
  ASSUME OwnPaths, TypeOK, QueueInv, NEW j \in Uploads, RunOf(j), TempOf(j), Uploading(j)
  PROVE  TempOf(j)'
<1>1. j \in Jobs
  BY DEF Jobs
<1>2. UNCHANGED <<connVars, held, attempt, state>>
  BY DEF Uploading, Open, OpenFails, TakeSpares, UploadRead, UploadFails, Abort, CommitStat, CommitRename,
         CommitFails, jobVars
<1>3. Alive(j)' = Alive(j) /\ Tablet(j)' = Tablet(j) /\ File(j)' = File(j)
  BY <1>2 DEF Alive, Client, Tablet, File, connVars
<1>4. File(j) \in {<<j, "split">>, <<j, "plain">>}
  BY <1>1 DEF File, TypeOK
<1>5. pc[j] # "none" /\ pc'[j] # "none" /\ state[j] = "starting" /\ state'[j] = "starting" /\ ~Before(j)'
  BY <1>1, <1>2 DEF Uploading, Open, OpenFails, TakeSpares, UploadRead, UploadFails, Abort, CommitStat,
     CommitRename, CommitFails, Fail, Goto, TypeOK, QueueInv, Before
<1>6. Alive(j) => held[j] # 0
  BY <1>1, ClientType DEF Alive
<1>7. state'[j] \notin Ended
  BY <1>5 DEF Ended
<1> USE DEF TypeOK, Goto, Fail
<1>8. CASE Open(j)
  <2>1. SetTemp(j, File(j)) /\ pc'[j] \in {"spares", "write"}
    BY <1>1, <1>8 DEF Open
  <2>2. Temp(j)' = File(j) /\ \A t \in Tablets : temp'[t][Path[j]] \in {File(j), temp[t][Path[j]]}
    BY SMTT(30), <1>3, <1>6, <1>8, <2>1, TempSet DEF Open, Temp
  <2> QED BY <1>3, <1>4, <1>5, <1>7, <2>1, <2>2 DEF TempOf
<1>9. CASE OpenFails(j) /\ UNCHANGED temp
  <2>1. pc[j] = "open" /\ pc'[j] = "failed" /\ Temp(j)' = Temp(j)
    BY <1>1, <1>3, <1>9 DEF OpenFails, Temp
  <2> QED BY <1>3, <1>5, <1>9, <2>1 DEF TempOf
<1>10. CASE RemoveTemp(j) /\ (OpenFails(j) \/ Abort(j) \/ CommitFails(j))
  <2>1. pc'[j] = "failed"
    BY <1>1, <1>10 DEF OpenFails, Abort, CommitFails
  <2> QED BY <1>2, <1>5, <1>10, <2>1, TempRemoved DEF TempOf
<1>11. CASE TakeSpares(j) \/ UploadRead(j) \/ UploadFails(j) \/ CommitStat(j)
  <2>1. /\ UNCHANGED temp /\ pc[j] \in {"spares", "write", "stat"}
        /\ pc'[j] \in {"write", "stat", "rename", "abort"}
    BY <1>1, <1>11 DEF TakeSpares, UploadRead, UploadFails, CommitStat, fileVars
  <2>2. Temp(j)' = Temp(j)
    BY <1>3, <2>1 DEF Temp
  <2> QED BY <1>3, <1>5, <1>7, <2>1, <2>2 DEF TempOf
<1>12. CASE CommitRename(j)
  <2>1. SetTemp(j, None) /\ pc'[j] \in {"returned", "failed"}
    BY <1>1, <1>12 DEF CommitRename
  <2>2. Temp(j)' = None /\ \A t \in Tablets : temp'[t][Path[j]] \in {None, temp[t][Path[j]]}
    BY <1>3, <1>6, <1>12, <2>1, TempSet DEF CommitRename, Temp
  <2> QED BY <1>5, <2>1, <2>2 DEF TempOf
<1> QED BY <1>8, <1>9, <1>10, <1>11, <1>12 DEF Uploading, OpenFails, Abort, CommitFails

LEMMA TempActing ==
  ASSUME OwnPaths, TypeOK, QueueInv, NEW j \in Uploads, RunOf(j), TempOf(j), Acting(j)
  PROVE  TempOf(j)'
<1>1. CASE Uploading(j)
  BY <1>1, TempUploading
<1>2. j \in Jobs /\ j \notin Downloads
  BY TransfersAssumption DEF Jobs
<1>3. CASE ~Uploading(j)
  <2>1. UNCHANGED <<temp, connVars>>
    BY <1>2, <1>3 DEF Acting, Enqueue, CancelTransfer, Working, Pick, CheckGen, GetClient, GetClientFails, Write,
       Downloading, FallBack, Finish, fileVars
  <2>2. held[j] # 0 \/ ~Alive(j)
    BY ClientType DEF Alive
  <2> USE <1>2, <2>1 DEF TypeOK, QueueInv, RunOf, TempOf, Before, Goto, Fail, Temp, File, Tablet, Alive, Client,
          connVars, runVars, jobVars
  <2>3. CASE Enqueue(j) \/ CancelTransfer(j) \/ Write(j)
    BY <2>3 DEF Enqueue, CancelTransfer, Write
  <2>4. CASE Pick(j)
    <3>1. state[j] = "queued" /\ pc[j] = "none"
      BY SMTT(30), <2>4 DEF Pick
    <3>2. UNCHANGED <<temp, connVars, held>> /\ pc'[j] \in {"none", "check"}
      BY SMTT(30), <2>4, <3>1 DEF Pick
    <3>3. Temp(j)' = Temp(j)
      BY <3>2 DEF Temp
    <3> QED BY <3>1, <3>2, <3>3
  <2>5. CASE CheckGen(j) \/ GetClientFails(j)
    BY <2>2, <2>5 DEF CheckGen, GetClientFails
  <2>6. CASE GetClient(j)
    <3>1. Client \in 1..Len(links)
      BY <2>6, ClientType DEF GetClient
    <3>2. held'[j] \in 1..Len(links) /\ links[held'[j]] \in Tablets
      BY <2>6, <3>1 DEF GetClient
    <3>3. temp[links[held'[j]]][Path[j]] = None
      BY <2>6, <3>2 DEF GetClient
    <3> QED BY <2>6, <3>2, <3>3 DEF GetClient, Ended
  <2>7. CASE FallBack(j)
    BY <2>7 DEF FallBack, Ended
  <2>8. CASE Finish(j)
    BY SMTT(30), <2>8 DEF Finish, Ends, Ended
  <2> QED BY <1>2, <1>3, <2>3, <2>4, <2>5, <2>6, <2>7, <2>8 DEF Acting, Working, Downloading
<1> QED BY <1>1, <1>3

LEMMA TempStep == ASSUME OwnPaths PROVE TypeOK /\ QueueInv /\ RunInv /\ TempInv /\ [Next]_vars => TempInv'
<1> SUFFICES ASSUME TypeOK, QueueInv, RunInv, TempInv, [Next]_vars, NEW i \in Uploads PROVE TempOf(i)'
  BY DEF TempInv
<1>1. TempOf(i) /\ i \in Jobs /\ RunOf(i)
  BY DEF TempInv, RunInv, Jobs
<1>2. ASSUME NEW j \in Jobs, Acting(j) PROVE TempOf(i)'
  <2>1. CASE i = j   BY <1>1, <1>2, <2>1, TempActing
  <2>2. CASE i # j   BY <1>1, <1>2, <2>2, OthersUntouched, TempOthers, TempUntouched
  <2> QED BY <2>1, <2>2
<1>3. CASE Connecting \/ UNCHANGED vars
  <2>1. Untouched(i) /\ UNCHANGED temp /\ (Connecting \/ UNCHANGED connVars)
    BY <1>1, <1>3, ConnectingUntouched, StutterUntouched DEF fileVars
  <2> QED BY <1>1, <2>1, TempUntouched
<1> QED BY <1>2, <1>3 DEF Next, Acting

LEMMA WrittenStep ==
  TypeOK /\ QueueInv /\ RunInv /\ WrittenInv /\ TempInv /\ [Next]_vars => WrittenInv'
<1> SUFFICES ASSUME TypeOK, QueueInv, RunInv, WrittenInv, TempInv, [Next]_vars, NEW i \in Jobs PROVE WrittenOf(i)'
  BY DEF WrittenInv
<1>1. WrittenOf(i) /\ RunOf(i) /\ (i \in Uploads => TempOf(i))
  BY DEF WrittenInv, RunInv, TempInv
<1>2. ASSUME NEW j \in Jobs, Acting(j) PROVE WrittenOf(i)'
  <2>1. CASE i = j
    <3>1. TempOf(i) \/ ~CommitStat(i)
      BY <1>1 DEF RunOf, CommitStat, Goto
    <3> QED BY <1>1, <1>2, <2>1, <3>1, WrittenActing
  <2>2. CASE i # j   BY <1>1, <1>2, <2>2, OthersUntouched, WrittenUntouched
  <2> QED BY <2>1, <2>2
<1>3. CASE Connecting \/ UNCHANGED vars
  BY <1>1, <1>3, ConnectingUntouched, StutterUntouched, WrittenUntouched
<1> QED BY <1>2, <1>3 DEF Next, Acting

(* A file that is whole stays whole.                                        *)
LEMMA WholeStays ==
  ASSUME TypeOK, NEW f \in Files, written[f] = 1..Chunks, [Next]_vars
  PROVE  written'[f] = 1..Chunks
<1>1. ASSUME NEW j \in Jobs, Write(j) PROVE written'[f] = 1..Chunks
  BY <1>1, FileType DEF Write, TypeOK
<1>2. CASE UNCHANGED written
  BY <1>2
<1> QED BY <1>1, <1>2 DEF Next, Enqueue, CancelTransfer, Working, Pick, CheckGen, GetClient,
     GetClientFails, Uploading, Open, OpenFails, TakeSpares, UploadRead, UploadFails, Abort, CommitStat,
     CommitRename, CommitFails, Downloading, Create, DownloadRead, DownloadFails, FallBack, Finish,
     Connecting, Lose, Reconnect, Disconnect, CancelAllTransfers, Connect, vars, fileVars

LEMMA DestKept ==
  ASSUME TypeOK, [Next]_vars, \A j \in Uploads : ~CommitRename(j)
  PROVE  UNCHANGED dest
  BY DEF Next, Enqueue, CancelTransfer, Working, Pick, CheckGen, GetClient,
     GetClientFails, Uploading, Open, OpenFails, TakeSpares, UploadRead, UploadFails, Abort, CommitStat,
     CommitFails, Downloading, Create, DownloadRead, DownloadFails, FallBack, Write, Finish,
     Connecting, Lose, Reconnect, Disconnect, CancelAllTransfers, Connect, vars, fileVars

LEMMA RenameAt ==
  ASSUME OwnPaths, TypeOK, NEW j \in Uploads, RunOf(j), TempOf(j), CommitRename(j)
  PROVE  \A i \in Uploads, t \in Tablets :
           dest'[t][Path[i]] = IF i = j /\ t = Tablet(j) THEN File(j) ELSE dest[t][Path[i]]
<1>1. j \in Jobs /\ pc[j] = "rename" /\ held[j] # 0 /\ Tablet(j) \in Tablets
  BY TabletType DEF CommitRename, Goto, RunOf, Jobs
<1>2. Temp(j) = File(j)
  BY <1>1 DEF TempOf
<1>3. DOMAIN dest = Tablets /\ \A t \in Tablets : DOMAIN dest[t] = Paths
  BY DEF TypeOK
<1>4. dest' = [dest EXCEPT ![Tablet(j)][Path[j]] = File(j)]
  BY <1>2 DEF CommitRename
<1>5. ASSUME NEW i \in Uploads, NEW t \in Tablets
      PROVE  dest'[t][Path[i]] = IF i = j /\ t = Tablet(j) THEN File(j) ELSE dest[t][Path[i]]
  BY <1>1, <1>3, <1>4, PathsIsPath DEF OwnPaths
<1> QED BY <1>5

(* What stands under a path stays whole, whoever else steps.                *)
LEMMA DestWhole ==
  ASSUME OwnPaths, TypeOK, RunInv, WrittenInv, TempInv, DestInv, [Next]_vars,
         NEW i \in Uploads, NEW t \in Tablets
  PROVE  /\ dest'[t][Path[i]] \in {None, <<i, "split">>, <<i, "plain">>}
         /\ dest'[t][Path[i]] # None => written'[dest'[t][Path[i]]] = 1..Chunks
<1>1. /\ dest[t][Path[i]] \in {None, <<i, "split">>, <<i, "plain">>}
      /\ dest[t][Path[i]] # None => written[dest[t][Path[i]]] = 1..Chunks
  BY DEF DestInv, DestOf
<1>2. <<i, "split">> \in Files /\ <<i, "plain">> \in Files
  BY FilesIsFile DEF Jobs
<1>3. dest[t][Path[i]] # None => written'[dest[t][Path[i]]] = 1..Chunks
  BY <1>1, <1>2, WholeStays
<1>4. ASSUME NEW j \in Uploads, CommitRename(j)
      PROVE  \/ dest'[t][Path[i]] = dest[t][Path[i]]
             \/ i = j /\ dest'[t][Path[i]] = File(i) /\ written[File(i)] = 1..Chunks
  <2>1. RunOf(j) /\ TempOf(j) /\ WrittenOf(j) /\ pc[j] = "rename"
    BY <1>4 DEF RunInv, TempInv, WrittenInv, CommitRename, Goto, Jobs
  <2> QED BY <1>4, <2>1, RenameAt DEF WrittenOf
<1>5. File(i) \in {<<i, "split">>, <<i, "plain">>}
  BY DEF File, TypeOK, Jobs
<1>6. CASE UNCHANGED dest
  BY <1>1, <1>3, <1>6
<1>7. ASSUME NEW j \in Uploads, CommitRename(j)
      PROVE  /\ dest'[t][Path[i]] \in {None, <<i, "split">>, <<i, "plain">>}
             /\ dest'[t][Path[i]] # None => written'[dest'[t][Path[i]]] = 1..Chunks
  <2>1. written[File(i)] = 1..Chunks => written'[File(i)] = 1..Chunks
    BY <1>2, <1>5, WholeStays
  <2> QED BY <1>1, <1>3, <1>4, <1>5, <1>7, <2>1
<1> QED BY <1>6, <1>7, DestKept

LEMMA DestReturned ==
  ASSUME OwnPaths, TypeOK, QueueInv, RunInv, WrittenInv, TempInv, DestInv, [Next]_vars, NEW i \in Uploads,
         pc'[i] = "returned" \/ state'[i] = "done"
  PROVE  dest'[Tablet(i)'][Path[i]] = File(i)'
<1>1. i \in Jobs /\ i \notin Downloads /\ RunOf(i) /\ TempOf(i) /\ DestOf(i)
  BY TransfersAssumption DEF RunInv, TempInv, DestInv, Jobs
<1>2. ASSUME pc[i] = "returned" \/ state[i] = "done", held'[i] = held[i], attempt'[i] = attempt[i],
             Connecting \/ UNCHANGED connVars
      PROVE  dest'[Tablet(i)'][Path[i]] = File(i)'
  <2>1. held[i] # 0 /\ dest[Tablet(i)][Path[i]] = File(i)
    BY <1>1, <1>2 DEF RunOf, DestOf
  <2>2. Tablet(i)' = Tablet(i) /\ File(i)' = File(i) /\ Tablet(i) \in Tablets
    BY <1>1, <1>2, <2>1, DeadStaysDead, TabletType DEF File
  <2>3. CASE UNCHANGED dest
    BY <2>1, <2>2, <2>3
  <2>4. ASSUME NEW j \in Uploads, CommitRename(j) PROVE dest'[Tablet(i)'][Path[i]] = File(i)'
    <3>1. RunOf(j) /\ TempOf(j)
      BY DEF RunInv, TempInv, Jobs
    <3> QED BY <2>1, <2>2, <2>4, <3>1, RenameAt
  <2> QED BY <2>3, <2>4, DestKept
<1>3. ASSUME NEW j \in Jobs, Acting(j), i # j PROVE dest'[Tablet(i)'][Path[i]] = File(i)'
  <2>1. Untouched(i) /\ UNCHANGED connVars
    BY <1>1, <1>3, OthersUntouched
  <2> QED BY <1>2, <2>1 DEF Untouched
<1>4. CASE Connecting \/ UNCHANGED vars
  <2>1. Untouched(i) /\ (Connecting \/ UNCHANGED connVars)
    BY <1>1, <1>4, ConnectingUntouched, StutterUntouched
  <2> QED BY <1>2, <2>1 DEF Untouched
<1>5. CASE CommitRename(i)
  <2>1. Tablet(i)' = Tablet(i) /\ File(i)' = File(i) /\ Tablet(i) \in Tablets
    BY <1>1, <1>5, TabletType DEF CommitRename, Tablet, File, connVars, RunOf, Goto
  <2> QED BY <1>1, <1>5, <2>1, RenameAt
<1>6. CASE Acting(i) /\ ~CommitRename(i)
  <2>1. /\ pc[i] = "returned" \/ state[i] = "done"
        /\ UNCHANGED <<held, attempt, connVars>>
    <3> USE <1>1 DEF Goto, Fail, Ends, TypeOK, QueueInv, runVars, jobVars
    <3>1. CASE Finish(i)
      BY <3>1 DEF Finish
    <3>2. CASE Enqueue(i) \/ CancelTransfer(i) \/ Write(i)
      BY <3>2 DEF Enqueue, CancelTransfer, Write
    <3>3. CASE Pick(i)
      <4>1. state[i] = "queued" /\ pc[i] = "none"
        BY <3>3 DEF Pick
      <4> QED BY <3>3, <4>1 DEF Pick
    <3>4. CASE CheckGen(i) \/ GetClientFails(i) \/ GetClient(i) \/ FallBack(i)
      BY <3>4 DEF CheckGen, GetClientFails, GetClient, FallBack
    <3>5. CASE Uploading(i)
      BY <1>6, <3>5 DEF Uploading, Open, OpenFails, TakeSpares, UploadRead, UploadFails, Abort, CommitStat,
                       CommitFails
    <3> QED BY <1>6, <3>1, <3>2, <3>3, <3>4, <3>5 DEF Acting, Working, Downloading
  <2> QED BY <1>2, <2>1
<1> QED BY <1>3, <1>4, <1>5, <1>6 DEF Next, Acting

LEMMA DestStep ==
  ASSUME OwnPaths
  PROVE  TypeOK /\ QueueInv /\ RunInv /\ WrittenInv /\ TempInv /\ DestInv /\ [Next]_vars => DestInv'
  BY DestWhole, DestReturned DEF DestInv, DestOf

-----------------------------------------------------------------------------
(* The theorems                                                             *)

LEMMA TransfersInit == Init => TransfersInv
<1> SUFFICES ASSUME Init PROVE TransfersInv
  OBVIOUS
<1>1. QueueInv
  BY DEF Init, QueueInv
<1>2. \A j \in Jobs : Before(j) /\ pc[j] = "none" /\ state[j] = "new" /\ held[j] = 0
  BY DEF Init, Before
<1>3. RunInv
  BY <1>2 DEF Init, RunInv, RunOf
<1>4. ASSUME NEW j \in Jobs PROVE WrittenOf(j)
  <2>1. File(j) \in Files /\ <<j, "split">> \in Files /\ <<j, "plain">> \in Files
    BY FilesIsFile DEF Init, File
  <2>2. written[File(j)] = {} /\ written[<<j, "split">>] = {} /\ written[<<j, "plain">>] = {}
    BY <2>1 DEF Init
  <2>3. 0 \in 0..Chunks /\ {} = 1..0
    BY WholeIsChunks, NoneWritten
  <2> QED BY <1>2, <2>2, <2>3, NoneWritten DEF Init, WrittenOf
<1>5. ASSUME NEW j \in Uploads PROVE TempOf(j)
  <2>1. j \in Jobs /\ Path[j] \in Paths
    BY PathsIsPath DEF Jobs
  <2>2. \A t \in Tablets : temp[t][Path[j]] = None
    BY <2>1 DEF Init
  <2>3. state[j] \notin Ended
    BY <1>2, <2>1 DEF Ended
  <2> QED BY <1>2, <2>1, <2>2, <2>3 DEF TempOf
<1>6. ASSUME NEW j \in Uploads PROVE DestOf(j)
  <2>1. j \in Jobs /\ Path[j] \in Paths
    BY PathsIsPath DEF Jobs
  <2>2. \A t \in Tablets : dest[t][Path[j]] = None
    BY <2>1 DEF Init
  <2> QED BY <1>2, <2>1, <2>2 DEF DestOf
<1>7. LocalInv
  BY <1>2 DEF Init, LocalInv, LocalOf, Jobs
<1> QED BY <1>1, <1>3, <1>4, <1>5, <1>6, <1>7 DEF TransfersInv, WrittenInv, TempInv, DestInv

LEMMA TransfersStep == ASSUME OwnPaths PROVE TypeOK /\ TransfersInv /\ [Next]_vars => TransfersInv'
  BY QueueStep, RunStep, WrittenStep, TempStep, DestStep, LocalStep DEF TransfersInv

(* The invariant of the transfers, for uploads to paths of their own.       *)
THEOREM TransfersCorrect == ASSUME OwnPaths PROVE Spec => [](TypeOK /\ TransfersInv)
  BY InitType, TypeStep, TransfersInit, TransfersStep, PTL DEF Spec

(* A transfer that the panel calls done is complete where it went, and its  *)
(* bytes were counted once (worker, uploadFile, writeRemoteFile).           *)
THEOREM DoneMeansWhole == ASSUME OwnPaths PROVE Spec => []DoneIsWhole
<1>1. TypeOK /\ TransfersInv => DoneIsWhole
  <2> SUFFICES ASSUME TransfersInv, NEW j \in Jobs, state[j] = "done"
               PROVE  /\ bytes[j] = Chunks /\ written[File(j)] = 1..Chunks
                      /\ IF j \in Uploads THEN dest[Tablet(j)][Path[j]] = File(j) ELSE j \in local
    BY DEF DoneIsWhole
  <2>1. written[File(j)] = 1..Chunks /\ bytes[j] = Cardinality(written[File(j)])
    BY DEF TransfersInv, WrittenInv, WrittenOf
  <2>2. bytes[j] = Chunks
    BY <2>1, WholeIsChunks
  <2>3. IF j \in Uploads THEN dest[Tablet(j)][Path[j]] = File(j) ELSE j \in local
    BY DEF TransfersInv, DestInv, DestOf, LocalInv, LocalOf, Jobs
  <2> QED BY <2>1, <2>2, <2>3
<1> QED BY <1>1, TransfersCorrect, PTL

(* A job that ended over a client that still lives left no temporary file,  *)
(* and a download that failed no part of a file (Abort, Commit,             *)
(* writeRemoteFile).                                                        *)
THEOREM NothingIsLeft == ASSUME OwnPaths PROVE Spec => []NothingLeft
<1>1. TypeOK /\ TransfersInv => NothingLeft
  BY TransfersAssumption DEF NothingLeft, TransfersInv, TempInv, TempOf, LocalInv, LocalOf, TypeOK, Jobs
<1> QED BY <1>1, TransfersCorrect, PTL

(* What Commit says: "a short write is not published under the destination  *)
(* name", of uploads to paths of their own (remoteFileWriter).              *)
THEOREM NoShortFile == ASSUME OwnPaths PROVE Spec => []NothingShortPublished
<1>1. TransfersInv => NothingShortPublished
  BY DEF TransfersInv, DestInv, DestOf, NothingShortPublished, Paths
<1> QED BY <1>1, TransfersCorrect, PTL

-----------------------------------------------------------------------------
(* The spare channels                                                       *)

LEMMA SparesFinite == IsFiniteSet(Spares) /\ SparesTaken \in Nat
<1>1. IsFiniteSet(Jobs) /\ IsFiniteSet(1..SpareCap)
  BY TransfersAssumption, FS_Interval
<1>2. IsFiniteSet(Jobs \X (1..SpareCap)) /\ Spares \in SUBSET (Jobs \X (1..SpareCap))
  BY <1>1, FS_Product DEF Spares
<1> QED BY <1>2, FS_Subset, FS_CardinalityType DEF SparesTaken

LEMMA SparesShrink ==
  ASSUME \A j \in Jobs : spares'[j] \in Nat /\ spares[j] \in Nat /\ spares'[j] <= spares[j],
         SparesTaken <= SpareBudget
  PROVE  SparesTaken' <= SpareBudget
<1>1. Spares' \subseteq Spares
  BY DEF Spares
<1>2. IsFiniteSet(Spares') /\ Cardinality(Spares') <= Cardinality(Spares)
  BY <1>1, SparesFinite, FS_Subset
<1>3. Cardinality(Spares') \in Nat /\ SpareBudget \in Nat
  BY <1>2, FS_CardinalityType, TransfersAssumption
<1> QED BY <1>2, <1>3, SparesFinite DEF SparesTaken

LEMMA SparesGrow ==
  ASSUME TypeOK, NEW j \in Jobs, NEW k \in 0..SpareCap, spares[j] = 0, spares' = [spares EXCEPT ![j] = k],
         SparesTaken + k <= SpareBudget
  PROVE  SparesTaken' <= SpareBudget
<1> DEFINE more == {j} \X (1..k)
<1>1. IsFiniteSet({j}) /\ Cardinality({j}) = 1
  BY FS_Singleton
<1>2. k \in Nat /\ IsFiniteSet(1..k) /\ Cardinality(1..k) = k
  BY TransfersAssumption, FS_Interval
<1>3. IsFiniteSet(more) /\ Cardinality(more) = 1 * k
  BY <1>1, <1>2, FS_Product
<1>4. Spares' \subseteq Spares \cup more
  <2>1. ASSUME NEW c \in Jobs \X (1..SpareCap), c[2] <= spares'[c[1]] PROVE c \in Spares \cup more
    <3>1. CASE c[1] = j   BY <2>1, <3>1, <1>2 DEF TypeOK
    <3>2. CASE c[1] # j   BY <2>1, <3>2 DEF TypeOK, Spares
    <3> QED BY <3>1, <3>2
  <2> QED BY <2>1 DEF Spares
<1>5. /\ IsFiniteSet(Spares \cup more)
      /\ Cardinality(Spares \cup more) = Cardinality(Spares) + Cardinality(more) - Cardinality(Spares \cap more)
  BY <1>3, SparesFinite, FS_Union
<1>6. Cardinality(Spares \cap more) \in Nat
  BY SparesFinite, FS_Intersection, FS_CardinalityType
<1>7. IsFiniteSet(Spares') /\ Cardinality(Spares') <= Cardinality(Spares \cup more)
  BY <1>4, <1>5, FS_Subset
<1>8. Cardinality(Spares') \in Nat /\ SpareBudget \in Nat
  BY <1>7, FS_CardinalityType, TransfersAssumption
<1> HIDE DEF more
<1> QED BY <1>2, <1>3, <1>5, <1>6, <1>7, <1>8, SparesFinite DEF SparesTaken

LEMMA SparesSame ==
  ASSUME UNCHANGED spares
  PROVE  SparesTaken' = SparesTaken
  BY DEF SparesTaken, Spares

SpareInv == SparesTaken <= SpareBudget

LEMMA SpareStep == TypeOK /\ RunInv /\ SpareInv /\ [Next]_vars => SpareInv'
<1> SUFFICES ASSUME TypeOK, RunInv, SpareInv, [Next]_vars PROVE SpareInv'
  OBVIOUS
<1>1. ASSUME NEW j \in Jobs, TakeSpares(j) PROVE SpareInv'
  <2>1. spares[j] = 0
    <3>1. pc[j] = "spares"
      BY <1>1 DEF TakeSpares, Goto
    <3> QED BY <3>1 DEF RunInv, RunOf
  <2> QED BY <1>1, <2>1, SparesGrow DEF TakeSpares, SpareInv
<1>2. ASSUME NEW j \in Jobs, FallBack(j) \/ Finish(j) PROVE SpareInv'
  <2>1. spares' = [spares EXCEPT ![j] = 0] /\ spares \in [Jobs -> Nat]
    BY <1>2, TransfersAssumption DEF FallBack, Finish, TypeOK
  <2>2. \A i \in Jobs : spares'[i] \in Nat /\ spares[i] \in Nat /\ spares'[i] <= spares[i]
    BY <2>1
  <2> QED BY <2>2, SparesShrink DEF SpareInv
<1>3. CASE UNCHANGED spares
  BY <1>3, SparesSame DEF SpareInv
<1> QED BY <1>1, <1>2, <1>3 DEF Next, Enqueue, CancelTransfer, Working, Pick, CheckGen, GetClient,
     GetClientFails, Uploading, Open, OpenFails, UploadRead, UploadFails, Abort, CommitStat, CommitRename,
     CommitFails, Downloading, Create, DownloadRead, DownloadFails, Write, Connecting, Lose, Reconnect,
     Disconnect, CancelAllTransfers, Connect, vars, runVars

LEMMA SpareInit == Init => SpareInv
<1> SUFFICES ASSUME Init PROVE SpareInv
  OBVIOUS
<1>1. Spares = {}
  BY DEF Init, Spares
<1> QED BY <1>1, FS_EmptySet, TransfersAssumption DEF SpareInv, SparesTaken

(* The spare channels never exceed their budget, and a job that ended holds *)
(* none, whatever paths the uploads go to (tryAcquire, release).            *)
THEOREM SparesAreReturned == Spec => []SparesReturned
<1>1. Init => QueueInv /\ RunInv
  BY TransfersInit DEF TransfersInv
<1>2. TypeOK /\ QueueInv /\ RunInv /\ SpareInv => SparesReturned
  BY DEF SparesReturned, SpareInv, QueueInv, RunInv, RunOf, Ended
<1> QED BY <1>1, <1>2, InitType, TypeStep, QueueStep, RunStep, SpareInit, SpareStep, PTL DEF Spec

-----------------------------------------------------------------------------
(* Transfers implement AtomicReplace                                        *)

(* Whose file stands under each path.                                       *)
StandsWhole ==
  \A t \in Tablets, j \in Uploads : Standing[t][Path[j]] = IF dest[t][Path[j]] = None THEN None ELSE j

LEMMA StandingIs == TypeOK /\ TransfersInv => StandsWhole
<1> SUFFICES ASSUME TypeOK, TransfersInv, NEW t \in Tablets, NEW j \in Uploads
             PROVE  Standing[t][Path[j]] = IF dest[t][Path[j]] = None THEN None ELSE j
  BY DEF StandsWhole
<1>1. /\ dest[t][Path[j]] \in {None, <<j, "split">>, <<j, "plain">>}
      /\ dest[t][Path[j]] # None => written[dest[t][Path[j]]] = 1..Chunks
  BY DEF TransfersInv, DestInv, DestOf
<1> QED BY <1>1, PathsIsPath DEF Standing

(* The function of both kinds of indexes, and what a step makes of it.      *)
LEMMA StandingFunction ==
  ASSUME NEW g,
         \A t \in Tablets, j \in Uploads : Standing'[t][Path[j]] = g[t][Path[j]],
         DOMAIN g = Tablets, \A t \in Tablets : DOMAIN g[t] = Paths,
         g = [t \in Tablets |-> [p \in Paths |-> g[t][p]]]
  PROVE  Standing' = g
<1>1. ASSUME NEW t \in Tablets, NEW p \in Paths PROVE Standing'[t][p] = g[t][p]
  BY DEF Paths
<1>2. Standing' = [t \in Tablets |-> [p \in Paths |-> Standing'[t][p]]]
  BY DEF Standing
<1>3. [t \in Tablets |-> [p \in Paths |-> Standing'[t][p]]] = [t \in Tablets |-> [p \in Paths |-> g[t][p]]]
  BY <1>1
<1> QED BY <1>2, <1>3

LEMMA StandingShape ==
  /\ DOMAIN Standing = Tablets /\ \A t \in Tablets : DOMAIN Standing[t] = Paths
  /\ Standing = [t \in Tablets |-> [p \in Paths |-> Standing[t][p]]]
  BY DEF Standing

LEMMA StandingKept ==
  ASSUME StandsWhole, StandsWhole', UNCHANGED dest
  PROVE  Standing' = Standing
<1>1. \A t \in Tablets, j \in Uploads : Standing'[t][Path[j]] = Standing[t][Path[j]]
  BY DEF StandsWhole
<1> QED BY <1>1, StandingShape, StandingFunction

LEMMA CommitStands ==
  ASSUME OwnPaths, TypeOK, TransfersInv, StandsWhole, StandsWhole', NEW j \in Uploads, CommitRename(j)
  PROVE  Replacing!Commit(j)
<1>1. j \in Jobs /\ RunOf(j) /\ TempOf(j) /\ pc[j] = "rename"
  BY DEF TransfersInv, RunInv, TempInv, CommitRename, Goto, Jobs
<1>2. state[j] = "starting" /\ UNCHANGED state /\ held[j] # 0
  BY <1>1 DEF TransfersInv, QueueInv, RunOf, CommitRename, jobVars
<1>3. Told[j] = "pending" /\ Told' = Told
  BY <1>2 DEF Told, Ended
<1>4. Tablet(j) \in Tablets
  BY <1>1, <1>2, TabletType
<1> DEFINE g == [Standing EXCEPT ![Tablet(j)][Path[j]] = j]
<1>5. \A t \in Tablets, i \in Uploads : Standing'[t][Path[i]] = g[t][Path[i]]
  <2>1. ASSUME NEW t \in Tablets, NEW i \in Uploads PROVE Standing'[t][Path[i]] = g[t][Path[i]]
    <3>1. File(j) # None
      BY <1>1, TransfersAssumption DEF File, TypeOK
    <3>2. dest'[t][Path[i]] = IF i = j /\ t = Tablet(j) THEN File(j) ELSE dest[t][Path[i]]
      BY <1>1, RenameAt
    <3>3. g[t][Path[i]] = IF i = j /\ t = Tablet(j) THEN j ELSE Standing[t][Path[i]]
      BY <1>4, StandingShape, PathsIsPath DEF OwnPaths
    <3> QED BY <3>1, <3>2, <3>3 DEF StandsWhole
  <2> QED BY <2>1
<1>6. /\ DOMAIN g = Tablets /\ \A t \in Tablets : DOMAIN g[t] = Paths
      /\ g = [t \in Tablets |-> [p \in Paths |-> g[t][p]]]
  <2>1. DOMAIN g = Tablets /\ g = [t \in Tablets |-> g[t]]
    BY StandingShape
  <2>2. ASSUME NEW t \in Tablets
        PROVE  DOMAIN g[t] = Paths /\ g[t] = [p \in Paths |-> g[t][p]]
    <3>1. DOMAIN Standing[t] = Paths /\ Standing[t] = [p \in Paths |-> Standing[t][p]]
      BY DEF Standing
    <3>2. CASE t = Tablet(j)   BY <3>1, <3>2, StandingShape
    <3>3. CASE t # Tablet(j)   BY <3>1, <3>3, StandingShape
    <3> QED BY <3>2, <3>3
  <2>3. [t \in Tablets |-> g[t]] = [t \in Tablets |-> [p \in Paths |-> g[t][p]]]
    BY <2>2
  <2> HIDE DEF g
  <2> QED BY <2>1, <2>2, <2>3
<1>7. Standing' = g
  BY <1>5, <1>6, StandingFunction
<1> QED BY <1>3, <1>4, <1>7 DEF Replacing!Commit

LEMMA EndTold ==
  ASSUME TypeOK, TransfersInv, StandsWhole, StandsWhole', NEW j \in Uploads,
         Finish(j) \/ (Pick(j) /\ j \in canceled)
  PROVE  Replacing!End(j)
<1>1. j \in Jobs
  BY DEF Jobs
<1>2. Standing' = Standing
  BY StandingKept DEF Finish, Pick, fileVars
<1>3. PICK outcome \in Ended : state' = [state EXCEPT ![j] = outcome] /\ (outcome = "done" => pc[j] = "returned")
  BY DEF Finish, Ends, Pick, Goto, Ended
<1>4. state[j] \in {"queued", "starting"}
  <2>1. CASE Finish(j)
    BY <1>1, <2>1 DEF Finish, Goto, TransfersInv, QueueInv
  <2>2. CASE Pick(j)
    BY <2>2 DEF Pick, TypeOK, TransfersInv, QueueInv
  <2> QED BY <2>1, <2>2
<1>5. Told[j] = "pending"
  BY <1>4 DEF Told, Ended
<1>6. Told' = [Told EXCEPT ![j] = outcome]
  <2>1. \A i \in Uploads : state'[i] = IF i = j THEN outcome ELSE state[i]
    BY <1>1, <1>3 DEF TypeOK, Jobs
  <2>2. Told' = [i \in Uploads |-> IF state'[i] \in Ended THEN state'[i] ELSE "pending"]
    BY DEF Told
  <2>3. Told' = [i \in Uploads |-> IF i = j THEN outcome ELSE IF state[i] \in Ended THEN state[i] ELSE "pending"]
    BY <1>3, <2>1, <2>2
  <2> QED BY <2>3 DEF Told
<1>7. outcome = "done" => \E t \in Tablets : Standing[t][Path[j]] = j
  <2>1. SUFFICES ASSUME pc[j] = "returned" PROVE \E t \in Tablets : Standing[t][Path[j]] = j
    BY <1>3
  <2>2. RunOf(j) /\ DestOf(j)
    BY <1>1 DEF TransfersInv, RunInv, DestInv
  <2>3. Tablet(j) \in Tablets /\ dest[Tablet(j)][Path[j]] = File(j)
    BY <1>1, <2>1, <2>2, TabletType DEF RunOf, DestOf
  <2>4. File(j) # None
    BY <1>1, TransfersAssumption DEF File, TypeOK
  <2> QED BY <2>3, <2>4 DEF StandsWhole
<1> QED BY <1>2, <1>3, <1>5, <1>6, <1>7 DEF Replacing!End, Replacing!Outcomes, Ended

(* Every other step is a stutter of AtomicReplace.                          *)
LEMMA ToldKept ==
  ASSUME TypeOK, QueueInv, [Next]_vars,
         \A j \in Uploads : ~Finish(j) /\ ~(Pick(j) /\ j \in canceled)
  PROVE  Told' = Told
<1> SUFFICES ASSUME NEW i \in Uploads
             PROVE  (IF state[i] \in Ended THEN state[i] ELSE "pending")' =
                    (IF state[i] \in Ended THEN state[i] ELSE "pending")
  BY DEF Told
<1>1. i \in Jobs
  BY DEF Jobs
<1>2. ASSUME NEW j \in Jobs, Acting(j), i # j PROVE state'[i] = state[i]
  BY <1>1, <1>2, OthersUntouched DEF Untouched
<1>3. CASE Connecting \/ UNCHANGED vars
  BY <1>1, <1>3, ConnectingUntouched, StutterUntouched DEF Untouched
<1>4. CASE Enqueue(i)
  BY <1>1, <1>4 DEF Enqueue, TypeOK, Ended
<1>5. CASE Pick(i)
  <2>1. state[i] = "queued" /\ state'[i] = "starting"
    BY <1>1, <1>5 DEF Pick, TypeOK, QueueInv
  <2> QED BY <2>1 DEF Ended
<1>6. CASE Acting(i) /\ ~Enqueue(i) /\ ~Pick(i)
  <2>1. UNCHANGED state
    BY <1>6 DEF Acting, CancelTransfer, Working, CheckGen, GetClient, GetClientFails, Uploading, Open, OpenFails,
       TakeSpares, UploadRead, UploadFails, Abort, CommitStat, CommitRename, CommitFails, Downloading, Create,
       DownloadRead, DownloadFails, Write, FallBack, jobVars
  <2> QED BY <2>1
<1> QED BY <1>2, <1>3, <1>4, <1>5, <1>6 DEF Next, Acting

LEMMA ReplacingStep ==
  ASSUME OwnPaths
  PROVE  /\ TypeOK /\ TransfersInv /\ StandsWhole /\ StandsWhole' /\ [Next]_vars
         => [Replacing!Next]_(Replacing!replaceVars)
<1> SUFFICES ASSUME TypeOK, TransfersInv, StandsWhole, StandsWhole', [Next]_vars
             PROVE  [Replacing!Next]_(Replacing!replaceVars)
  OBVIOUS
<1>1. ASSUME NEW j \in Uploads, CommitRename(j) PROVE Replacing!Next
  BY <1>1, CommitStands DEF Replacing!Next
<1>2. ASSUME NEW j \in Uploads, Finish(j) \/ (Pick(j) /\ j \in canceled) PROVE Replacing!Next
  BY <1>2, EndTold DEF Replacing!Next
<1>3. CASE \A j \in Uploads : ~CommitRename(j) /\ ~Finish(j) /\ ~(Pick(j) /\ j \in canceled)
  <2>1. Standing' = Standing
    BY <1>3, DestKept, StandingKept
  <2>2. Told' = Told
    BY <1>3, ToldKept DEF TransfersInv
  <2> QED BY <2>1, <2>2 DEF Replacing!replaceVars
<1> QED BY <1>1, <1>2, <1>3

LEMMA ReplacingInit == Init => Replacing!Init
<1> SUFFICES ASSUME Init PROVE Replacing!Init
  OBVIOUS
<1>1. Standing = [t \in Tablets |-> [p \in Paths |-> None]]
  BY DEF Init, Standing
<1>2. Told = [j \in Uploads |-> "pending"]
  BY DEF Init, Told, Ended, Jobs
<1> QED BY <1>1, <1>2 DEF Replacing!Init, Replacing!Paths, Paths

(* Temporary names, chunks, split and plain attempts, lost answers and      *)
(* connections that come and go implement the atomic replacement of a file, *)
(* for uploads to paths of their own (remoteFileWriter, Commit, worker).    *)
THEOREM ReplacesFilesAtOnce == ASSUME OwnPaths PROVE Spec => ReplacesAtOnce
<1>1. Init => Replacing!Init
  BY ReplacingInit
<1>2. Spec => []StandsWhole
  BY TransfersCorrect, StandingIs, PTL
<1>3. /\ TypeOK /\ TransfersInv /\ StandsWhole /\ StandsWhole' /\ [Next]_vars
      => [Replacing!Next]_(Replacing!replaceVars)
  BY ReplacingStep
<1> QED BY <1>1, <1>2, <1>3, TransfersCorrect, PTL DEF Spec, ReplacesAtOnce, Replacing!Spec
=============================================================================
