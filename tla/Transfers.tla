----------------------------- MODULE Transfers ------------------------------
(***************************************************************************)
(* File transfers: the queue, its workers and the spare SSH channels       *)
(* (filesservice_transfer.go), and the replacement of a file on the tablet *)
(* (remoteFileWriter in filesservice.go).                                  *)
(*                                                                         *)
(* A file is a number of chunks.  An upload of a large file writes ranges  *)
(* of it over several channels and falls back to one; a download is        *)
(* written to its local file in order; the file on the tablet does not     *)
(* change meanwhile.  Left out: folders, symbolic links, rates and         *)
(* percentages, the list of ended jobs, staging on mobile, and the remount *)
(* of a read-only root.                                                    *)
(***************************************************************************)
EXTENDS Naturals, Sequences, FiniteSets, FiniteSetsExt

CONSTANTS
  Uploads,      (* upload jobs                                               *)
  Downloads,    (* download jobs                                             *)
  Large,        (* uploads of splitThresholdBytes and more                   *)
  Path,         (* the remote path of each upload                            *)
  Chunks,       (* chunks of every file                                      *)
  Workers,      (* transferWorkerCount                                       *)
  SpareBudget,  (* spareChannelBudget                                        *)
  SpareCap,     (* perTransferSpareCap                                       *)
  Tablets,
  MaxLinks,     (* bound on the clients that are ever connected              *)
  None

Jobs  == Uploads \cup Downloads
Paths == {Path[j] : j \in Uploads}

ASSUME TransfersAssumption ==
  /\ Uploads \cap Downloads = {}
  /\ IsFiniteSet(Jobs)
  /\ Large \subseteq Uploads
  /\ Chunks \in Nat \ {0}
  /\ Workers \in Nat \ {0}
  /\ SpareBudget \in Nat /\ SpareCap \in Nat
  /\ MaxLinks \in Nat \ {0}
  /\ None \notin Jobs \X {"split", "plain"}

VARIABLES
  session,    (* up, lost (and being reconnected) or off                     *)
  connGen,    (* connGen                                                     *)
  sweeping,   (* a Disconnect has yet to cancel the transfers                *)
  links,      (* the tablets of the clients that were connected, in order    *)
  queue,      (* m.queue                                                     *)
  state,      (* job.state; "new" before it is in the queue, and "starting"  *)
              (* for as long as it runs                                      *)
  queuedOn,   (* job.connGen                                                 *)
  canceled,   (* jobs whose context is canceled                              *)
  pc,         (* where the worker that runs each job is                      *)
  held,       (* the client each job runs over                               *)
  attempt,    (* how each upload is being written                            *)
  spares,     (* spare channels each job holds                               *)
  bytes,      (* job.bytesDone, in chunks                                    *)
  written,    (* chunks in the file that each attempt created                *)
  temp, dest, (* per tablet and path: the file under the temporary name, and *)
              (* the one under the destination name; None is what was there  *)
  local       (* downloads whose local file exists                           *)

connVars == <<session, connGen, sweeping, links>>
jobVars  == <<state, queuedOn, canceled>>
runVars  == <<pc, held, attempt, spares, bytes>>
fileVars == <<written, temp, dest, local>>
vars     == <<connVars, queue, jobVars, runVars, fileVars>>

Files  == Jobs \X {"split", "plain"}
Active == {"queued", "starting"}
Ended  == {"done", "failed", "canceled"}
Pc     == {"none", "check", "client", "open", "spares", "write", "stat", "rename", "abort",
           "returned", "failed"}

Running == {j \in Jobs : pc[j] # "none"}

(* The spare channels that are taken, those of each job numbered.           *)
Spares == {c \in Jobs \X (1..SpareCap) : c[2] <= spares[c[1]]}

SparesTaken == Cardinality(Spares)

TypeOK ==
  /\ session \in {"up", "lost", "off"}
  /\ connGen \in Nat
  /\ sweeping \in BOOLEAN
  /\ links \in Seq(Tablets) /\ Len(links) \in 1..MaxLinks
  /\ queue \in Seq(Jobs)
  /\ state \in [Jobs -> {"new"} \cup Active \cup Ended]
  /\ queuedOn \in [Jobs -> Nat]
  /\ canceled \subseteq Jobs
  /\ pc \in [Jobs -> Pc]
  /\ held \in [Jobs -> 0..Len(links)]
  /\ attempt \in [Jobs -> {"split", "plain"}]
  /\ spares \in [Jobs -> 0..SpareCap]
  /\ bytes \in [Jobs -> Nat]
  /\ written \in [Files -> SUBSET (1..Chunks)]
  /\ temp \in [Tablets -> [Paths -> Files \cup {None}]]
  /\ dest \in [Tablets -> [Paths -> Files \cup {None}]]
  /\ local \subseteq Downloads
  /\ Cardinality(Running) <= Workers

Init ==
  /\ session = "up" /\ connGen = 1 /\ sweeping = FALSE
  /\ \E t \in Tablets : links = <<t>>
  /\ queue = <<>>
  /\ state = [j \in Jobs |-> "new"] /\ queuedOn = [j \in Jobs |-> 0] /\ canceled = {}
  /\ pc = [j \in Jobs |-> "none"] /\ held = [j \in Jobs |-> 0]
  /\ attempt = [j \in Jobs |-> "plain"]
  /\ spares = [j \in Jobs |-> 0] /\ bytes = [j \in Jobs |-> 0]
  /\ written = [f \in Files |-> {}]
  /\ temp = [t \in Tablets |-> [p \in Paths |-> None]]
  /\ dest = temp
  /\ local = {}

-----------------------------------------------------------------------------
(* The page's calls                                                         *)

(* getClient() *)
Client == IF session = "up" THEN Len(links) ELSE 0

(* A transfer is asked for with a connection, but a dialog may have stayed  *)
(* open for any time since.                                                 *)
Enqueue(j) ==
  /\ state[j] = "new"
  /\ state' = [state EXCEPT ![j] = "queued"]
  /\ queuedOn' = [queuedOn EXCEPT ![j] = connGen]
  /\ queue' = Append(queue, j)
  /\ UNCHANGED <<connVars, canceled, runVars, fileVars>>

(* Nothing looks at the context of a job that ended. *)
CancelTransfer(j) ==
  /\ state[j] \in Active
  /\ canceled' = canceled \cup {j}
  /\ UNCHANGED <<connVars, queue, state, queuedOn, runVars, fileVars>>

-----------------------------------------------------------------------------
(* A worker: from the queue to the client it runs over                      *)

Goto(j, from, to) == pc[j] = from /\ pc' = [pc EXCEPT ![j] = to]

Fail(j, from) == Goto(j, from, "failed")

(* Mutant: as many workers as there are jobs. *)
PickUnbounded(j) ==
  /\ queue # <<>> /\ j = Head(queue)
  /\ queue' = Tail(queue)
  /\ IF j \in canceled
     THEN state' = [state EXCEPT ![j] = "canceled"] /\ UNCHANGED pc
     ELSE state' = [state EXCEPT ![j] = "starting"] /\ Goto(j, "none", "check")
  /\ UNCHANGED <<connVars, queuedOn, canceled, held, attempt, spares, bytes, fileVars>>

(* Mutant: a job canceled in the queue is left as it is. *)
PickForgetsCanceled(j) ==
  /\ Cardinality(Running) < Workers
  /\ queue # <<>> /\ j = Head(queue)
  /\ queue' = Tail(queue)
  /\ IF j \in canceled
     THEN UNCHANGED <<state, pc>>
     ELSE state' = [state EXCEPT ![j] = "starting"] /\ Goto(j, "none", "check")
  /\ UNCHANGED <<connVars, queuedOn, canceled, held, attempt, spares, bytes, fileVars>>

Pick(j) ==
  /\ Cardinality(Running) < Workers
  /\ queue # <<>> /\ j = Head(queue)
  /\ queue' = Tail(queue)
  /\ IF j \in canceled
     THEN state' = [state EXCEPT ![j] = "canceled"] /\ UNCHANGED pc
     ELSE state' = [state EXCEPT ![j] = "starting"] /\ Goto(j, "none", "check")
  /\ UNCHANGED <<connVars, queuedOn, canceled, held, attempt, spares, bytes, fileVars>>

CheckGen(j) ==
  /\ IF connGen = queuedOn[j]
     THEN Goto(j, "check", "client")
     ELSE Fail(j, "check")
  /\ UNCHANGED <<connVars, queue, jobVars, held, attempt, spares, bytes, fileVars>>

(* Whether a file is split is decided once the upload has its client. *)
GetClient(j) ==
  /\ Client # 0
  /\ Goto(j, "client", "open")
  /\ held' = [held EXCEPT ![j] = Client]
  /\ attempt' = [attempt EXCEPT ![j] = IF j \in Large THEN "split" ELSE "plain"]
  /\ UNCHANGED <<connVars, queue, jobVars, spares, bytes, fileVars>>

(* No client, or no SFTP session over it. *)
GetClientFails(j) ==
  /\ Fail(j, "client")
  /\ UNCHANGED <<connVars, queue, jobVars, held, attempt, spares, bytes, fileVars>>

-----------------------------------------------------------------------------
(* runUpload of a file, over the client that it holds                       *)

Alive(j)  == Client # 0 /\ Client = held[j]
Tablet(j) == links[held[j]]
File(j)   == <<j, attempt[j]>>
Temp(j)   == temp[Tablet(j)][Path[j]]
SetTemp(j, f) == temp' = [temp EXCEPT ![Tablet(j)][Path[j]] = f]

(* What a failed step does with the temporary name: Remove, which needs the *)
(* client.                                                                  *)
RemoveTemp(j) == IF Alive(j) THEN SetTemp(j, None) ELSE UNCHANGED temp

(* openRemoteFileForReplace *)
Open(j) ==
  /\ Alive(j)
  /\ Goto(j, "open", IF attempt[j] = "split" THEN "spares" ELSE "write")
  /\ SetTemp(j, File(j))
  /\ UNCHANGED <<connVars, queue, jobVars, held, attempt, spares, bytes, written, dest, local>>

(* Before or after the file of an earlier attempt is removed. *)
OpenFails(j) ==
  /\ Fail(j, "open")
  /\ RemoveTemp(j) \/ UNCHANGED temp
  /\ UNCHANGED <<connVars, queue, jobVars, held, attempt, spares, bytes, written, dest, local>>

(* Mutant: the budget is not looked at. *)
TakeSparesUnbounded(j) ==
  /\ \E k \in 0..SpareCap :
       /\ Goto(j, "spares", IF k = 0 THEN "abort" ELSE "write")
       /\ spares' = [spares EXCEPT ![j] = k]
  /\ UNCHANGED <<connVars, queue, jobVars, held, attempt, bytes, fileVars>>

(* tryAcquire for each channel, until the budget is spent or an SFTP        *)
(* session does not open.  Without one the file is not split.               *)
TakeSpares(j) ==
  /\ \E k \in 0..SpareCap :
       /\ SparesTaken + k <= SpareBudget
       /\ Goto(j, "spares", IF k = 0 THEN "abort" ELSE "write")
       /\ spares' = [spares EXCEPT ![j] = k]
  /\ UNCHANGED <<connVars, queue, jobVars, held, attempt, bytes, fileVars>>

(* A chunk is written: the next one, or the next of any range. *)
Write(j) ==
  /\ pc[j] = "write" /\ j \notin canceled /\ Alive(j)
  /\ \E c \in 1..Chunks \ written[File(j)] :
       /\ attempt[j] = "plain" => c = Cardinality(written[File(j)]) + 1
       /\ written' = [written EXCEPT ![File(j)] = @ \cup {c}]
  /\ bytes' = [bytes EXCEPT ![j] = @ + 1]
  /\ UNCHANGED <<connVars, queue, jobVars, pc, held, attempt, spares, temp, dest, local>>

(* The local file ends, perhaps earlier than it did when the upload began,  *)
(* which a range reports as an error and a plain upload does not.           *)
UploadRead(j) ==
  /\ attempt[j] = "split" => written[File(j)] = 1..Chunks
  /\ Goto(j, "write", "stat")
  /\ UNCHANGED <<connVars, queue, jobVars, held, attempt, spares, bytes, fileVars>>

(* Canceled, or an error of either file. *)
UploadFails(j) ==
  /\ Goto(j, "write", "abort")
  /\ UNCHANGED <<connVars, queue, jobVars, held, attempt, spares, bytes, fileVars>>

(* Mutant: the temporary file of a failed attempt stays. *)
AbortKeepsTemp(j) ==
  /\ Fail(j, "abort")
  /\ UNCHANGED <<connVars, queue, jobVars, held, attempt, spares, bytes, written, temp, dest, local>>

Abort(j) ==
  /\ Fail(j, "abort")
  /\ RemoveTemp(j)
  /\ UNCHANGED <<connVars, queue, jobVars, held, attempt, spares, bytes, written, dest, local>>

Size(f) == IF f = None THEN 0 ELSE Max(written[f] \cup {0})

(* Mutant: the size is not verified. *)
CommitStatUnverified(j) ==
  /\ Alive(j)
  /\ Goto(j, "stat", "rename")
  /\ UNCHANGED <<connVars, queue, jobVars, held, attempt, spares, bytes, fileVars>>

(* Commit: what has the temporary name by now is verified, then renamed. *)
CommitStat(j) ==
  /\ Alive(j) /\ Size(Temp(j)) = Chunks
  /\ Goto(j, "stat", "rename")
  /\ UNCHANGED <<connVars, queue, jobVars, held, attempt, spares, bytes, fileVars>>

(* The tablet renames the file, and its answer may be lost. *)
CommitRename(j) ==
  /\ Alive(j) /\ Temp(j) # None
  /\ \E to \in {"returned", "failed"} : Goto(j, "rename", to)
  /\ dest' = [dest EXCEPT ![Tablet(j)][Path[j]] = Temp(j)]
  /\ SetTemp(j, None)
  /\ UNCHANGED <<connVars, queue, jobVars, held, attempt, spares, bytes, written, local>>

CommitFails(j) ==
  /\ \E from \in {"stat", "rename"} : Fail(j, from)
  /\ RemoveTemp(j)
  /\ UNCHANGED <<connVars, queue, jobVars, held, attempt, spares, bytes, written, dest, local>>

Uploading(j) ==
  /\ j \in Uploads
  /\ \/ Open(j) \/ OpenFails(j) \/ TakeSpares(j) \/ UploadRead(j) \/ UploadFails(j)
     \/ Abort(j) \/ CommitStat(j) \/ CommitRename(j) \/ CommitFails(j)

-----------------------------------------------------------------------------
(* runDownload of a file: writeRemoteFile                                   *)

Create(j) ==
  /\ Alive(j)
  /\ Goto(j, "open", "write")
  /\ local' = local \cup {j}
  /\ UNCHANGED <<connVars, queue, jobVars, held, attempt, spares, bytes, written, temp, dest>>

DownloadRead(j) ==
  /\ written[File(j)] = 1..Chunks
  /\ Goto(j, "write", "returned")
  /\ UNCHANGED <<connVars, queue, jobVars, held, attempt, spares, bytes, fileVars>>

DownloadFails(j) ==
  /\ \E from \in {"open", "write"} : Fail(j, from)
  /\ local' = local \ {j}
  /\ UNCHANGED <<connVars, queue, jobVars, held, attempt, spares, bytes, written, temp, dest>>

Downloading(j) == j \in Downloads /\ (Create(j) \/ DownloadRead(j) \/ DownloadFails(j))

-----------------------------------------------------------------------------
(* The end of an attempt, and of a job                                      *)

Ends(j, outcome) ==
  state' = [state EXCEPT ![j] = IF j \in canceled THEN "canceled" ELSE outcome]

(* Mutant: the spare channels are not given back. *)
FinishKeepsSpares(j) ==
  /\ \/ Goto(j, "returned", "none") /\ Ends(j, "done")
     \/ /\ Goto(j, "failed", "none") /\ Ends(j, "failed")
        /\ attempt[j] = "split" => j \in canceled
  /\ UNCHANGED <<connVars, queue, queuedOn, canceled, held, attempt, spares, bytes, fileVars>>

(* Mutant: an attempt that failed ends its job as done. *)
FinishAlwaysDone(j) ==
  /\ \/ Goto(j, "returned", "none") /\ Ends(j, "done")
     \/ /\ Goto(j, "failed", "none") /\ Ends(j, "done")
        /\ attempt[j] = "split" => j \in canceled
  /\ spares' = [spares EXCEPT ![j] = 0]
  /\ UNCHANGED <<connVars, queue, queuedOn, canceled, held, attempt, bytes, fileVars>>

(* What the job holds is given back and its state is set. *)
Finish(j) ==
  /\ \/ Goto(j, "returned", "none") /\ Ends(j, "done")
     \/ /\ Goto(j, "failed", "none") /\ Ends(j, "failed")
        /\ attempt[j] = "split" => j \in canceled
  /\ spares' = [spares EXCEPT ![j] = 0]
  /\ UNCHANGED <<connVars, queue, queuedOn, canceled, held, attempt, bytes, fileVars>>

(* Mutant: the bytes of the failed attempt still count. *)
FallBackKeepsBytes(j) ==
  /\ attempt[j] = "split" /\ j \notin canceled
  /\ Goto(j, "failed", "open")
  /\ attempt' = [attempt EXCEPT ![j] = "plain"]
  /\ spares' = [spares EXCEPT ![j] = 0]
  /\ UNCHANGED <<connVars, queue, jobVars, held, bytes, fileVars>>

(* A split upload that failed starts over on one channel (uploadFile). *)
FallBack(j) ==
  /\ attempt[j] = "split" /\ j \notin canceled
  /\ Goto(j, "failed", "open")
  /\ attempt' = [attempt EXCEPT ![j] = "plain"]
  /\ spares' = [spares EXCEPT ![j] = 0]
  /\ bytes' = [bytes EXCEPT ![j] = 0]
  /\ UNCHANGED <<connVars, queue, jobVars, held, fileVars>>

Working(j) ==
  \/ Pick(j) \/ CheckGen(j) \/ GetClient(j) \/ GetClientFails(j)
  \/ Uploading(j) \/ Write(j) \/ Downloading(j) \/ FallBack(j) \/ Finish(j)

-----------------------------------------------------------------------------
(* The connection (Connection.tla)                                          *)

Lose ==
  /\ session = "up"
  /\ session' = "lost"
  /\ UNCHANGED <<connGen, sweeping, links, queue, jobVars, runVars, fileVars>>

(* An automatic reconnect keeps the generation. *)
Reconnect ==
  /\ session = "lost" /\ Len(links) < MaxLinks
  /\ session' = "up"
  /\ links' = Append(links, links[Len(links)])
  /\ UNCHANGED <<connGen, sweeping, queue, jobVars, runVars, fileVars>>

Disconnect ==
  /\ session # "off"
  /\ session' = "off"
  /\ connGen' = connGen + 1
  /\ sweeping' = TRUE
  /\ UNCHANGED <<links, queue, jobVars, runVars, fileVars>>

(* Disconnect goes on to cancel every transfer, those of a newer connection *)
(* included.                                                                *)
CancelAllTransfers ==
  /\ sweeping
  /\ sweeping' = FALSE
  /\ canceled' = canceled \cup {j \in Jobs : state[j] \in Active}
  /\ UNCHANGED <<session, connGen, links, queue, state, queuedOn, runVars, fileVars>>

Connect(t) ==
  /\ session = "off" /\ Len(links) < MaxLinks
  /\ session' = "up"
  /\ connGen' = connGen + 1
  /\ links' = Append(links, t)
  /\ UNCHANGED <<sweeping, queue, jobVars, runVars, fileVars>>

Connecting ==
  \/ Lose \/ Reconnect \/ Disconnect \/ CancelAllTransfers \/ \E t \in Tablets : Connect(t)

-----------------------------------------------------------------------------

Next ==
  \/ \E j \in Jobs : Enqueue(j) \/ CancelTransfer(j) \/ Working(j)
  \/ Connecting

(* Workers run, and every call on a client ends, if only with an error. *)
Fairness == \A j \in Jobs : WF_vars(Working(j))

Spec == Init /\ [][Next]_vars /\ Fairness

-----------------------------------------------------------------------------
(* Properties                                                               *)

(* What Commit says: "a short write is not published under the destination  *)
(* name".  True of uploads to paths of their own, whatever is canceled,     *)
(* lost or falls back; two at a time to one path break it.                  *)
NothingShortPublished ==
  \A t \in Tablets, p \in Paths : dest[t][p] # None => written[dest[t][p]] = 1..Chunks

(* A transfer that the panel calls done is complete where it went, and its  *)
(* bytes were counted once (worker, uploadFile, writeRemoteFile).           *)
DoneIsWhole ==
  \A j \in Jobs :
    state[j] = "done" =>
      /\ bytes[j] = Chunks /\ written[File(j)] = 1..Chunks
      /\ IF j \in Uploads THEN dest[Tablet(j)][Path[j]] = File(j) ELSE j \in local

(* A job that ended over a client that still lives left no temporary file,  *)
(* and a download that failed no part of a file (Abort, Commit,             *)
(* writeRemoteFile).                                                        *)
NothingLeft ==
  \A j \in Jobs :
    /\ state[j] \in Ended /\ j \in Uploads /\ Alive(j) => Temp(j) = None
    /\ state[j] = "failed" => j \notin local

(* Temporary names, chunks, split and plain attempts, lost answers and       *)
(* connections come to what AtomicReplace promises: a path changes in one    *)
(* step from one whole file to another, never after the upload's end was     *)
(* told, and done means that it did (remoteFileWriter, Commit, worker).      *)
Standing ==
  [t \in Tablets |-> [p \in Paths |->
     IF dest[t][p] = None THEN None
     ELSE IF written[dest[t][p]] = 1..Chunks THEN dest[t][p][1] ELSE dest[t][p]]]
Told == [j \in Uploads |-> IF state[j] \in Ended THEN state[j] ELSE "pending"]
Replacing == INSTANCE AtomicReplace WITH standing <- Standing, told <- Told
ReplacesAtOnce == Replacing!Spec

(* The spare channels never exceed their budget, and a job that ended holds *)
(* none (tryAcquire, release).                                              *)
SparesReturned ==
  /\ SparesTaken <= SpareBudget
  /\ \A j \in Jobs : state[j] \in Ended => spares[j] = 0

(* Every transfer that is queued ends, canceled in the queue or not, with   *)
(* its connection or without.                                               *)
EveryJobEnds == \A j \in Jobs : state[j] = "queued" ~> state[j] \in Ended
=============================================================================
