------------------------------ MODULE Import ------------------------------
(***************************************************************************)
(* The importer (internal/cull/importer.go): one run at a time takes the   *)
(* files of the kept shots, lands each in the destination or, in upload-   *)
(* only mode, in a fixed staging directory, hands it to the Streamer, and  *)
(* marks the shots as imported when everything arrived, so that the next   *)
(* run carries only what is new.  A run that failed or was killed leaves   *)
(* its copies for the next one.                                            *)
(*                                                                         *)
(* run() is one goroutine; what it does between two calls of Add, and the  *)
(* fetch of one chunk, is one step.  Which shots are kept, and which files *)
(* the prefetcher has in its cache, is looked up in passing and can be     *)
(* anything.  Lists of files are sets: the catalog's order does not matter *)
(* here, but it is fixed (NextOf).  A file counts as present when it is    *)
(* complete: copies are written aside and renamed.  The prefetcher's pause *)
(* count and the status shown to clients (all but Running) are left out.   *)
(***************************************************************************)
EXTENDS Streamer

CONSTANTS
    ShotOf,       (* ShotOf[f]: the shot a file belongs to *)
    ChunkCount,   (* importChunk *)
    ChunkBytes,   (* importChunkBytes *)
    Rounds,       (* attempts at the camera *)
    MaxStarts     (* bound: calls of Start *)

ASSUME CatalogAssumption == DOMAIN ShotOf = Files
ASSUME ChunkAssumption == {ChunkCount, ChunkBytes, Rounds, MaxStarts} \subseteq Nat \ {0}

VARIABLES
    pc,        (* where run() is: "idle", "open", "scan", "pull", "wait" *)
    running,   (* status.Running *)
    starts,    (* calls of Start so far *)
    requests,  (* calls of Start that have read the keepers and not yet
                  looked at running *)
    keepers,   (* the files of the run *)
    todo,      (* files the first loop of copyPhase has still to look at *)
    pending,   (* files this round has still to fetch *)
    landed,    (* fetched files of the chunk, not yet handed on *)
    failed,    (* files the next round has to fetch *)
    round,     (* rounds begun *)
    copyErr,   (* copyPhase returned an error *)
    marking,   (* successful runs that have still to call MarkImported *)
    imported,  (* shots marked as imported *)
    uploaded   (* history: shots marked by a run that uploads *)

copyVars == <<keepers, todo, pending, landed, failed, round, copyErr>>
markVars == <<marking, imported, uploaded>>
vars == <<streamVars, world, pc, running, starts, requests, copyVars, markVars>>

Shots == {ShotOf[f] : f \in Files}
FilesOf(shots) == {f \in Files : ShotOf[f] \in shots}

-----------------------------------------------------------------------------

(* What run() and its Streamer hold when there is no run. *)
NoRun ==
    /\ StreamOff
    /\ pc = "idle" /\ running = FALSE
    /\ keepers = {} /\ todo = {} /\ pending = {} /\ landed = {} /\ failed = {}
    /\ round = 0 /\ copyErr = FALSE

RunIsGone ==
    /\ StreamerIsGone
    /\ pc' = "idle" /\ running' = FALSE
    /\ keepers' = {} /\ todo' = {} /\ pending' = {} /\ landed' = {} /\ failed' = {}
    /\ round' = 0 /\ copyErr' = FALSE

Init ==
    /\ NoRun
    /\ disk = [d \in Dirs |-> {}] /\ immich = {}
    /\ starts = 0 /\ requests = {}
    /\ marking = {} /\ imported = {} /\ uploaded = {}

(* keeperFiles for the shots kept at this moment. *)
KeeperFiles(kept, again) == FilesOf(IF again THEN kept ELSE kept \ imported)

(* Start, up to the lock: what it will import is settled there.  Its
   options are named where they are first used, in Begin. *)
Ask ==
    /\ starts < MaxStarts
    /\ starts' = starts + 1
    /\ \E kept \in SUBSET Shots, again \in BOOLEAN :
          /\ KeeperFiles(kept, again) # {}
          /\ requests' = requests \cup {[call |-> starts', files |-> KeeperFiles(kept, again)]}
    /\ UNCHANGED <<streamVars, world, pc, running, copyVars, markVars>>

(* Start, under the lock: refused while a run is under way. *)
Begin ==
    \E q \in requests, m \in Modes :
       /\ requests' = requests \ {q}
       /\ IF running
          THEN UNCHANGED <<mode, pc, running, copyVars>>
          ELSE /\ running' = TRUE
               /\ pc' = "open"
               /\ mode' = m
               /\ keepers' = q.files
               /\ todo' = q.files
               /\ pending' = {} /\ landed' = {} /\ failed' = {}
               /\ round' = 0
               /\ copyErr' = FALSE
       /\ UNCHANGED <<stream, at, slots, outBytes, noted, tries, accepted, world, starts, markVars>>

(* run, up to the copy: the staging directory is made and the album is
   looked up; if that fails there is no Streamer to wait for. *)
Open ==
    /\ pc = "open"
    /\ \/ /\ NewStreamer(mode)
          /\ pc' = "scan"
          /\ UNCHANGED <<running, copyVars>>
       \/ /\ "open" \in Faults
          /\ RunIsGone
    /\ UNCHANGED <<world, starts, requests, markVars>>

Land(f) == disk' = [disk EXCEPT ![Dir] = @ \cup {f}]

NextOf(files) == CHOOSE f \in files : TRUE

(* The first loop: what is present is handed on, what the prefetcher has is
   copied and handed on, the rest is left for the camera. *)
Scan ==
    /\ pc = "scan" /\ todo # {} /\ Adding = {}
    /\ LET f == NextOf(todo) IN
          /\ todo' = todo \ {f}
          /\ \/ /\ f \in disk[Dir]
                /\ Add(f)
                /\ UNCHANGED <<disk, pending>>
             \/ /\ f \notin disk[Dir]
                /\ Land(f)
                /\ Add(f)
                /\ UNCHANGED pending
             \/ /\ f \notin disk[Dir]
                /\ pending' = pending \cup {f}
                /\ UNCHANGED <<streamVars, disk>>
    /\ UNCHANGED <<immich, pc, running, starts, requests, keepers, landed, failed, round, copyErr,
                   markVars>>

(* copyPhase returns, and run turns to Wait. *)
CopyReturns ==
    /\ CloseJobs
    /\ pc' = "wait"
    /\ todo' = {} /\ pending' = {} /\ landed' = {} /\ failed' = {}
    /\ round' = 0

(* copyPhase returns an error (a directory cannot be made, a file not be
   renamed, the camera delivers nothing but stale garbage); run still waits
   for the files that were handed on. *)
GiveUpCopy ==
    /\ pc \in {"scan", "pull"}
    /\ Adding = {}
    /\ copyErr' = TRUE
    /\ CopyReturns
    /\ \/ pc = "scan" /\ todo # {} /\ "disk" \in Faults
       \/ pc = "pull" /\ landed # {} /\ "disk" \in Faults
       \/ pc = "pull" /\ landed = {} /\ pending # {} /\ "camera" \in Faults
    /\ UNCHANGED <<world, running, starts, requests, keepers, markVars>>

StartPull ==
    /\ pc = "scan" /\ todo = {} /\ Adding = {}
    /\ pc' = "pull"
    /\ round' = 1
    /\ UNCHANGED <<streamVars, world, running, starts, requests, keepers, todo, pending, landed, failed,
                   copyErr, markVars>>

(* What chunkEnd may put together: within both bounds, or a file alone. *)
IsChunk(files) ==
    /\ files # {}
    /\ Cardinality(files) <= ChunkCount
    /\ Cardinality(files) = 1 \/ MapThenSumSet(LAMBDA f : Size[f], files) <= ChunkBytes

(* One chunk is fetched under its deadline; some of its files are complete
   and valid, the others wait for the next round. *)
PullChunk ==
    /\ pc = "pull" /\ landed = {} /\ Adding = {}
    /\ \E chunk \in SUBSET pending, got \in SUBSET pending :
          /\ IsChunk(chunk)
          /\ got \subseteq chunk
          /\ got = chunk \/ "camera" \in Faults
          /\ landed' = got
          /\ failed' = failed \cup (chunk \ got)
          /\ pending' = pending \ chunk
    /\ UNCHANGED <<streamVars, world, pc, running, starts, requests, keepers, todo, round, copyErr,
                   markVars>>

(* The next file of the chunk is renamed into place and handed on. *)
LandNext ==
    /\ pc = "pull" /\ landed # {} /\ Adding = {}
    /\ LET f == NextOf(landed) IN
          /\ Land(f)
          /\ Add(f)
          /\ landed' = landed \ {f}
    /\ UNCHANGED <<immich, pc, running, starts, requests, keepers, todo, pending, failed, round,
                   copyErr, markVars>>

(* The end of a round: done, another one, or too many. *)
EndRound ==
    /\ pc = "pull" /\ landed = {} /\ pending = {} /\ Adding = {}
    /\ IF failed # {} /\ round < Rounds
       THEN /\ pending' = failed
            /\ failed' = {}
            /\ round' = round + 1
            /\ UNCHANGED <<streamVars, pc, copyErr, todo, landed>>
       ELSE /\ copyErr' = (failed # {})
            /\ CopyReturns
    /\ UNCHANGED <<world, running, starts, requests, keepers, markVars>>

\* Mutant of Succeeded: the error of Wait replaces that of the copy.
SucceededLast == stream = "ok"

Succeeded == stream = "ok" /\ ~copyErr

(* run, after Wait: staging goes if all went well, the status is published. *)
Finish ==
    /\ pc = "wait" /\ stream \in {"ok", "error"}
    /\ disk' = IF Succeeded /\ Staged THEN [disk EXCEPT !["stage"] = {}] ELSE disk
    /\ marking' = IF Succeeded
                  THEN marking \cup {[shots |-> {ShotOf[f] : f \in keepers}, immich |-> mode.immich]}
                  ELSE marking
    /\ RunIsGone
    /\ UNCHANGED <<immich, starts, requests, imported, uploaded>>

(* MarkImported comes after that, so another run may have begun. *)
MarkImported ==
    /\ \E m \in marking :
          /\ marking' = marking \ {m}
          /\ imported' = imported \cup m.shots
          /\ uploaded' = IF m.immich THEN uploaded \cup m.shots ELSE uploaded
    /\ UNCHANGED <<streamVars, world, pc, running, starts, requests, copyVars>>

(* The process is killed: files, server and marks remain. *)
Kill ==
    /\ "kill" \in Faults
    /\ pc # "idle" \/ marking # {} \/ requests # {}
    /\ RunIsGone
    /\ requests' = {} /\ marking' = {}
    /\ UNCHANGED <<world, starts, imported, uploaded>>

-----------------------------------------------------------------------------

RunStep ==
    Open \/ Scan \/ GiveUpCopy \/ StartPull \/ PullChunk \/ LandNext \/ EndRound \/ Finish
StreamStep ==
    /\ WaitStep \/ \E f \in Files : AddStep(f) \/ WorkerStep(f)
    /\ UNCHANGED <<pc, running, starts, requests, copyVars, markVars>>

Next == Ask \/ Begin \/ RunStep \/ StreamStep \/ MarkImported \/ Kill

Spec == Init /\ [][Next]_vars

(* Every wait of a run has an end: requests to the server and the camera
   have deadlines (30 minutes, pullBudget), the rest is local work.  So some
   goroutine of the run proceeds as long as one of them can. *)
FairSpec == Spec /\ WF_vars(RunStep \/ StreamStep)

-----------------------------------------------------------------------------

Request == [call : Nat, files : SUBSET Files]
Mark == [shots : SUBSET Shots, immich : BOOLEAN]

(* The types of the state. *)
TypeOK ==
    /\ StreamTypeOK
    /\ pc \in {"idle", "open", "scan", "pull", "wait"}
    /\ running \in BOOLEAN
    /\ starts \in Nat
    /\ requests \subseteq Request
    /\ keepers \subseteq Files
    /\ {todo, pending, landed, failed} \subseteq SUBSET Files
    /\ round \in Nat
    /\ copyErr \in BOOLEAN
    /\ marking \subseteq Mark
    /\ imported \subseteq Shots
    /\ uploaded \subseteq Shots

(* A shot is only marked as imported when it really was: by a run that
   uploads, when the server has all of its files; by one that does not, when
   all of them are in the destination.  Whatever the server accepted and
   lost, whatever the camera failed to deliver, and whichever run began
   before the mark was made. *)
ImportedArrived ==
    /\ FilesOf(uploaded) \subseteq immich
    /\ FilesOf(imported \ uploaded) \subseteq disk["dest"]

(* A local copy only ever disappears from staging, and only if the server
   has accepted that file or has every file of the run: a run that fails or
   is killed leaves what the next one resumes from, and what was imported
   to the destination stays. *)
NothingDropped ==
    [][\A d \in Dirs : \A f \in disk[d] \ disk'[d] :
          d = "stage" /\ (f \in accepted' \/ keepers \subseteq immich)]_vars

(* Staging never holds more than a working set: the copied files that are
   not uploaded yet fit in the buffer and one chunk (importer.go:108-112,
   "disk use stays flat regardless of how many shots are being imported"). *)
StagingFlat == Cardinality(disk["stage"] \ accepted) <= BufferAhead + ChunkCount

(* Every run ends, whatever fails: the copy never waits for ever for a slot,
   for bytes or for the queue, and Wait never waits for ever for a worker. *)
RunEnds == running ~> ~running
=============================================================================
