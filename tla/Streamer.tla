----------------------------- MODULE Streamer -----------------------------
(***************************************************************************)
(* The upload pipeline of an import (internal/pipeline/stream.go and the   *)
(* parts of pipeline.go it calls): the copy hands every file it has landed *)
(* to Add, workers hash and upload it while the copy goes on, and Wait     *)
(* drains the workers and asks the server which files it really has.       *)
(*                                                                         *)
(* The buffer in front of the workers has three limits: slots (a channel   *)
(* used as a semaphore), bytes (a condition variable) and the job queue (a *)
(* channel).  The first two only exist in upload-only mode, where a copy   *)
(* is scratch and is deleted as soon as the server has accepted it.        *)
(*                                                                         *)
(* The order of the queue changes nothing here, so where a file is takes   *)
(* the place of the queue's content: at[f].  Hashing is part of reading.   *)
(* Progress figures, albums and stacks report or decorate; they change     *)
(* nothing below.  The context is never cancelled by an import.            *)
(***************************************************************************)
EXTENDS Naturals, FiniteSets, FiniteSetsExt

CONSTANTS
    Files,        (* the files of the camera *)
    Size,         (* Size[f]: the bytes of a file *)
    Workers,      (* UploadConcurrency *)
    BufferAhead,  (* slots in upload-only mode *)
    BufferBytes,  (* bytes in upload-only mode *)
    QueueCap,     (* capacity of the job queue *)
    Retries,      (* upload attempts after a validation that found gaps *)
    Faults        (* what may go wrong: "read", "refuse", "lose", "check",
                     and those of the import *)

ASSUME FilesAssumption == IsFiniteSet(Files) /\ Size \in [Files -> Nat \ {0}]
ASSUME LimitsAssumption ==
    /\ {Workers, BufferAhead, BufferBytes, QueueCap} \subseteq Nat \ {0}
    /\ Retries \in Nat

VARIABLES
    mode,      (* the options of the run: whether it uploads, whether the
                  local copies are kept *)
    stream,    (* how far Wait is, or "off" when there is no Streamer *)
    at,        (* at[f]: where file f is *)
    slots,     (* the length of sem *)
    outBytes,  (* bytes outstanding *)
    noted,     (* errs is not empty: some file could not be read *)
    tries,     (* retries so far *)
    disk,      (* the complete files in the destination and in staging *)
    immich,    (* the files the server has, as its bulk check reports *)
    accepted   (* history: the files the server accepted from
                  this run *)

streamVars == <<mode, stream, at, slots, outBytes, noted, tries, accepted>>
world == <<disk, immich>>

Modes == {m \in [immich : BOOLEAN, keep : BOOLEAN] : m.immich \/ m.keep}
Dirs == {"dest", "stage"}
Places == {"out", "slot", "bytes", "enqueue", "queued", "upload", "release", "done"}

(* Staged: the copies of this run are scratch (BufferAhead, BufferBytes and
   DeleteAfterUpload are set together). *)
Staged == ~mode.keep
Dir == IF Staged THEN "stage" ELSE "dest"

In(places) == {f \in Files : at[f] \in places}
Adding == In({"slot", "bytes", "enqueue"})      \* the producer is inside Add
Busy == In({"upload", "release"})              \* in the hands of a worker
Entries == In({"enqueue", "queued", "upload", "release", "done"})

-----------------------------------------------------------------------------

(* The values of a Streamer's state when there is none. *)
StreamOff ==
    /\ mode = [immich |-> TRUE, keep |-> TRUE]
    /\ stream = "off"
    /\ at = [f \in Files |-> "out"]
    /\ slots = 0
    /\ outBytes = 0
    /\ noted = FALSE
    /\ tries = 0
    /\ accepted = {}

StreamerIsGone ==
    /\ mode' = [immich |-> TRUE, keep |-> TRUE]
    /\ stream' = "off"
    /\ at' = [f \in Files |-> "out"]
    /\ slots' = 0
    /\ outBytes' = 0
    /\ noted' = FALSE
    /\ tries' = 0
    /\ accepted' = {}

NewStreamer(m) ==
    /\ mode' = m
    /\ stream' = "open"
    /\ at' = [f \in Files |-> "out"]
    /\ slots' = 0
    /\ outBytes' = 0
    /\ noted' = FALSE
    /\ tries' = 0
    /\ accepted' = {}

(* The call of Add for f; the producer waits until f is queued. *)
Add(f) ==
    /\ stream = "open"
    /\ Adding = {}
    /\ at[f] = "out"
    /\ at' = [at EXCEPT ![f] = "slot"]
    /\ UNCHANGED <<mode, stream, slots, outBytes, noted, tries, accepted>>

TakeSlot(f) ==
    /\ at[f] = "slot"
    /\ Staged => slots < BufferAhead
    /\ slots' = IF Staged THEN slots + 1 ELSE slots
    /\ at' = [at EXCEPT ![f] = "bytes"]
    /\ UNCHANGED <<mode, stream, outBytes, noted, tries, accepted, world>>

\* Mutant of AcquireBytes: the stricter rule, which refuses whatever
\* would exceed the budget.
AcquireBytesStrictly(f) ==
    /\ at[f] = "bytes"
    /\ Staged => outBytes + Size[f] <= BufferBytes
    /\ outBytes' = IF Staged THEN outBytes + Size[f] ELSE outBytes
    /\ at' = [at EXCEPT ![f] = "enqueue"]
    /\ UNCHANGED <<mode, stream, slots, noted, tries, accepted, world>>

(* A file is admitted whenever the buffer is under its budget. *)
AcquireBytes(f) ==
    /\ at[f] = "bytes"
    /\ Staged => outBytes < BufferBytes
    /\ outBytes' = IF Staged THEN outBytes + Size[f] ELSE outBytes
    /\ at' = [at EXCEPT ![f] = "enqueue"]
    /\ UNCHANGED <<mode, stream, slots, noted, tries, accepted, world>>

Enqueue(f) ==
    /\ at[f] = "enqueue"
    /\ Cardinality(In({"queued"})) < QueueCap
    /\ at' = [at EXCEPT ![f] = "queued"]
    /\ UNCHANGED <<mode, stream, slots, outBytes, noted, tries, accepted, world>>

\* Mutant of Hash: the worker moves on after an error.
HashLeaks(f) ==
    /\ at[f] = "queued"
    /\ Cardinality(Busy) < Workers
    /\ \/ /\ f \in disk[Dir]
          /\ at' = [at EXCEPT ![f] = IF mode.immich THEN "upload" ELSE "release"]
          /\ UNCHANGED noted
       \/ /\ "read" \in Faults \/ f \notin disk[Dir]
          /\ at' = [at EXCEPT ![f] = "done"]
          /\ noted' = TRUE
    /\ UNCHANGED <<mode, stream, slots, outBytes, tries, accepted, world>>

(* A worker receives a file and hashes it; an error is noted for Wait. *)
Hash(f) ==
    /\ at[f] = "queued"
    /\ Cardinality(Busy) < Workers
    /\ \/ /\ f \in disk[Dir]
          /\ at' = [at EXCEPT ![f] = IF mode.immich THEN "upload" ELSE "release"]
          /\ UNCHANGED noted
       \/ /\ "read" \in Faults \/ f \notin disk[Dir]
          /\ at' = [at EXCEPT ![f] = "release"]
          /\ noted' = TRUE
    /\ UNCHANGED <<mode, stream, slots, outBytes, tries, accepted, world>>

\* Mutant of Upload: the staged copy goes whatever the answer was.
UploadRemoves(f) ==
    /\ at[f] = "upload"
    /\ \E taken, stored \in BOOLEAN :
          /\ taken \/ "refuse" \in Faults
          /\ taken => stored \/ "lose" \in Faults
          /\ accepted' = IF taken THEN accepted \cup {f} ELSE accepted
          /\ immich' = IF stored THEN immich \cup {f} ELSE immich
          /\ disk' = IF Staged THEN [disk EXCEPT !["stage"] = @ \ {f}] ELSE disk
    /\ at' = [at EXCEPT ![f] = "release"]
    /\ UNCHANGED <<mode, stream, slots, outBytes, noted, tries>>

(* upload, and handle's removal of the staged copy.  The server may refuse
   the file, store it although the answer says otherwise or never comes, or
   take it (as new or as a duplicate) and not have it when asked later. *)
Upload(f) ==
    /\ at[f] = "upload"
    /\ \E taken, stored \in BOOLEAN :
          /\ taken \/ "refuse" \in Faults
          /\ taken => stored \/ "lose" \in Faults
          /\ accepted' = IF taken THEN accepted \cup {f} ELSE accepted
          /\ immich' = IF stored THEN immich \cup {f} ELSE immich
          /\ disk' = IF taken /\ Staged
                     THEN [disk EXCEPT !["stage"] = @ \ {f}] ELSE disk
    /\ at' = [at EXCEPT ![f] = "release"]
    /\ UNCHANGED <<mode, stream, slots, outBytes, noted, tries>>

\* Mutant of Release: a slot is given back that was not taken.
ReleaseAlways(f) ==
    /\ at[f] = "release"
    /\ outBytes' = IF Staged THEN outBytes - Size[f] ELSE outBytes
    /\ slots' = slots - 1
    /\ at' = [at EXCEPT ![f] = "done"]
    /\ UNCHANGED <<mode, stream, noted, tries, accepted, world>>

(* The worker gives back what Add took.  The bytes go first and the slot
   next; the one producer waits for at most one of them. *)
Release(f) ==
    /\ at[f] = "release"
    /\ outBytes' = IF Staged THEN outBytes - Size[f] ELSE outBytes
    /\ slots' = IF Staged THEN slots - 1 ELSE slots
    /\ at' = [at EXCEPT ![f] = "done"]
    /\ UNCHANGED <<mode, stream, noted, tries, accepted, world>>

(* Wait: no more files, the workers come to an end. *)
CloseJobs ==
    /\ stream = "open"
    /\ Adding = {}
    /\ stream' = "draining"
    /\ UNCHANGED <<mode, at, slots, outBytes, noted, tries, accepted>>

Drained ==
    /\ stream = "draining"
    /\ In({"out", "done"}) = Files
    /\ stream' = IF noted THEN "error"
                 ELSE IF mode.immich THEN "check" ELSE "ok"
    /\ UNCHANGED <<mode, at, slots, outBytes, noted, tries, accepted, world>>

(* Every entry was hashed, or it would have been noted. *)
Missing == Entries \ immich

Validate ==
    /\ stream = "check"
    /\ stream' \in (IF Missing = {} THEN {"ok"}
                    ELSE IF tries < Retries THEN {"retry"} ELSE {"error"})
                   \cup (IF "check" \in Faults THEN {"error"} ELSE {})
    /\ UNCHANGED <<mode, at, slots, outBytes, noted, tries, accepted, world>>

(* The package's Upload of what is missing: it opens the local copy again,
   which is gone if the server had accepted it in upload-only mode. *)
Retry ==
    /\ stream = "retry"
    /\ tries' = tries + 1
    /\ \E stored \in SUBSET (Missing \cap disk[Dir]) :
          /\ stored = Missing \cap disk[Dir] \/ {"refuse", "lose"} \cap Faults # {}
          /\ immich' = immich \cup stored
          /\ accepted' = accepted \cup stored
    /\ stream' = "check"
    /\ UNCHANGED <<mode, at, slots, outBytes, noted, disk>>

WorkerStep(f) == Hash(f) \/ Upload(f) \/ Release(f)
AddStep(f) == TakeSlot(f) \/ AcquireBytes(f) \/ Enqueue(f)
WaitStep == Drained \/ Validate \/ Retry

-----------------------------------------------------------------------------

StreamTypeOK ==
    /\ mode \in Modes
    /\ stream \in {"off", "open", "draining", "check", "retry", "ok", "error"}
    /\ at \in [Files -> Places]
    /\ slots \in Nat
    /\ outBytes \in Nat
    /\ noted \in BOOLEAN
    /\ tries \in Nat
    /\ disk \in [Dirs -> SUBSET Files]
    /\ immich \subseteq Files
    /\ accepted \subseteq Files

HoldSlot == In({"bytes", "enqueue", "queued", "upload", "release"})
HoldBytes == In({"enqueue", "queued", "upload", "release"})

(* The slots taken are exactly those of the files between Add and the end of
   their worker, whatever became of each of them: no slot leaks and none is
   given back twice, so a run never starves its own copy, and the slots
   never exceed the buffer. *)
SlotsBalanced ==
    Staged => /\ slots = Cardinality(HoldSlot)
              /\ slots <= BufferAhead

(* The same for the bytes; and the budget is overshot by less than one file. *)
BytesBalanced ==
    Staged => /\ outBytes = MapThenSumSet(LAMBDA f : Size[f], HoldBytes)
              /\ HoldBytes # {} => \E f \in HoldBytes : outBytes < BufferBytes + Size[f]

(* Both counters of the buffer are the sum of what is held. *)
Balanced == SlotsBalanced /\ BytesBalanced
=============================================================================
