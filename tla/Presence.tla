------------------------------ MODULE Presence ------------------------------
(***************************************************************************)
(* The badge "already on Immich" (internal/cull/immichcheck.go).  A shot   *)
(* whose file landed in the cache is queued; one worker hashes what is     *)
(* queued and asks the server about a batch; an import marks what it       *)
(* carried.  What is known is never asked again, and outlives the process. *)
(*                                                                         *)
(* The server answers a request at some moment, the answer is booked       *)
(* later.  A hash identifies its shot.  Nobody deletes from the server.    *)
(***************************************************************************)
EXTENDS Naturals, Sequences, FiniteSets

CONSTANTS
    Frames,        (* shots of the catalog *)
    Refused,       (* those whose type the server does not take *)
    QueueMax,      (* capacity of the queue *)
    BatchMax,      (* ids in a request *)
    MaxImports, MaxLandings, MaxOutages, MaxReboots   (* bounds *)

ASSUME PresenceAssumption ==
    /\ Refused \subseteq Frames
    /\ {QueueMax, BatchMax} \subseteq Nat \ {0}
    /\ {MaxImports, MaxLandings, MaxOutages, MaxReboots} \subseteq Nat

VARIABLES
    server,     (* shots on the server *)
    held,       (* shots whose camera-verbatim file is in the cache *)
    present,    (* present[s]: "1", "0", or "-" if not known *)
    changed,    (* c.dirty *)
    saved,      (* immich-present.json *)
    queue,      (* c.queue *)
    ids,        (* the batch the worker collects *)
    asker,      (* the worker: [at, answer]; the tick flushes after it asked *)
    snapshot,   (* what flush is writing *)
    importing,  (* the import: [shots, uploads, over] *)
    unwritten,  (* history: the last write of the file failed *)
    unsent,     (* history: shots marked by an import that was told not to upload *)
    imports, landings, outages, reboots

presenceVars == <<server, held, present, changed, saved, queue, ids, asker, snapshot, importing,
                  unwritten, unsent, imports, landings, outages, reboots>>

Nothing == [s \in Frames |-> "-"]
Waiting == [at |-> "queue", tick |-> FALSE, answer |-> Nothing]
NoImport == [shots |-> {}, uploads |-> FALSE, over |-> TRUE]

PresenceInit ==
    /\ server \in SUBSET (Frames \ Refused)
    /\ held = {} /\ present = Nothing /\ changed = FALSE /\ saved = Nothing
    /\ queue = <<>> /\ ids = {} /\ asker = Waiting /\ snapshot = Nothing
    /\ importing = NoImport /\ unwritten = FALSE /\ unsent = {}
    /\ imports = 0 /\ landings = 0 /\ outages = 0 /\ reboots = 0

Outage == outages < MaxOutages /\ outages' = outages + 1

-----------------------------------------------------------------------------

\* Mutant of Enqueue: the capacity is not looked at.
EnqueueAnyway(q, s) == IF present[s] = "-" THEN Append(q, s) ELSE q

(* Enqueue: never blocks; what finds the queue full is dropped. *)
Enqueue(q, s) == IF present[s] = "-" /\ Len(q) < QueueMax THEN Append(q, s) ELSE q

(* A pull completes (onReady). *)
Lands(s) ==
    /\ s \notin held /\ landings < MaxLandings /\ landings' = landings + 1
    /\ held' = held \cup {s}
    /\ queue' = Enqueue(queue, s)
    /\ UNCHANGED <<unwritten, unsent, server, present, changed, saved, ids, asker, snapshot, importing,
                   imports, outages, reboots>>

Evicted(s) ==
    /\ s \in held
    /\ held' = held \ {s}
    /\ UNCHANGED <<unwritten, unsent, server, present, changed, saved, queue, ids, asker, snapshot,
                   importing, imports, landings, outages, reboots>>

(* The worker takes a shot; a full batch is sent. *)
Take ==
    /\ asker.at = "queue" /\ queue # <<>>
    /\ queue' = Tail(queue)
    /\ ids' = IF present[Head(queue)] = "-" /\ Head(queue) \in held THEN ids \cup {Head(queue)} ELSE ids
    /\ asker' = IF Cardinality(ids') >= BatchMax THEN [asker EXCEPT !.at = "ask"] ELSE asker
    /\ UNCHANGED <<unwritten, unsent, server, held, present, changed, saved, snapshot, importing, imports,
                   landings, outages, reboots>>

Tick ==
    /\ asker.at = "queue" /\ (ids # {} \/ changed)
    /\ asker' = [Waiting EXCEPT !.at = IF ids = {} THEN "flush" ELSE "ask", !.tick = TRUE]
    /\ UNCHANGED <<unwritten, unsent, server, held, present, changed, saved, queue, ids, snapshot,
                   importing, imports, landings, outages, reboots>>

AfterBooking == IF asker.tick THEN [Waiting EXCEPT !.at = "flush"] ELSE Waiting

(* What the server says of a shot: there, not there, or of a wrong type. *)
Verdict(s) == IF s \in server THEN "duplicate" ELSE IF s \in Refused THEN "unsupported" ELSE "accept"

(* BulkCheck: a request that fails drops the batch. *)
ServerAnswers ==
    /\ asker.at = "ask"
    /\ \/ /\ asker' = [asker EXCEPT !.at = "book",
                                    !.answer = [s \in Frames |-> IF s \in ids THEN Verdict(s) ELSE "-"]]
          /\ UNCHANGED <<ids, outages>>
       \/ /\ Outage
          /\ ids' = {}
          /\ asker' = AfterBooking
    /\ UNCHANGED <<unwritten, unsent, server, held, present, changed, saved, queue, snapshot, importing,
                   imports, landings, reboots>>

\* Mutant of Badge: whatever the server would not take is taken to be there.
BadgeRejected(verdict) == IF verdict = "accept" THEN "0" ELSE "1"

Badge(verdict) == IF verdict = "duplicate" THEN "1" ELSE "0"

Book ==
    /\ asker.at = "book"
    /\ present' = [s \in Frames |-> IF s \in ids THEN Badge(asker.answer[s]) ELSE present[s]]
    /\ changed' = TRUE
    /\ ids' = {}
    /\ asker' = AfterBooking
    /\ UNCHANGED <<unwritten, unsent, server, held, saved, queue, snapshot, importing, imports, landings,
                   outages, reboots>>

(* flush: a copy is made under the lock and written without it. *)
FlushTakes ==
    /\ asker.at = "flush"
    /\ snapshot' = present
    /\ changed' = FALSE
    /\ asker' = IF changed THEN [Waiting EXCEPT !.at = "write"] ELSE Waiting
    /\ UNCHANGED <<unwritten, unsent, server, held, present, saved, queue, ids, importing, imports,
                   landings, outages, reboots>>

\* Mutant of FlushWrites: the flag is cleared here.
FlushWritesClears ==
    /\ asker.at = "write"
    /\ saved' = snapshot /\ changed' = FALSE
    /\ asker' = Waiting /\ unwritten' = FALSE
    /\ UNCHANGED <<server, unsent, held, present, queue, ids, snapshot, importing, imports,
                   landings, outages, reboots>>

(* A write that fails is not noticed: the flag has been cleared. *)
FlushWrites ==
    /\ asker.at = "write"
    /\ \/ saved' = snapshot /\ unwritten' = FALSE /\ UNCHANGED outages
       \/ Outage /\ unwritten' = TRUE /\ UNCHANGED saved
    /\ asker' = Waiting
    /\ UNCHANGED <<server, unsent, held, present, changed, queue, ids, snapshot, importing,
                   imports, landings, reboots>>

-----------------------------------------------------------------------------
(* The import (see Import): it uploads, unless it was told not to, and ends  *)
(* well only if the server has everything it should upload.                  *)

ImportBegins ==
    /\ importing.over /\ imports < MaxImports /\ imports' = imports + 1
    /\ \E shots \in SUBSET Frames, uploads \in BOOLEAN :
          /\ shots # {}
          /\ importing' = [shots |-> shots, uploads |-> uploads, over |-> FALSE]
    /\ UNCHANGED <<unwritten, unsent, server, held, present, changed, saved, queue, ids, asker, snapshot,
                   landings, outages, reboots>>

ImportUploads ==
    /\ ~importing.over /\ importing.uploads
    /\ \E s \in importing.shots \ (server \cup Refused) : server' = server \cup {s}
    /\ UNCHANGED <<unwritten, unsent, held, present, changed, saved, queue, ids, asker, snapshot,
                   importing, imports, landings, outages, reboots>>

ImportFails ==
    /\ ~importing.over
    /\ importing' = NoImport
    /\ UNCHANGED <<unwritten, unsent, server, held, present, changed, saved, queue, ids, asker, snapshot,
                   imports, landings, outages, reboots>>

(* MarkUploaded: all that was imported, uploaded or not (importer.go:386-397). *)
MarkUploaded ==
    /\ ~importing.over
    /\ importing.uploads => importing.shots \subseteq server
    /\ present' = [s \in Frames |-> IF s \in importing.shots THEN "1" ELSE present[s]]
    /\ changed' = TRUE
    /\ unsent' = IF importing.uploads THEN unsent ELSE unsent \cup importing.shots
    /\ importing' = NoImport
    /\ UNCHANGED <<unwritten, server, held, saved, queue, ids, asker, snapshot, imports, landings,
                   outages, reboots>>

-----------------------------------------------------------------------------

(* The process is started again; Backfill queues what is in the cache and not
   known. *)
Reboot ==
    /\ reboots < MaxReboots /\ reboots' = reboots + 1
    /\ present' = saved
    /\ changed' = FALSE /\ ids' = {} /\ asker' = Waiting /\ snapshot' = Nothing
    /\ importing' = NoImport
    /\ LET asks == {s \in held : saved[s] = "-"}
       IN queue' \in {q \in UNION {[1..n -> asks] : n \in 0..QueueMax} :
                         /\ Cardinality({q[i] : i \in DOMAIN q}) = Len(q)
                         /\ Len(q) = QueueMax \/ {q[i] : i \in DOMAIN q} = asks}
    /\ unwritten' = FALSE
    /\ UNCHANGED <<server, unsent, held, saved, imports, landings, outages>>

AskerStep == Take \/ Tick \/ ServerAnswers \/ Book \/ FlushTakes \/ FlushWrites

PresenceNext ==
    \/ AskerStep
    \/ \E s \in Frames : Lands(s) \/ Evicted(s)
    \/ ImportBegins \/ ImportUploads \/ ImportFails \/ MarkUploaded
    \/ Reboot

PresenceSpec == PresenceInit /\ [][PresenceNext]_presenceVars

(* The worker has a ticker, and its requests a deadline. *)
PresenceFairSpec == PresenceSpec /\ WF_presenceVars(AskerStep)

-----------------------------------------------------------------------------

PresenceTypeOK ==
    /\ server \subseteq Frames \ Refused /\ held \subseteq Frames /\ unsent \subseteq Frames
    /\ {present, saved, snapshot} \subseteq [Frames -> {"-", "0", "1"}]
    /\ {changed, unwritten} \subseteq BOOLEAN
    /\ Len(queue) <= QueueMax /\ ids \subseteq Frames
    /\ asker.at \in {"queue", "ask", "book", "flush", "write"}

(* A shot with a badge is on the server, now and after a restart, unless an
   import marked it that was told not to upload.  The exception is the code's:
   "the pipeline just validated these on the server" (importer.go:387) and
   "MarkUploaded records shots as present without a server round-trip (called
   after a validated import - the pipeline just proved they're there)"
   (immichcheck.go:177-178) hold only of imports that upload, but with Immich
   switched off what was copied to a folder is marked as well, and never asked
   about again.  Nothing else puts up a badge that is not true: no answer that
   is old when it is booked, no failed write, no restart. *)
BadgeHonest ==
    \A s \in Frames : present[s] = "1" \/ saved[s] = "1" => s \in server \cup unsent

(* What is known ends up on disk, whoever marked it while the file was being
   written, unless the last write failed. *)
PresencePersists == <>[](saved = present \/ unwritten)
=============================================================================
