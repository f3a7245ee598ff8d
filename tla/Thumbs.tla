------------------------------- MODULE Thumbs -------------------------------
(***************************************************************************)
(* Thumbnails and orientations (internal/cull/orient.go, thumbgen.go and   *)
(* the sweeps of prefetch.go).  The worker, when it has nothing to pull,   *)
(* sweeps the card: heads of photos (thumbnail and orientation at once),   *)
(* orientations, the camera's own thumbnails, posters of videos.  Beside   *)
(* it a generator makes thumbnails of images that happen to be buffered,   *)
(* and asks for those the camera cannot help with.                         *)
(*                                                                         *)
(* A sweep reads without the lock, then books what it got under the lock.  *)
(* Which shots are nearest to where the user looks is open, and so is when *)
(* a backoff or the interval between two probes has elapsed.  Both partial *)
(* reads and gphoto2 are available.                                        *)
(***************************************************************************)
EXTENDS Naturals, FiniteSets

CONSTANTS
    Photos, Movies,
    First,        (* the first photo of the catalog *)
    HEIFs,        (* photos whose display file is a HEIF *)
    Bare,         (* photos without an embedded thumbnail *)
    Fragments,    (* photos whose thumbnail the camera cannot deliver *)
    Undecodable,  (* shots whose image, or video, cannot be decoded *)
    Untimed,      (* HEIFs that carry no capture time *)
    Far,          (* photos beyond the eviction margin *)
    SweepSize,    (* shots in a sweep *)
    MaxTroubles,  (* bound: faults and interruptions *)
    MaxStarts     (* bound: restarts *)

Shooting == Photos \cup Movies

ASSUME ThumbsAssumption ==
    /\ Photos \cap Movies = {} /\ First \in Photos /\ 0 \notin Shooting
    /\ HEIFs \subseteq Photos /\ Bare \subseteq Photos /\ Fragments \subseteq Photos
    /\ Far \subseteq Photos /\ Untimed \subseteq HEIFs /\ Undecodable \subseteq Shooting
    /\ SweepSize \in Nat \ {0} /\ {MaxTroubles, MaxStarts} \subseteq Nat

VARIABLES
    thumb,       (* thumb[s]: "missing", "have" or "failed" *)
    stalls,      (* thumbStalls, up to 4 *)
    tried,       (* healTried *)
    known,       (* photos whose orientation is known *)
    timed,       (* HEIFs whose capture time is known *)
    unsaved,     (* stores with changes to write: "orient", "taken" *)
    disk,        (* what outlives the process *)
    task,        (* the sweep: [kind, batch, got, short, banked, garbled, how] *)
    untrusted,   (* partSick *)
    backoff,     (* thumbRetryAt lies ahead *)
    buffered,    (* photos with their display file in the cache *)
    wanted,      (* photos the generator asked for *)
    making,      (* the photo the generator works on, or 0 *)
    troubles, starts

memory == <<thumb, stalls, tried>>
learnt == <<known, timed, unsaved>>
images == <<buffered, wanted, making>>
tvars == <<memory, learnt, disk, task, untrusted, backoff, images, troubles, starts>>

NoTask == [kind |-> "none", batch |-> {}, got |-> {}, short |-> {}, banked |-> {},
           garbled |-> {}, how |-> "ok"]
Trouble == troubles < MaxTroubles /\ troubles' = troubles + 1
Least(a, b) == IF a < b THEN a ELSE b

ThumbsInit ==
    /\ thumb = [s \in Shooting |-> "missing"] /\ stalls = [s \in Shooting |-> 0]
    /\ tried = {} /\ known = {} /\ timed = {} /\ unsaved = {}
    /\ disk = [files |-> [s \in Shooting |-> "none"], impossible |-> {}, orient |-> {}, taken |-> {}]
    /\ task = NoTask
    /\ untrusted = FALSE /\ backoff = FALSE
    /\ buffered = {} /\ wanted = {} /\ making = 0
    /\ troubles = 0 /\ starts = 0

-----------------------------------------------------------------------------
(* What a sweep has to do.                                                 *)

Needs(kind) ==
    CASE kind = "heads"   -> {s \in Photos : thumb[s] # "have" /\ s \notin tried}
      [] kind = "orient"  -> (Photos \ known) \cup (HEIFs \ timed)
      [] kind = "camera"  -> {s \in Photos : thumb[s] = "missing"}
      [] kind = "posters" -> {s \in Movies : thumb[s] = "missing" /\ stalls[s] < 2}

Before(kind) ==
    CASE kind = "heads" -> {} [] kind = "orient" -> {"heads"}
      [] kind = "camera" -> {"heads", "orient"} [] kind = "posters" -> {"heads", "orient", "camera"}

Begin(kind) ==
    /\ task = NoTask /\ ~untrusted /\ ~backoff
    /\ \A k \in Before(kind) : Needs(k) = {}
    /\ \E b \in SUBSET Needs(kind) :
          /\ Cardinality(b) = Least(SweepSize, Cardinality(Needs(kind)))
          /\ b # {}
          /\ task' = [NoTask EXCEPT !.kind = kind, !.batch = b, !.how = "reading"]
    /\ UNCHANGED <<memory, learnt, disk, untrusted, backoff, images, troubles, starts>>

(* The camera has answered for the shots in got.  It may have stopped early:
   an error, a cancellation, or garbage for one more shot; and a read may come
   back short (prefetch.go:1822-1826).  Heads that carry a thumbnail are banked
   right away; a HEIF whose item index shows none, or is garbage, leaves nothing
   behind. *)
Readable(got) == IF task.kind = "heads" THEN got \ (HEIFs \cap Bare) ELSE got

(* jpegmeta.Thumbnail wants the thumbnail of a JPEG up to its end marker; what
   heifThumbFrom reads out of a HEIF has to begin like a JPEG, nothing more. *)
Accepted(head, short) == head \in HEIFs \/ head \notin short

Answered(got, lost, short, garbled, how) ==
    LET banked == IF task.kind = "heads"
                  THEN {s \in (Readable(got) \ Bare) \ lost : Accepted(s, short)} ELSE {}
    IN /\ task' = [task EXCEPT !.got = Readable(got), !.short = short \cap Readable(got),
                               !.banked = banked, !.garbled = garbled, !.how = how]
       /\ disk' = [disk EXCEPT !.files = [s \in Shooting |->
                       IF s \notin banked THEN @[s] ELSE IF s \in short THEN "broken" ELSE "whole"]]

ReadBatch ==
    /\ task.how = "reading"
    /\ \/ Answered(task.batch, {}, {}, {}, "ok") /\ UNCHANGED troubles
       \/ /\ Trouble
          /\ \E s \in task.batch :
                \/ \E how \in {"error", "cancelled"} : Answered(task.batch \ {s}, {}, {}, {}, how)
                \/ Answered(task.batch, {s}, {}, {}, "ok")
                \/ Answered(task.batch, {}, {s}, {}, "ok")
                \/ /\ task.kind = "camera"
                   /\ \/ Answered(task.batch \ {s}, {}, {}, {}, "ok")
                      \/ \E how \in {"error", "cancelled"} : Answered(task.batch, {}, {s}, {}, how)
                \/ /\ task.kind # "camera"
                   /\ IF task.kind = "heads" /\ s \in HEIFs
                      THEN Answered(task.batch \ {s}, {}, {}, {}, "ok")
                      ELSE Answered(task.batch \ {s}, {}, {}, {s}, "ok")
    /\ UNCHANGED <<memory, learnt, untrusted, backoff, images, starts>>

-----------------------------------------------------------------------------
(* Booking, under the lock.                                                *)

(* saveThumbFailedLocked *)
SaveFailed(save) ==
    disk' = IF save THEN [disk EXCEPT !.impossible = {s \in Shooting : thumb'[s] = "failed"}] ELSE disk

\* Mutant of Learn: a capture time is booked for whatever has an orientation.
LearnBoth(orient, taken) ==
    /\ known' = known \cup orient
    /\ timed' = timed \cup orient
    /\ unsaved' = unsaved \cup {"orient", "taken"}

Learn(orient, taken) ==
    /\ known' = known \cup orient
    /\ timed' = timed \cup taken
    /\ unsaved' = unsaved \cup (IF orient # {} THEN {"orient"} ELSE {})
                          \cup (IF taken # {} THEN {"taken"} ELSE {})

TaskOver ==
    /\ task' = NoTask
    /\ backoff' = (backoff \/ task.how = "error")
    /\ untrusted' = (untrusted \/ task.garbled # {})

Booking(kind) == task.kind = kind /\ task.how # "reading"

\* Mutant of BookHeads: what has no thumbnail in its head is not noted.
BookHeadsHopeful ==
    /\ Booking("heads")
    /\ LET healed == task.banked
       IN /\ thumb' = [s \in Shooting |-> IF s \in healed THEN "have" ELSE thumb[s]]
          /\ stalls' = [s \in Shooting |-> IF s \in healed THEN 0 ELSE stalls[s]]
          /\ SaveFailed(healed # {})
    /\ tried' = tried \cup task.banked
    /\ Learn(task.got \ known, ((task.got \cap HEIFs) \ Untimed) \ timed)
    /\ TaskOver
    /\ UNCHANGED <<images, troubles, starts>>

BookHeads ==
    /\ Booking("heads")
    /\ LET healed == task.banked
       IN /\ thumb' = [s \in Shooting |-> IF s \in healed THEN "have" ELSE thumb[s]]
          /\ stalls' = [s \in Shooting |-> IF s \in healed THEN 0 ELSE stalls[s]]
          /\ SaveFailed(healed # {})
    /\ tried' = tried \cup task.got
    /\ Learn(task.got \ known, ((task.got \cap HEIFs) \ Untimed) \ timed)
    /\ TaskOver
    /\ UNCHANGED <<images, troubles, starts>>

BookOrient ==
    /\ Booking("orient")
    /\ Learn(task.got, ((task.got \ task.short) \cap HEIFs) \ Untimed)
    /\ TaskOver
    /\ UNCHANGED <<memory, disk, images, troubles, starts>>

(* gphoto2 left a file, but a truncated one, or a slice out of the middle. *)
Torn(s) == s \in task.short \cup Fragments

\* Mutant of Delivered: whatever gphoto2 left behind is taken.
DeliveredAnyhow(s) == IF s \notin task.got THEN "none" ELSE IF Torn(s) THEN "broken" ELSE "whole"

(* jpegComplete: a file has to begin and to end like a JPEG. *)
Delivered(s) == IF s \in task.got /\ ~Torn(s) THEN "whole" ELSE "none"

(* What came is banked, the neighbours of the batch that came along too.  A
   clean run that did not bring a shot counts against it. *)
BookCamera ==
    /\ Booking("camera")
    /\ \E along \in SUBSET (Photos \ Fragments) :
          LET here == {s \in task.batch \cup along : s \in along \/ Delivered(s) # "none"}
              came == {s \in here : thumb[s] # "have"}
              struck == IF task.how = "ok" THEN {s \in task.batch \ came : thumb[s] # "have"} ELSE {}
              out == {s \in struck : stalls[s] >= 1}
          IN /\ thumb' = [s \in Shooting |-> IF s \in came THEN "have"
                                             ELSE IF s \in out THEN "failed" ELSE thumb[s]]
             /\ stalls' = [s \in Shooting |-> IF s \in struck THEN Least(stalls[s] + 1, 4) ELSE stalls[s]]
             /\ disk' = [disk EXCEPT
                    !.files = [s \in Shooting |->
                        IF s \notin came THEN @[s] ELSE IF s \in along THEN "whole" ELSE Delivered(s)],
                    !.impossible = IF out # {} THEN {s \in Shooting : thumb'[s] = "failed"} ELSE @]
    /\ TaskOver
    /\ UNCHANGED <<tried, learnt, images, troubles, starts>>

BookPosters ==
    /\ Booking("posters")
    /\ LET made == task.got \ (Undecodable \cup task.short)
           struck == task.got \ made
       IN /\ thumb' = [s \in Shooting |-> IF s \in made THEN "have"
                          ELSE IF s \in struck /\ stalls[s] >= 1 THEN "failed" ELSE thumb[s]]
          /\ stalls' = [s \in Shooting |-> IF s \in struck THEN Least(stalls[s] + 1, 4) ELSE stalls[s]]
          /\ disk' = [disk EXCEPT !.files = [s \in Shooting |-> IF s \in made THEN "whole" ELSE @[s]]]
    /\ TaskOver
    /\ UNCHANGED <<tried, learnt, images, troubles, starts>>

BackoffEnds ==
    /\ backoff /\ backoff' = FALSE
    /\ UNCHANGED <<memory, learnt, disk, task, untrusted, images, troubles, starts>>

-----------------------------------------------------------------------------
(* The breaker of the partial reads.                                       *)

(* forgiveThumbFailuresLocked *)
Forgive ==
    LET forgiven == {s \in Photos : thumb[s] = "failed"}
    IN /\ tried' = {}
       /\ thumb' = [s \in Shooting |-> IF s \in forgiven THEN "missing" ELSE thumb[s]]
       /\ stalls' = [s \in Shooting |-> IF s \in forgiven THEN 0 ELSE stalls[s]]
       /\ SaveFailed(forgiven # {})

(* A probe reads the head of the first photo and expects a JPEG. *)
ProbeHeals == First \notin HEIFs

\* Mutant of Probe: a probe that was answered with garbage is the last one.
ProbeOnce ==
    /\ task = NoTask /\ untrusted
    /\ ProbeHeals /\ untrusted' = FALSE /\ Forgive /\ troubles < MaxTroubles
    /\ UNCHANGED <<learnt, task, backoff, images, troubles, starts>>

Probe ==
    /\ task = NoTask /\ untrusted
    /\ \/ ProbeHeals /\ untrusted' = FALSE /\ Forgive /\ UNCHANGED troubles
       \/ ~ProbeHeals /\ UNCHANGED <<untrusted, memory, disk, troubles>>
       \/ Trouble /\ UNCHANGED <<untrusted, memory, disk>>
    /\ UNCHANGED <<learnt, task, backoff, images, starts>>

(* completeShot: a valid image after garbage proves the camera is well. *)
ImageProves ==
    /\ untrusted /\ buffered # {}
    /\ untrusted' = FALSE
    /\ Forgive
    /\ UNCHANGED <<learnt, task, backoff, images, troubles, starts>>

-----------------------------------------------------------------------------
(* The generator, and the images it works on.                              *)

GenTargets == {s \in buffered : thumb[s] # "have"}

GenPick ==
    /\ making = 0
    /\ making' \in GenTargets
    /\ UNCHANGED <<memory, learnt, disk, task, untrusted, backoff, buffered, wanted, troubles, starts>>

GenAsk ==
    /\ making = 0 /\ GenTargets = {}
    /\ LET asks == {s \in Photos \ wanted : thumb[s] = "failed" /\ stalls[s] < 4}
       IN asks # {} /\ wanted' = wanted \cup asks
    /\ UNCHANGED <<memory, learnt, disk, task, untrusted, backoff, buffered, making, troubles, starts>>

\* Mutant of GenEnds: a generated thumbnail is not booked for a failed shot.
GenEndsShy ==
    /\ making # 0
    /\ making' = 0
    /\ \/ /\ making \in buffered \ Undecodable
          /\ disk' = [disk EXCEPT !.files[making] = "whole"]
          /\ thumb' = [thumb EXCEPT ![making] = IF @ = "failed" THEN @ ELSE "have"]
          /\ UNCHANGED <<stalls, troubles>>
       \/ /\ making \in Undecodable \/ making \notin buffered
          /\ UNCHANGED troubles
          /\ stalls' = [stalls EXCEPT ![making] = Least(@ + 1, 4)]
          /\ thumb' = [thumb EXCEPT ![making] = IF stalls'[making] >= 2 THEN "failed" ELSE @]
          /\ UNCHANGED disk
    /\ UNCHANGED <<tried, learnt, task, untrusted, backoff, buffered, wanted, starts>>

GenEnds ==
    /\ making # 0
    /\ making' = 0
    /\ \/ /\ making \in buffered \ Undecodable
          /\ thumb' = [thumb EXCEPT ![making] = "have"]
          /\ disk' = [disk EXCEPT
                 !.files[making] = "whole",
                 !.impossible = IF thumb[making] = "failed"
                                THEN {s \in Shooting : thumb'[s] = "failed"} ELSE @]
          /\ UNCHANGED <<stalls, troubles>>
       \/ /\ \/ (making \in Undecodable \/ making \notin buffered) /\ UNCHANGED troubles
             \/ Trouble
          /\ stalls' = [stalls EXCEPT ![making] = Least(@ + 1, 4)]
          /\ thumb' = [thumb EXCEPT ![making] = IF stalls'[making] >= 2 THEN "failed" ELSE @]
          /\ UNCHANGED disk
    /\ UNCHANGED <<tried, learnt, task, untrusted, backoff, buffered, wanted, starts>>

(* The prefetcher pulls what is asked for, and the window (see Prefetch). *)
Buffer(s) ==
    /\ s \in (wanted \cup (Photos \ Far)) \ buffered
    /\ buffered' = buffered \cup {s}
    /\ wanted' = wanted \ {s}
    /\ UNCHANGED <<memory, learnt, disk, task, untrusted, backoff, making, troubles, starts>>

(* The end of the batch that brought it. *)
EvictFar ==
    /\ buffered \cap Far # {}
    /\ buffered' = buffered \ Far
    /\ UNCHANGED <<memory, learnt, disk, task, untrusted, backoff, wanted, making, troubles, starts>>

-----------------------------------------------------------------------------
(* The stores, and the process.                                            *)

(* orientFlusher, sharpFlusher: a write that fails is not tried again. *)
Flush(store) ==
    /\ store \in unsaved
    /\ unsaved' = unsaved \ {store}
    /\ \/ /\ disk' = IF store = "orient" THEN [disk EXCEPT !.orient = known]
                                          ELSE [disk EXCEPT !.taken = timed]
          /\ UNCHANGED troubles
       \/ Trouble /\ UNCHANGED disk
    /\ UNCHANGED <<memory, known, timed, task, untrusted, backoff, images, starts>>

(* newPrefetcher, loadThumbFailed *)
Reload(s) ==
    IF disk.files[s] # "none" THEN "have" ELSE IF s \in disk.impossible THEN "failed" ELSE "missing"

Restart ==
    /\ starts < MaxStarts /\ starts' = starts + 1
    /\ thumb' = [s \in Shooting |-> Reload(s)]
    /\ stalls' = [s \in Shooting |-> IF Reload(s) = "failed" THEN 2 ELSE 0]
    /\ tried' = {} /\ known' = disk.orient /\ timed' = disk.taken /\ unsaved' = {}
    /\ task' = NoTask /\ untrusted' = FALSE /\ backoff' = FALSE
    /\ wanted' = {} /\ making' = 0
    /\ UNCHANGED <<disk, buffered, troubles>>

-----------------------------------------------------------------------------

Kinds == {"heads", "orient", "camera", "posters"}
SweepStep ==
    \/ \E kind \in Kinds : Begin(kind)
    \/ ReadBatch \/ BookHeads \/ BookOrient \/ BookCamera \/ BookPosters
    \/ Probe
GenStep == GenPick \/ GenAsk \/ GenEnds
Flushing == \E store \in {"orient", "taken"} : Flush(store)

ThumbsNext ==
    \/ SweepStep \/ BackoffEnds \/ ImageProves
    \/ GenStep
    \/ \E s \in Photos : Buffer(s)
    \/ EvictFar
    \/ Flushing
    \/ Restart

ThumbsSpec == ThumbsInit /\ [][ThumbsNext]_tvars

(* The worker and the generator are woken every two seconds and every 400 ms,
   reads of the camera and decoders have a deadline. *)
ThumbsFairSpec ==
    /\ ThumbsSpec
    /\ WF_tvars(SweepStep) /\ WF_tvars(BackoffEnds) /\ WF_tvars(GenStep)
    /\ \A s \in Photos : WF_tvars(s \in wanted /\ Buffer(s))
    /\ WF_tvars(EvictFar)

-----------------------------------------------------------------------------

ThumbsTypeOK ==
    /\ thumb \in [Shooting -> {"missing", "have", "failed"}]
    /\ stalls \in [Shooting -> 0..4]
    /\ tried \subseteq Photos /\ known \subseteq Photos /\ timed \subseteq HEIFs
    /\ unsaved \subseteq {"orient", "taken"}
    /\ disk.files \in [Shooting -> {"none", "whole", "broken"}]
    /\ disk.impossible \subseteq Shooting /\ disk.orient \subseteq Photos /\ disk.taken \subseteq HEIFs
    /\ task.got \subseteq task.batch /\ task.short \cup task.banked \subseteq task.got
    /\ buffered \subseteq Photos /\ wanted \subseteq Photos /\ making \in Photos \cup {0}
    /\ {untrusted, backoff} \subseteq BOOLEAN

(* A thumbnail the clients are told of is a file in the cache, in this run of
   the program and in the next, and a whole one unless it was lifted out of a
   HEIF: no interrupted sweep, write that failed or crash between the two phases
   of a sweep leaves one that is served and can never be decoded.  A HEIF is
   excepted because of heifThumbFrom (orient.go:388-395): "not a JPEG: treat as
   absent rather than bank garbage", but a read that came back short begins like
   a JPEG, is banked, and no sweep or restart looks at it again. *)
WholeButHEIFs ==
    \A s \in Shooting : thumb[s] = "have" =>
        disk.files[s] = "whole" \/ (s \in HEIFs /\ disk.files[s] = "broken")

(* Every photo that can be decoded gets a thumbnail in the end and keeps it,
   whatever went wrong on the way: strikes, a sick camera, restarts that load
   the list of failures.  One the sweeps failed for, far from where the user
   looks, may stay without: its image is evicted at the end of the batch that
   brought it, maybe before the generator looks, and after four strikes it is
   not asked for again.  One lifted out of a HEIF may be broken: see
   WholeButHEIFs. *)
EveryThumbComes ==
    \A s \in Photos \ Undecodable :
        <>[](thumb[s] = "have" \/ (s \in Far /\ thumb[s] = "failed"))

(* The sweeps come to an end, with the orientation of every photo known: no
   file keeps the camera busy for ever. *)
SweepsFinish == <>[](task = NoTask /\ known = Photos)

(* A camera that answered garbage and was then repaired is trusted again
   without a restart. *)
TrustReturns == untrusted ~> ~untrusted
=============================================================================
