------------------------------ MODULE Previews ------------------------------
(***************************************************************************)
(* Downscaled previews (internal/cull/preview.go) as GET /api/image makes  *)
(* them: of one shot, in one size.  Concurrent requests share one encode;  *)
(* the first one's goroutine does it, aside, and renames the result.  The  *)
(* preview goes with the full frame.  Orientation is baked in, if it is    *)
(* known by then: it is harvested from the frame once that is buffered.    *)
(***************************************************************************)
EXTENDS Naturals, FiniteSets

CONSTANTS
    Requests,      (* goroutines of the server *)
    MaxJobs,       (* bound: encodes *)
    MaxPulls,      (* bound: pulls of the frame *)
    MaxSpoilt      (* bound: encodes that fail *)

ASSUME PreviewsAssumption == {MaxJobs, MaxPulls, MaxSpoilt} \subseteq Nat

VARIABLES
    frame,      (* the buffered frame: "none", "ready" *)
    turned,     (* its orientation is known *)
    preview,    (* the file: "none", "upright", "sideways" or "torn" *)
    writing,    (* who writes the file aside *)
    jobs,       (* jobs so far *)
    jobOf,      (* previewJobs: the job of this path, or 0 *)
    job,        (* job[j]: "new", "running", "done" or "failed" *)
    getter,     (* getter[r]: [at, job] *)
    served,     (* served[r]: what the last request was sent *)
    pulls, spoilt

previewVars == <<frame, turned, preview, writing, jobs, jobOf, job, getter, served, pulls, spoilt>>

Resting == [at |-> "idle", job |-> 0]

PreviewsInit ==
    /\ frame = "none" /\ turned \in BOOLEAN /\ preview = "none" /\ writing = {}
    /\ jobs = 0 /\ jobOf = 0 /\ job = [j \in 1..MaxJobs |-> "new"]
    /\ getter = [r \in Requests |-> Resting]
    /\ served = [r \in Requests |-> "none"]
    /\ pulls = 0 /\ spoilt = 0

Go(r, at) == getter' = [getter EXCEPT ![r].at = at]
Doing(r, at) == getter[r].at = at
Serve(r, what) == served' = [served EXCEPT ![r] = what] /\ getter' = [getter EXCEPT ![r] = Resting]

-----------------------------------------------------------------------------
(* The frame: a pull completes, its orientation is learnt after that.      *)

Pull ==
    /\ frame = "none" /\ pulls < MaxPulls /\ pulls' = pulls + 1
    /\ frame' = "ready"
    /\ UNCHANGED <<turned, preview, writing, jobs, jobOf, job, getter, served, spoilt>>

HarvestOrient ==
    /\ frame = "ready" /\ ~turned
    /\ turned' = TRUE
    /\ UNCHANGED <<frame, preview, writing, jobs, jobOf, job, getter, served, pulls, spoilt>>

(* evictLocked, removePreviews *)
Evict ==
    /\ frame = "ready" /\ pulls < MaxPulls
    /\ frame' = "none" /\ preview' = "none"
    /\ UNCHANGED <<turned, writing, jobs, jobOf, job, getter, served, pulls, spoilt>>

-----------------------------------------------------------------------------
(* GET /api/image                                                          *)

Get(r) ==
    /\ Doing(r, "idle")
    /\ jobs < MaxJobs
    /\ IF preview # "none" THEN Serve(r, preview) ELSE Go(r, "wait") /\ UNCHANGED served
    /\ UNCHANGED <<frame, turned, preview, writing, jobs, jobOf, job, pulls, spoilt>>

(* Wait, and PreviewPath's look at the cache. *)
FrameReady(r) ==
    /\ Doing(r, "wait") /\ frame = "ready"
    /\ IF preview # "none" THEN Serve(r, preview) ELSE Go(r, "claim") /\ UNCHANGED served
    /\ UNCHANGED <<frame, turned, preview, writing, jobs, jobOf, job, pulls, spoilt>>

(* LoadOrStore *)
Claim(r) ==
    /\ Doing(r, "claim")
    /\ IF jobOf # 0
       THEN UNCHANGED <<jobs, jobOf>> /\ getter' = [getter EXCEPT ![r] = [at |-> "once", job |-> jobOf]]
       ELSE /\ jobs < MaxJobs /\ jobs' = jobs + 1 /\ jobOf' = jobs'
            /\ getter' = [getter EXCEPT ![r] = [at |-> "once", job |-> jobs']]
    /\ UNCHANGED <<frame, turned, preview, writing, job, served, pulls, spoilt>>

\* Mutant of RunOnce: the entry of the job is removed when it starts.
RunOnceForgotten(r) ==
    LET j == getter[r].job
    IN /\ Doing(r, "once") /\ job[j] = "new"
       /\ job' = [job EXCEPT ![j] = "running"]
       /\ jobOf' = 0
       /\ Go(r, "decode")
       /\ UNCHANGED <<frame, turned, preview, writing, jobs, served, pulls, spoilt>>

(* once.Do: the first runs it, the others wait for it. *)
RunOnce(r) ==
    LET j == getter[r].job
    IN /\ Doing(r, "once") /\ job[j] = "new"
       /\ job' = [job EXCEPT ![j] = "running"]
       /\ Go(r, "decode")
       /\ UNCHANGED <<frame, turned, preview, writing, jobs, jobOf, served, pulls, spoilt>>

JoinOnce(r) ==
    /\ Doing(r, "once") /\ job[getter[r].job] \in {"done", "failed"}
    /\ Serve(r, IF job[getter[r].job] = "failed" THEN "frame" ELSE preview)
    /\ UNCHANGED <<frame, turned, preview, writing, jobs, jobOf, job, pulls, spoilt>>

(* generatePreview: the frame is decoded, if it is still there. *)
Decode(r) ==
    /\ Doing(r, "decode")
    /\ \/ /\ frame = "ready"
          /\ writing' = writing \cup {r}
          /\ Go(r, IF turned THEN "upright" ELSE "sideways")
          /\ UNCHANGED <<job, jobOf, served, spoilt>>
       \/ /\ \/ frame = "none" /\ UNCHANGED spoilt
             \/ spoilt < MaxSpoilt /\ spoilt' = spoilt + 1
          /\ job' = [job EXCEPT ![getter[r].job] = "failed"]
          /\ jobOf' = 0
          /\ Serve(r, "frame")
          /\ UNCHANGED writing
    /\ UNCHANGED <<frame, turned, preview, jobs, pulls>>

(* The rename: two writers of the same file aside leave a torn one. *)
Rename(r) ==
    /\ getter[r].at \in {"upright", "sideways"}
    /\ preview' = IF writing = {r} THEN getter[r].at ELSE "torn"
    /\ writing' = writing \ {r}
    /\ Go(r, "forget")
    /\ UNCHANGED <<frame, turned, jobs, jobOf, job, served, pulls, spoilt>>

\* Mutant of Forget: the others are not told.
ForgetAlone(r) ==
    /\ Doing(r, "forget")
    /\ jobOf' = 0
    /\ Serve(r, preview)
    /\ UNCHANGED <<frame, turned, preview, writing, jobs, job, pulls, spoilt>>

Forget(r) ==
    /\ Doing(r, "forget")
    /\ jobOf' = 0
    /\ job' = [job EXCEPT ![getter[r].job] = "done"]
    /\ Serve(r, preview)
    /\ UNCHANGED <<frame, turned, preview, writing, jobs, pulls, spoilt>>

-----------------------------------------------------------------------------

GetStep(r) ==
    FrameReady(r) \/ Claim(r) \/ RunOnce(r) \/ JoinOnce(r) \/ Decode(r) \/ Rename(r) \/ Forget(r)

PreviewsNext ==
    \/ Pull \/ HarvestOrient \/ Evict
    \/ \E r \in Requests : Get(r) \/ GetStep(r)

PreviewsSpec == PreviewsInit /\ [][PreviewsNext]_previewVars

(* Decoders end; the prefetcher pulls what somebody waits for (see Prefetch). *)
PreviewsFairSpec ==
    /\ PreviewsSpec
    /\ WF_previewVars(Pull)
    /\ \A r \in Requests : WF_previewVars(GetStep(r))

-----------------------------------------------------------------------------

PreviewsTypeOK ==
    /\ frame \in {"none", "ready"} /\ turned \in BOOLEAN
    /\ preview \in {"none", "upright", "sideways", "torn"}
    /\ writing \subseteq Requests /\ jobs \in 0..MaxJobs /\ jobOf \in 0..jobs
    /\ \A r \in Requests : getter[r].job \in 0..jobs

(* Nobody is ever sent, and the cache never holds, a preview that two
   goroutines wrote at once: a request that comes while one is encoded joins
   it, one that comes later finds the file or starts over after it. *)
PreviewWhole == preview # "torn" /\ \A r \in Requests : served[r] # "torn"

(* Every request for a preview is answered: by a preview, or by the frame. *)
PreviewAnswered ==
    \A r \in Requests : ~Doing(r, "idle") /\ jobs < MaxJobs ~> Doing(r, "idle") \/ jobs = MaxJobs

(* preview.go:123-124: "jpeg.Encode writes no EXIF, so bake orientation into
   the pixels - otherwise every portrait frame would come back sideways." *)
PreviewUpright == \A r \in Requests : served[r] # "sideways"
=============================================================================
