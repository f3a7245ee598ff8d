---------------------------- MODULE CameraLink ----------------------------
(***************************************************************************)
(* The camera link and who may talk on it (internal/cull/prefetch.go).     *)
(* The camera carries one conversation at a time.  The prefetcher's worker *)
(* has it by default, for batches of images, sweeps of thumbnails and      *)
(* heads, and probes of a camera that answered garbage.  An import or a    *)
(* video stream takes it over: it raises the pause count and waits until   *)
(* the worker's batch or sweep is over.  Pauses are counted, so one owner  *)
(* that is done does not let the worker loose on another.                  *)
(*                                                                         *)
(* Waiting is on a condition variable that is signalled every two seconds  *)
(* besides, so a wait is a guard.                                          *)
(***************************************************************************)
EXTENDS Naturals, FiniteSets

CONSTANTS
    Owners,     (* who pauses the prefetcher: the import, video streams *)
    Patience    (* TRUE if Close never runs into its deadline of 10 s *)

ASSUME OwnersAssumption == IsFiniteSet(Owners) /\ Patience \in BOOLEAN

VARIABLES
    worker,    (* what the worker does: "idle", "batch" (fetching > 0),
                  "sweep" (thumbCancel is set), "probe", "gone" *)
    pause,     (* the pause count *)
    owner,     (* owner[o]: "away", "draining" or "owns" *)
    closing    (* Close: "no", "draining", "done" *)

linkVars == <<worker, pause, owner, closing>>

(* What PauseAndDrain and Close wait for; a probe is neither a batch nor a
   sweep. *)
Drainable == {"batch", "sweep"}

LinkInit ==
    /\ worker = "idle"
    /\ pause = 0
    /\ owner = [o \in Owners |-> "away"]
    /\ closing = "no"

(* The head of Run's loop: something to do, and nobody has paused it. *)
StartWork(what) ==
    /\ worker = "idle" /\ pause = 0 /\ closing = "no"
    /\ worker' = what
    /\ UNCHANGED <<pause, owner, closing>>

EndWork(what) ==
    /\ worker = what
    /\ worker' = "idle"
    /\ UNCHANGED <<pause, owner, closing>>

WorkerLeaves ==
    /\ worker = "idle" /\ closing # "no"
    /\ worker' = "gone"
    /\ UNCHANGED <<pause, owner, closing>>

PauseAndDrain(o) ==
    /\ owner[o] = "away"
    /\ pause' = pause + 1
    /\ owner' = [owner EXCEPT ![o] = "draining"]
    /\ UNCHANGED <<worker, closing>>

\* Mutant of Drained: it forgets the sweeps.
DrainedOfImages(o) ==
    /\ owner[o] = "draining"
    /\ worker # "batch"
    /\ owner' = [owner EXCEPT ![o] = "owns"]
    /\ UNCHANGED <<worker, pause, closing>>

(* PauseAndDrain returns; the caller now believes the link is its own. *)
Drained(o) ==
    /\ owner[o] = "draining"
    /\ worker \notin Drainable
    /\ owner' = [owner EXCEPT ![o] = "owns"]
    /\ UNCHANGED <<worker, pause, closing>>

\* Mutant of Resume: pausing is a flag.
ResumeAll(o) ==
    /\ owner[o] = "owns"
    /\ pause' = 0
    /\ owner' = [owner EXCEPT ![o] = "away"]
    /\ UNCHANGED <<worker, closing>>

Resume(o) ==
    /\ owner[o] = "owns"
    /\ pause' = IF pause > 0 THEN pause - 1 ELSE pause
    /\ owner' = [owner EXCEPT ![o] = "away"]
    /\ UNCHANGED <<worker, closing>>

Close ==
    /\ closing = "no"
    /\ closing' = "draining"
    /\ UNCHANGED <<worker, pause, owner>>

(* Close has waited for the worker and for the conversions (busy). *)
CloseDrained(busy) ==
    /\ closing = "draining"
    /\ (worker \notin Drainable /\ ~busy) \/ ~Patience
    /\ closing' = "done"
    /\ UNCHANGED <<worker, pause, owner>>

-----------------------------------------------------------------------------

LinkTypeOK ==
    /\ worker \in {"idle", "batch", "sweep", "probe", "gone"}
    /\ pause \in Nat
    /\ owner \in [Owners -> {"away", "draining", "owns"}]
    /\ closing \in {"no", "draining", "done"}

(* Who was told that the link is free of the worker finds no batch and no
   sweep on it until it gives the link back, whatever the other owners do
   meanwhile. *)
LinkYielded == (\E o \in Owners : owner[o] = "owns") => worker \notin Drainable

(* The pause count is the number of those who paused and have not resumed. *)
PausesCounted == pause = Cardinality({o \in Owners : owner[o] # "away"})
=============================================================================
