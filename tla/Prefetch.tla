----------------------------- MODULE Prefetch -----------------------------
(***************************************************************************)
(* The prefetcher (internal/cull/prefetch.go): one worker keeps the photos *)
(* around the cursor in a cache of display files.  Readers wait for a      *)
(* file; what they ask for goes before the window and cancels a batch that *)
(* does not hold it.  Shots are numbered in the order of the catalog.      *)
(*                                                                         *)
(* A batch is picked under the lock, pulled by a goroutine of its own, and *)
(* its files are promoted one by one as they land, while readers, the user *)
(* and the owners of the link go on.  What the camera delivers (a file,    *)
(* nothing, garbage, another file) and when a backoff has elapsed is open. *)
(* Partial reads are available; a session that comes up short is followed  *)
(* by a one-shot pull within the same batch, which is part of the pull.    *)
(***************************************************************************)
EXTENDS CameraLink, Integers

CONSTANTS
    N,            (* photos and videos on the card *)
    Videos,       (* shots that are only pulled on demand *)
    Converted,    (* shots whose display file has to be derived (RAF, HEIF) *)
    Folder,       (* Folder[s]: the camera folder of a shot *)
    Ahead, Behind, EvictMargin,
    NearWindow,   (* nearWindow *)
    BatchSize,    (* bulkBatch() *)
    Readers,      (* goroutines inside Wait *)
    Faults,       (* "camera", "garbage", "rebound", "disk" *)
    MaxFaults,    (* bound: faults of a behaviour *)
    MaxInputs     (* bound: waits, clicks, moves of the cursor, readers that leave *)

Shots == 1..N

ASSUME CardAssumption ==
    /\ {N, Ahead, Behind, EvictMargin, NearWindow, MaxFaults, MaxInputs} \subseteq Nat
    /\ BatchSize \in Nat \ {0}
    /\ Videos \subseteq Shots /\ Converted \subseteq Shots \ Videos
    /\ DOMAIN Folder = Shots

VARIABLES
    cursor,
    state,       (* state[s]: "none", "fetching", "ready" or "failed" *)
    demand,      (* shots asked for explicitly *)
    reader,      (* reader[r]: the shot r waits for, or 0 *)
    step,        (* of a batch: "none", "picked", "pull", "dropping",
                    "failing" or "ended" *)
    targets,     (* the shots of the batch *)
    pending,     (* those fetchBatch is not finished with *)
    landed,      (* those of them whose file is complete *)
    cancelled,   (* imgCancel was called *)
    converting,  (* shots in the hands of the converter pool *)
    cached,      (* shots whose display file is in the cache *)
    heads,       (* the head sweep has something to do *)
    imageTurn,
    bulkSick, partSick,
    empty,       (* emptyBatches, up to 2 *)
    faults, inputs

batchVars == <<step, targets, pending, landed, cancelled>>
sickVars == <<bulkSick, partSick, empty>>
vars == <<linkVars, cursor, state, demand, reader, batchVars, converting, cached,
          heads, imageTurn, sickVars, faults, inputs>>

Fault(f) == f \in Faults /\ faults < MaxFaults /\ faults' = faults + 1
Input == inputs < MaxInputs /\ inputs' = inputs + 1

Init ==
    /\ LinkInit
    /\ cursor \in Shots
    /\ \E adopted \in SUBSET Shots :
          /\ cached = adopted
          /\ state = [s \in Shots |-> IF s \in adopted THEN "ready" ELSE "none"]
    /\ demand = {} /\ reader = [r \in Readers |-> 0]
    /\ step = "none" /\ targets = {} /\ pending = {} /\ landed = {} /\ cancelled = FALSE
    /\ converting = {}
    /\ heads \in BOOLEAN /\ imageTurn = FALSE
    /\ bulkSick = FALSE /\ partSick = FALSE /\ empty = 0
    /\ faults = 0 /\ inputs = 0

-----------------------------------------------------------------------------
(* Which shots to fetch next.  ripe: the failed shots whose backoff has     *)
(* elapsed; due: the breaker of a sick camera lets a probe through.         *)

Distance(s) == IF s < cursor THEN cursor - s ELSE s - cursor
Nearest(shots) == {s \in shots : \A t \in shots : Distance(s) <= Distance(t)}
FirstOf(n, shots) == {s \in shots : Cardinality({t \in shots : t < s}) < n}

Needed(ripe) ==
    {s \in Shots : (s \in Videos => s \in demand) /\ (state[s] = "none" \/ s \in ripe)}

(* A demanded photo heads a batch with the shots right after it in its folder
   and the window; a video goes alone. *)
DemandBatch(s, ripe) ==
    LET follows == {t \in Needed(ripe) :
                       /\ s < t /\ t <= cursor + Ahead
                       /\ \A u \in s..t : Folder[u] = Folder[s]}
    IN {s} \cup (IF s \in Videos THEN {} ELSE FirstOf(BatchSize - 1, follows))

(* The nearest shot of the window, ahead before behind, and more of its folder. *)
Window == {s \in Shots : cursor - Behind <= s /\ s <= cursor + Ahead}
WindowFirst(ripe) == {s \in Nearest(Needed(ripe) \cap Window) :
                         \A t \in Nearest(Needed(ripe) \cap Window) : t <= s}
WindowBatch(s, ripe) ==
    LET follows == {t \in Needed(ripe) :
                       /\ s < t /\ t <= cursor + Ahead /\ t <= s + Ahead + Behind
                       /\ Folder[t] = Folder[s]}
    IN {s} \cup FirstOf(BatchSize - 1, follows)

Picks(ripe, due) ==
    LET asked == demand \cap Needed(ripe)
    IN IF asked # {} THEN {DemandBatch(s, ripe) : s \in Nearest(asked)}
       ELSE IF bulkSick /\ ~due THEN {}
       ELSE {WindowBatch(s, ripe) : s \in WindowFirst(ripe)}

NearThin ==
    \E s \in Shots \ Videos :
       cursor < s /\ s <= cursor + Ahead /\ s <= cursor + NearWindow /\ state[s] = "none"

(* The window and the head sweep take turns. *)
HeadsTurn == imageTurn /\ demand = {} /\ heads /\ ~partSick /\ ~NearThin

Failed == {s \in Shots : state[s] = "failed"}

-----------------------------------------------------------------------------
(* The worker and its batch.                                               *)

StartPull ==
    /\ StartWork("batch")
    /\ ~HeadsTurn
    /\ \E ripe \in SUBSET Failed, due \in BOOLEAN : targets' \in Picks(ripe, due)
    /\ pending' = targets'
    /\ state' = [s \in Shots |-> IF s \in targets' THEN "fetching" ELSE state[s]]
    /\ imageTurn' = (imageTurn \/ demand = {})
    /\ step' = "picked"
    /\ UNCHANGED <<cursor, demand, reader, landed, cancelled, converting, cached, heads, sickVars,
                   faults, inputs>>

(* From here on a demand can cancel the batch. *)
Pull ==
    /\ step = "picked"
    /\ step' = "pull"
    /\ UNCHANGED <<linkVars, cursor, state, demand, reader, targets, pending, landed, cancelled,
                   converting, cached, heads, imageTurn, sickVars, faults, inputs>>

Land(s) ==
    /\ step = "pull" /\ ~cancelled
    /\ s \in pending \ landed
    /\ landed' = landed \cup {s}
    /\ UNCHANGED <<linkVars, cursor, state, demand, reader, step, targets, pending, cancelled,
                   converting, cached, heads, imageTurn, sickVars, faults, inputs>>

(* setState: a shot's outcome; it is no longer asked for. *)
Outcome(s, what) ==
    /\ state' = [state EXCEPT ![s] = what]
    /\ demand' = demand \ {s}

(* completeShot.  A valid file proves that the camera is well again. *)
Complete(s) ==
    \/ /\ Outcome(s, "ready")
       /\ cached' = cached \cup {s}
       /\ bulkSick' = FALSE
       /\ partSick' = (partSick /\ ~bulkSick)
       /\ UNCHANGED faults
    \/ /\ Fault("disk")
       /\ Outcome(s, "failed")
       /\ UNCHANGED <<cached, bulkSick, partSick>>

(* promote: a landed file is checked and becomes the shot's display file,
   now or once it is converted. *)
Promote(s) ==
    /\ step \in {"pull", "dropping", "failing"}
    /\ s \in landed
    /\ landed' = landed \ {s}
    /\ pending' = pending \ {s}
    /\ empty' = 0
    /\ \/ /\ Fault("garbage")
          /\ Outcome(s, "failed")
          /\ bulkSick' = TRUE
          /\ cancelled' = TRUE
          /\ UNCHANGED <<converting, cached, partSick>>
       \/ /\ Fault("rebound")
          /\ Outcome(s, "failed")
          /\ UNCHANGED <<cancelled, converting, cached, bulkSick, partSick>>
       \/ /\ s \in Converted
          /\ converting' = converting \cup {s}
          /\ UNCHANGED <<state, demand, cancelled, cached, bulkSick, partSick, faults>>
       \/ /\ s \notin Converted
          /\ Complete(s)
          /\ UNCHANGED <<cancelled, converting>>
    /\ UNCHANGED <<linkVars, cursor, reader, step, targets, heads, imageTurn, inputs>>

(* The pull is over: all landed, or it was cancelled, or it failed.  Whether
   it was cancelled is looked at here, once. *)
PullEnds ==
    /\ step = "pull"
    /\ \/ cancelled /\ step' = "dropping" /\ UNCHANGED faults
       \/ ~cancelled /\ pending = landed /\ step' = "failing" /\ UNCHANGED faults
       \/ ~cancelled /\ pending # landed /\ step' = "failing" /\ Fault("camera")
    /\ UNCHANGED <<linkVars, cursor, state, demand, reader, targets, pending, landed, cancelled,
                   converting, cached, heads, imageTurn, sickVars, inputs>>

\* Mutant of SortOut: a shot of a cancelled batch is left as it is.
SortOutForgets ==
    /\ step \in {"dropping", "failing"}
    /\ landed = {}
    /\ IF step = "dropping"
       THEN UNCHANGED <<state, demand, bulkSick, empty>>
       ELSE /\ state' = [s \in Shots |-> IF s \in pending THEN "failed" ELSE state[s]]
            /\ demand' = demand \ pending
            /\ UNCHANGED <<bulkSick, empty>>
    /\ pending' = {}
    /\ step' = "ended"
    /\ UNCHANGED <<linkVars, cursor, reader, targets, landed, cancelled, converting, cached, heads,
                   imageTurn, partSick, faults, inputs>>

(* What did not arrive is free again after a preemption, or failed.  Two
   batches in a row that brought nothing, without an error, trip the breaker. *)
SortOut ==
    /\ step \in {"dropping", "failing"}
    /\ landed = {}
    /\ IF step = "dropping"
       THEN /\ state' = [s \in Shots |-> IF s \in pending THEN "none" ELSE state[s]]
            /\ UNCHANGED <<demand, bulkSick, empty>>
       ELSE /\ state' = [s \in Shots |-> IF s \in pending THEN "failed" ELSE state[s]]
            /\ demand' = demand \ pending
            /\ \/ UNCHANGED <<bulkSick, empty>>
               \/ /\ pending = targets
                  /\ empty' = IF empty < 2 THEN empty + 1 ELSE empty
                  /\ bulkSick' = (bulkSick \/ empty' = 2)
    /\ pending' = {}
    /\ step' = "ended"
    /\ UNCHANGED <<linkVars, cursor, reader, targets, landed, cancelled, converting, cached, heads,
                   imageTurn, partSick, faults, inputs>>

(* The end of the cycle, in one critical section: files far from the cursor
   go. *)
Evict ==
    /\ EndWork("batch")
    /\ step = "ended"
    /\ LET gone == {s \in Shots : state[s] = "ready" /\ s \notin demand /\ Distance(s) > EvictMargin}
       IN /\ cached' = cached \ gone
          /\ state' = [s \in Shots |-> IF s \in gone THEN "none" ELSE state[s]]
    /\ step' = "none" /\ targets' = {} /\ cancelled' = FALSE
    /\ UNCHANGED <<cursor, demand, reader, pending, landed, converting, heads, imageTurn, sickVars,
                   faults, inputs>>

(* The converter pool works off the fetch loop. *)
Convert(s) ==
    /\ s \in converting
    /\ converting' = converting \ {s}
    /\ Complete(s)
    /\ UNCHANGED <<linkVars, cursor, reader, batchVars, heads, imageTurn, empty, inputs>>

(* Sweeps and probes; what a sweep does with its shots is in Sweeps. *)
StartSweep ==
    /\ StartWork("sweep")
    /\ HeadsTurn \/ \E ripe \in SUBSET Failed, due \in BOOLEAN : Picks(ripe, due) = {}
    /\ heads /\ ~partSick
    /\ imageTurn' = FALSE
    /\ UNCHANGED <<cursor, state, demand, reader, batchVars, converting, cached, heads, sickVars,
                   faults, inputs>>

EndSweep ==
    /\ EndWork("sweep")
    /\ heads' \in {heads, FALSE}
    /\ \/ partSick' = TRUE /\ Fault("garbage")
       \/ UNCHANGED <<partSick, faults>>
    /\ UNCHANGED <<cursor, state, demand, reader, batchVars, converting, cached, imageTurn,
                   bulkSick, empty, inputs>>

StartProbe ==
    /\ StartWork("probe")
    /\ partSick
    /\ ~HeadsTurn /\ \E ripe \in SUBSET Failed, due \in BOOLEAN : Picks(ripe, due) = {}
    /\ UNCHANGED <<cursor, state, demand, reader, batchVars, converting, cached, heads, imageTurn,
                   sickVars, faults, inputs>>

EndProbe ==
    /\ EndWork("probe")
    /\ partSick' \in BOOLEAN
    /\ heads' \in {heads, heads \/ ~partSick'}
    /\ UNCHANGED <<cursor, state, demand, reader, batchVars, converting, cached, imageTurn,
                   bulkSick, empty, faults, inputs>>

-----------------------------------------------------------------------------
(* Readers, the user, and the owners of the link.                          *)

\* Mutant of Demand: what is already there is not looked at, as in a first
\* version of Wait.
DemandAlways(s) ==
    /\ demand' = demand \cup {s}
    /\ state' = [state EXCEPT ![s] = IF @ = "fetching" THEN @ ELSE "none"]
    /\ cancelled' = (cancelled \/ (step = "pull" /\ state[s] # "fetching"))

(* A shot without outcome is asked for, and whatever batch is under way
   without it is cancelled. *)
Demand(s) ==
    /\ IF state[s] \in {"none", "failed"}
       THEN /\ demand' = demand \cup {s}
            /\ state' = [state EXCEPT ![s] = "none"]
       ELSE UNCHANGED <<demand, state>>
    /\ cancelled' = (cancelled \/ (step = "pull" /\ state[s] # "fetching"))

Wait(r, s) ==
    /\ reader[r] = 0 /\ Input
    /\ state[s] # "ready"
    /\ Demand(s)
    /\ reader' = [reader EXCEPT ![r] = s]
    /\ UNCHANGED <<linkVars, cursor, step, targets, pending, landed, converting, cached, heads,
                   imageTurn, sickVars, faults>>

Return(r) ==
    /\ reader[r] # 0
    /\ state[reader[r]] \in {"ready", "failed"}
    /\ reader' = [reader EXCEPT ![r] = 0]
    /\ UNCHANGED <<linkVars, cursor, state, demand, batchVars, converting, cached, heads, imageTurn,
                   sickVars, faults, inputs>>

(* The reader's context ends first. *)
GiveUp(r) ==
    /\ reader[r] # 0
    /\ Input
    /\ demand' = demand \ {reader[r]}
    /\ reader' = [reader EXCEPT ![r] = 0]
    /\ UNCHANGED <<linkVars, cursor, state, batchVars, converting, cached, heads, imageTurn,
                   sickVars, faults>>

Ensure(s) ==
    /\ Input
    /\ Demand(s)
    /\ UNCHANGED <<linkVars, cursor, reader, step, targets, pending, landed, converting, cached,
                   heads, imageTurn, sickVars, faults>>

Retry(s) ==
    /\ Input
    /\ state[s] = "failed"
    /\ state' = [state EXCEPT ![s] = "none"]
    /\ UNCHANGED <<linkVars, cursor, demand, reader, batchVars, converting, cached, heads, imageTurn,
                   sickVars, faults>>

SetCursor(i) ==
    /\ Input
    /\ cursor' = i
    /\ UNCHANGED <<linkVars, state, demand, reader, batchVars, converting, cached, heads, imageTurn,
                   sickVars, faults>>

restVars == <<cursor, state, demand, reader, step, targets, pending, landed, converting, cached, heads,
              imageTurn, sickVars, faults>>

Pause(o) == Input /\ PauseAndDrain(o) /\ UNCHANGED <<restVars, cancelled>>
OwnerStep(o) == Drained(o) \/ Resume(o)

CloseAll ==
    /\ Input /\ Close
    /\ cancelled' = (cancelled \/ step = "pull")
    /\ UNCHANGED restVars

-----------------------------------------------------------------------------

WorkerStep ==
    \/ StartPull \/ Pull \/ PullEnds \/ SortOut \/ Evict
    \/ \E s \in Shots : Promote(s)
    \/ StartSweep \/ EndSweep \/ StartProbe \/ EndProbe
    \/ WorkerLeaves /\ UNCHANGED <<restVars, cancelled, inputs>>
LinkStep(o) == OwnerStep(o) /\ UNCHANGED <<restVars, cancelled, inputs>>
UserStep ==
    \/ \E r \in Readers, s \in Shots : Wait(r, s)
    \/ \E r \in Readers : GiveUp(r)
    \/ \E s \in Shots : Ensure(s) \/ Retry(s) \/ SetCursor(s)
    \/ \E o \in Owners : Pause(o)
    \/ CloseAll

Next ==
    \/ WorkerStep
    \/ \E s \in Shots : Land(s) \/ Convert(s)
    \/ \E r \in Readers : Return(r)
    \/ \E o \in Owners : LinkStep(o)
    \/ CloseDrained(converting # {}) /\ UNCHANGED <<restVars, cancelled, inputs>>
    \/ UserStep

Spec == Init /\ [][Next]_vars

(* A pull has a deadline (60 s and 15 s for each file) and a conversion one
   of 60 s; the worker is woken every two seconds; a woken reader runs; an
   import ends and a stream that is not read from is closed after 20 s. *)
FairSpec ==
    /\ Spec
    /\ WF_vars(WorkerStep) /\ SF_vars(StartPull)
    /\ \A s \in Shots : WF_vars(Land(s)) /\ WF_vars(Convert(s))
    /\ \A r \in Readers : WF_vars(Return(r))
    /\ \A o \in Owners : WF_vars(LinkStep(o))

-----------------------------------------------------------------------------

TypeOK ==
    /\ LinkTypeOK
    /\ cursor \in Shots
    /\ state \in [Shots -> {"none", "fetching", "ready", "failed"}]
    /\ reader \in [Readers -> Shots \cup {0}]
    /\ step \in {"none", "picked", "pull", "dropping", "failing", "ended"}
    /\ demand \subseteq Shots /\ converting \subseteq Shots /\ cached \subseteq Shots
    /\ targets \subseteq Shots /\ pending \subseteq targets /\ landed \subseteq pending
    /\ {cancelled, heads, imageTurn, bulkSick, partSick} \subseteq BOOLEAN
    /\ empty \in 0..2 /\ faults \in Nat /\ inputs \in Nat
    /\ worker = "batch" <=> step # "none"

(* A shot is "fetching" exactly while the batch or the converter pool has
   it: no shot is left in a state nobody will ever end, and none is pulled
   again into the file that is still being converted. *)
FetchingIsOwned ==
    /\ {s \in Shots : state[s] = "fetching"} = pending \cup converting
    /\ pending \cap converting = {}

(* The path a reader is given, and what an import takes from the cache, is a
   file that is there; and nothing is asked for that is there. *)
ReadyIsCached ==
    /\ {s \in Shots : state[s] = "ready"} = cached
    /\ demand \cap cached = {}

(* As long as a reader's shot is asked for, or is a photo in the window, the
   reader is on its way to an answer, whatever other readers, the user and
   the camera do, and however often its batch is cancelled. *)
Owed(r) == reader[r] \in demand \/ reader[r] \in Window \ Videos
OwedIsServed ==
    \A r \in Readers :
       (reader[r] # 0 /\ Owed(r)) ~> (reader[r] = 0 \/ ~Owed(r) \/ closing # "no")

(* prefetch.go:823-824: "Wait blocks until the shot's display file is cached
   (or failed), triggering a priority fetch if needed." *)
Served == \A r \in Readers : (reader[r] # 0) ~> (reader[r] = 0 \/ closing # "no")
=============================================================================
