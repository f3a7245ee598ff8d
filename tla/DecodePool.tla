----------------------------- MODULE DecodePool -----------------------------
(***************************************************************************)
(* The decode pool of the desktop client (cmd/fuji-cull-gui/main.go):      *)
(* workers decode the photos around the cursor from the engine's buffer,   *)
(* fitted to the stage, and the one being looked at in full.  Only the     *)
(* photo under the cursor may make a worker wait for the camera.  Every    *)
(* frame names the window anew and cancels what is no longer wanted.       *)
(*                                                                         *)
(* Photos are numbered as in the catalog.  A decoded frame is its width;   *)
(* all frames have the same width of their own.                            *)
(***************************************************************************)
EXTENDS Naturals, FiniteSets

CONSTANTS
    Pics,          (* photos, neighbours being consecutive *)
    Broken,        (* those whose file cannot be decoded *)
    Native,        (* the width of a photo; stages are narrower *)
    LookAhead, LookBehind,    (* decodeAhead, decodeBehind *)
    MaxWaiters,    (* maxFetchWaiters *)
    PoolWorkers,
    MaxMoves,      (* bound: moves of the cursor, resizes, settlings *)
    MaxSlips       (* bound: fetches that fail, files that leave the buffer *)

ASSUME PoolAssumption ==
    /\ Pics \subseteq Nat \ {0} /\ Broken \subseteq Pics /\ Native \in Nat \ {0}
    /\ {LookAhead, LookBehind, MaxMoves, MaxSlips} \subseteq Nat
    /\ MaxWaiters \in Nat \ {0} /\ IsFiniteSet(PoolWorkers)

VARIABLES
    looking,    (* the photo under the cursor, p.want[0]; 0 before the first frame *)
    box,        (* boxW *)
    fullWant,   (* or 0 *)
    job,        (* job[w]: [id, at, width, waits, cancelled, fine] *)
    waiters,
    done,       (* done[i]: the width that has been decoded, or 0 *)
    ready,      (* photos in the engine's buffer *)
    failing,    (* history: photos whose decode failed within three seconds *)
    moves, slips

poolVars == <<looking, box, fullWant, job, waiters, done, ready, failing, moves, slips>>

NoJob == [id |-> 0, at |-> "idle", width |-> 0, waits |-> FALSE, cancelled |-> FALSE, fine |-> FALSE]
Moves == moves < MaxMoves /\ moves' = moves + 1
Slip == slips < MaxSlips /\ slips' = slips + 1

PoolInit ==
    /\ looking = 0 /\ box = 1 /\ fullWant = 0
    /\ job = [w \in PoolWorkers |-> NoJob] /\ waiters = {}
    /\ done = [i \in Pics |-> 0]
    /\ ready \in SUBSET Pics /\ failing = {}
    /\ moves = 0 /\ slips = 0

-----------------------------------------------------------------------------
(* What is wanted: the photo under the cursor, then ahead before behind.   *)

Wanted(c) == {i \in Pics : c # 0 /\ i <= c + LookAhead /\ c <= i + LookBehind}
Rank(i) == IF i > looking THEN 2 * (i - looking) - 1 ELSE 2 * (looking - i)

(* SetWant and Prune (updateWants).  Who waits for the camera goes on only
   for the photo under the cursor. *)
SetWant(c) ==
    /\ Moves
    /\ c # looking /\ looking' = c
    /\ job' = [w \in PoolWorkers |->
          [job[w] EXCEPT !.cancelled = @ \/ job[w].id \notin Wanted(c)
                                         \/ (job[w].id \in waiters /\ job[w].id # c)]]
    /\ done' = [i \in Pics |-> IF i \in Wanted(c) THEN done[i] ELSE 0]
    /\ failing' = failing \cap Wanted(c)
    /\ UNCHANGED <<box, fullWant, waiters, ready, slips>>

(* A larger stage drops the fitted frames. *)
SetBox(b) ==
    /\ Moves
    /\ b # box /\ box' = b
    /\ done' = [i \in Pics |-> IF b > box /\ done[i] < Native THEN 0 ELSE done[i]]
    /\ UNCHANGED <<looking, fullWant, job, waiters, ready, failing, slips>>

(* The cursor has settled, or the photo is zoomed in. *)
WantFull ==
    /\ Moves
    /\ looking # 0 /\ fullWant' = looking
    /\ UNCHANGED <<looking, box, job, waiters, done, ready, failing, slips>>

(* Get: a failure is forgotten after three seconds. *)
Get(i) ==
    /\ i \in failing
    /\ failing' = failing \ {i}
    /\ UNCHANGED <<looking, box, fullWant, job, waiters, done, ready, moves, slips>>

-----------------------------------------------------------------------------
(* The workers.                                                            *)

InFlight == {job[w].id : w \in PoolWorkers} \ {0}
NeedsWork(i) == i \notin InFlight /\ (done[i] = 0 \/ (done[i] < Native /\ i = fullWant))

(* From the buffer, or, for the photo under the cursor, from the camera. *)
Claimable(i) ==
    NeedsWork(i) /\ (i \in ready \/ (i = looking /\ Cardinality(waiters) < MaxWaiters))

(* next *)
NextInLine(i) ==
    /\ i \in Wanted(looking) /\ Claimable(i)
    /\ \A j \in Wanted(looking) : Claimable(j) => Rank(i) <= Rank(j)

Claim(w) ==
    /\ job[w].at = "idle"
    /\ \E i \in Pics :
          /\ NextInLine(i)
          /\ job' = [job EXCEPT ![w] = [NoJob EXCEPT
                 !.id = i, !.at = "wait", !.waits = (i \notin ready),
                 !.width = IF i = fullWant THEN Native ELSE box]]
          /\ waiters' = IF i \in ready THEN waiters ELSE waiters \cup {i}
    /\ UNCHANGED <<looking, box, fullWant, done, ready, failing, moves, slips>>

Waiting(w) == job[w].at = "wait"

\* Mutant of WaitReturns: who was cancelled is still counted as waiting.
WaitReturnsCounted(w) ==
    /\ Waiting(w)
    /\ \/ job[w].id \in ready /\ job' = [job EXCEPT ![w].at = "decode"] /\ UNCHANGED slips
       \/ /\ job[w].id \notin ready
          /\ (job[w].cancelled /\ UNCHANGED slips) \/ Slip
          /\ job' = [job EXCEPT ![w].at = "bank"]
    /\ waiters' = IF job[w].waits /\ ~job[w].cancelled THEN waiters \ {job[w].id} ELSE waiters
    /\ UNCHANGED <<looking, box, fullWant, done, ready, failing, moves>>

(* WaitImage: a path, the end of the context, or a fetch that failed. *)
WaitReturns(w) ==
    /\ Waiting(w)
    /\ \/ job[w].id \in ready /\ job' = [job EXCEPT ![w].at = "decode"] /\ UNCHANGED slips
       \/ /\ job[w].id \notin ready
          /\ (job[w].cancelled /\ UNCHANGED slips) \/ Slip
          /\ job' = [job EXCEPT ![w].at = "bank"]
    /\ waiters' = IF job[w].waits THEN waiters \ {job[w].id} ELSE waiters
    /\ UNCHANGED <<looking, box, fullWant, done, ready, failing, moves>>

Decode(w) ==
    /\ job[w].at = "decode"
    /\ job' = [job EXCEPT ![w].at = "bank", ![w].fine = job[w].id \in ready \ Broken]
    /\ UNCHANGED <<looking, box, fullWant, waiters, done, ready, failing, moves, slips>>

(* The worker cancels its own context, to release the timer, before it asks
   whether the context had been cancelled: so no failure is ever banked. *)
Bank(w) ==
    /\ job[w].at = "bank"
    /\ done' = IF job[w].fine THEN [done EXCEPT ![job[w].id] = job[w].width] ELSE done
    /\ failing' = IF job[w].fine THEN failing \ {job[w].id}
                  ELSE IF job[w].cancelled THEN failing ELSE failing \cup {job[w].id}
    /\ job' = [job EXCEPT ![w] = NoJob]
    /\ UNCHANGED <<looking, box, fullWant, waiters, ready, moves, slips>>

-----------------------------------------------------------------------------
(* The engine (see Prefetch): it pulls what a worker waits for, and more.  *)

Buffered(i) ==
    /\ i \notin ready
    /\ ready' = ready \cup {i}
    /\ UNCHANGED <<looking, box, fullWant, job, waiters, done, failing, moves, slips>>

Vanishes(i) ==
    /\ i \in ready /\ Slip
    /\ ready' = ready \ {i}
    /\ UNCHANGED <<looking, box, fullWant, job, waiters, done, failing, moves>>

-----------------------------------------------------------------------------

WorkerLoop(w) == Claim(w) \/ WaitReturns(w) \/ Decode(w) \/ Bank(w)
Demanded(i) == \E w \in PoolWorkers : Waiting(w) /\ job[w].id = i /\ ~job[w].cancelled

PoolNext ==
    \/ \E c \in Pics : SetWant(c) \/ Get(c) \/ Buffered(c) \/ Vanishes(c)
    \/ \E b \in 1..(Native - 1) : SetBox(b)
    \/ WantFull
    \/ \E w \in PoolWorkers : WorkerLoop(w)

PoolSpec == PoolInit /\ [][PoolNext]_poolVars

(* A worker never stops; the engine serves who waits (OwedIsServed of
   Prefetch). *)
PoolFairSpec ==
    /\ PoolSpec
    /\ \A w \in PoolWorkers : WF_poolVars(WorkerLoop(w))
    /\ \A i \in Pics : WF_poolVars(Demanded(i) /\ Buffered(i))

-----------------------------------------------------------------------------

PoolTypeOK ==
    /\ looking \in Pics \cup {0} /\ box \in 1..Native /\ fullWant \in Pics \cup {0}
    /\ \A w \in PoolWorkers :
          /\ job[w].id \in Pics \cup {0} /\ job[w].width \in 0..Native
          /\ job[w].at \in {"idle", "wait", "decode", "bank"}
          /\ job[w].at = "idle" <=> job[w].id = 0
    /\ Cardinality(InFlight) = Cardinality({w \in PoolWorkers : job[w].id # 0})
    /\ waiters \subseteq InFlight
    /\ done \in [Pics -> 0..Native] /\ ready \subseteq Pics /\ failing \subseteq Pics

(* The photo the user stays on is decoded in the end, whatever workers were
   waiting for when he came, and whatever else in the window cannot be. *)
CursorDecoded == \A i \in Pics \ Broken : (looking = i) ~> (looking # i \/ done[i] # 0)

(* main.go:219-220: "A banked error is left alone for Get to expire and
   retry", three seconds later. *)
FailuresRest == failing \cap InFlight = {}

(* main.go:141-142: "Growing it drops the fitted frames on hand so they come
   back sharp enough for the new stage." *)
SharpEnough == \A i \in Pics : done[i] # 0 => done[i] >= box
=============================================================================
