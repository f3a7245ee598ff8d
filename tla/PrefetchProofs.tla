-------------------------- MODULE PrefetchProofs --------------------------
(***************************************************************************)
(* Proofs about the prefetcher, for any card, window, batch size, number   *)
(* of readers and owners, and with every fault; about its thumbnails, for  *)
(* any catalog; about the decode pool of the desktop client, for which it  *)
(* pulls, for any number of workers; and about the three in one instance   *)
(* (MCCamera).                                                             *)
(***************************************************************************)
EXTENDS MCCamera, CameraLinkProofs, Functions

-----------------------------------------------------------------------------
(* The inductive invariant.                                                *)

(* The worker fetches exactly while there is a batch, and a batch that is
   over has no files left. *)
BatchPhases ==
    /\ step \in {"none", "ended"} => pending = {}
    /\ step = "none" => targets = {}

Inv == TypeOK /\ PausesCounted /\ LinkYielded /\ BatchPhases /\ FetchingIsOwned /\ ReadyIsCached

(* What the proofs below read of the types. *)
Types ==
    /\ worker \in {"idle", "batch", "sweep", "probe", "gone"}
    /\ state \in [Shots -> {"none", "fetching", "ready", "failed"}]
    /\ step \in {"none", "picked", "pull", "dropping", "failing", "ended"}
    /\ demand \subseteq Shots /\ converting \subseteq Shots /\ cached \subseteq Shots
    /\ targets \subseteq Shots /\ pending \subseteq targets /\ landed \subseteq pending
    /\ worker = "batch" <=> step # "none"

LEMMA TypesOf == TypeOK => Types
  BY DEF TypeOK, Types, LinkTypeOK

-----------------------------------------------------------------------------
(* Picking.                                                                *)

(* A batch holds only shots that need fetching. *)
LEMMA PicksAreNeeded ==
  ASSUME NEW ripe, NEW due, NEW batch \in Picks(ripe, due)
  PROVE  batch \subseteq Needed(ripe)
  <1>1. ASSUME NEW n, NEW shots PROVE FirstOf(n, shots) \subseteq shots
    BY DEF FirstOf
  <1>2. ASSUME NEW s \in Needed(ripe) PROVE DemandBatch(s, ripe) \subseteq Needed(ripe)
    BY <1>1 DEF DemandBatch
  <1>3. ASSUME NEW s \in Needed(ripe) PROVE WindowBatch(s, ripe) \subseteq Needed(ripe)
    BY <1>1 DEF WindowBatch
  <1>4. ASSUME NEW shots PROVE Nearest(shots) \subseteq shots
    BY DEF Nearest
  <1>5. WindowFirst(ripe) \subseteq Needed(ripe)
    BY <1>4 DEF WindowFirst
  <1> QED BY <1>2, <1>3, <1>4, <1>5 DEF Picks

(* What needs fetching is neither being fetched nor there. *)
LEMMA NeededAreFree ==
  ASSUME NEW ripe \in SUBSET Failed, NEW s \in Needed(ripe)
  PROVE  s \in Shots /\ state[s] \in {"none", "failed"}
  BY DEF Needed, Failed

-----------------------------------------------------------------------------
(* The steps, seen from the link.                                          *)

LEMMA StepsOfLink == [Next]_vars => [LinkNext]_linkVars
  <1> SUFFICES ASSUME [Next]_vars PROVE [LinkNext]_linkVars
    OBVIOUS
  <1>1. CASE WorkerStep
    BY <1>1 DEF WorkerStep, StartPull, Pull, PullEnds, SortOut, Evict, Promote, StartSweep, EndSweep,
                StartProbe, EndProbe, LinkNext
  <1>2. CASE UserStep
    BY <1>2 DEF UserStep, Wait, GiveUp, Ensure, Retry, SetCursor, Pause, CloseAll, LinkNext
  <1>3. CASE \E s \in Shots : Land(s) \/ Convert(s)
    BY <1>3 DEF Land, Convert
  <1>4. CASE \E r \in Readers : Return(r)
    BY <1>4 DEF Return
  <1>5. CASE \E o \in Owners : LinkStep(o)
    BY <1>5 DEF LinkStep, OwnerStep, LinkNext
  <1>6. CASE CloseDrained(converting # {})
    BY <1>6 DEF LinkNext
  <1>7. CASE UNCHANGED vars
    BY <1>7 DEF vars
  <1> QED BY <1>1, <1>2, <1>3, <1>4, <1>5, <1>6, <1>7 DEF Next

-----------------------------------------------------------------------------
(* The steps that move a shot from one state to another.                   *)

Core == BatchPhases /\ FetchingIsOwned /\ ReadyIsCached
Parts == <<worker, state, step, demand, converting, cached, targets, pending, landed>>
Kept == Types' /\ Core'

LEMMA StartPullKeeps ==
  ASSUME Types, Core, StartPull
  PROVE  Kept
  <1>1. PICK ripe \in SUBSET Failed, due \in BOOLEAN : targets' \in Picks(ripe, due)
    BY DEF StartPull
  <1>2. \A s \in targets' : s \in Shots /\ state[s] \in {"none", "failed"}
    BY <1>1, PicksAreNeeded, NeededAreFree
  <1>3. worker = "idle" /\ worker' = "batch" /\ step = "none" /\ step' = "picked" /\ pending = {}
    BY DEF StartPull, StartWork, Types, Core, BatchPhases
  <1>4. /\ pending' = targets' /\ landed' = {}
        /\ state' = [s \in Shots |-> IF s \in targets' THEN "fetching" ELSE state[s]]
        /\ UNCHANGED <<demand, converting, cached>>
    BY <1>3 DEF StartPull, Types
  <1>5. Types'
    BY <1>2, <1>3, <1>4 DEF Types
  <1>6. FetchingIsOwned'
    <2>1. converting \cap targets' = {}
      BY <1>2 DEF Core, FetchingIsOwned, Types
    <2> QED BY <1>2, <1>3, <1>4, <2>1 DEF Core, FetchingIsOwned, Types
  <1>7. ReadyIsCached'
    BY <1>2, <1>3, <1>4 DEF Core, ReadyIsCached, Types
  <1> QED BY <1>3, <1>5, <1>6, <1>7 DEF Kept, Core, BatchPhases

(* A shot gets its outcome, which is "ready" exactly if its file is cached. *)
LEMMA OutcomeKeeps ==
  ASSUME Types, Core, NEW s \in Shots, NEW what, Outcome(s, what),
         UNCHANGED <<worker, step, targets>>,
         s \in pending \cup converting,
         pending' = pending \ {s}, landed' = landed \ {s}, converting' = converting \ {s},
         \/ what = "ready" /\ cached' = cached \cup {s}
         \/ what = "failed" /\ cached' = cached
  PROVE  Kept
  <1>1. state[s] = "fetching"
    BY DEF Core, FetchingIsOwned
  <1>2. Types' /\ BatchPhases'
    BY DEF Types, Outcome, Core, BatchPhases
  <1>3. FetchingIsOwned'
    BY DEF Core, FetchingIsOwned, Types, Outcome
  <1>4. ReadyIsCached'
    BY <1>1 DEF Core, ReadyIsCached, Types, Outcome
  <1> QED BY <1>2, <1>3, <1>4 DEF Kept, Core

LEMMA CompleteKeeps ==
  ASSUME Types, Core, NEW s \in Shots, Complete(s),
         UNCHANGED <<worker, step, targets>>, s \in pending \cup converting,
         pending' = pending \ {s}, landed' = landed \ {s}, converting' = converting \ {s}
  PROVE  Kept
  <1>1. CASE Outcome(s, "ready") /\ cached' = cached \cup {s}
    BY <1>1, OutcomeKeeps
  <1>2. CASE Outcome(s, "failed") /\ cached' = cached
    BY <1>2, OutcomeKeeps
  <1> QED BY <1>1, <1>2 DEF Complete

LEMMA PromoteKeeps ==
  ASSUME Types, Core, NEW s \in Shots, Promote(s)
  PROVE  Kept
  <1>1. /\ s \in landed /\ s \in pending /\ s \notin converting
        /\ landed' = landed \ {s} /\ pending' = pending \ {s}
        /\ UNCHANGED <<worker, step, targets>>
    BY DEF Promote, linkVars, Types, Core, FetchingIsOwned
  <1>2. CASE Outcome(s, "failed") /\ UNCHANGED <<converting, cached>>
    BY <1>1, <1>2, OutcomeKeeps
  <1>3. CASE converting' = converting \cup {s} /\ UNCHANGED <<state, demand, cached>>
    <2>1. Types'
      BY <1>1, <1>3 DEF Types
    <2>2. BatchPhases'
      BY <1>1, <1>3 DEF Core, BatchPhases
    <2>3. FetchingIsOwned' /\ ReadyIsCached'
      BY <1>1, <1>3 DEF Core, FetchingIsOwned, ReadyIsCached
    <2> QED BY <2>1, <2>2, <2>3 DEF Kept, Core
  <1>4. CASE Complete(s) /\ UNCHANGED converting
    BY <1>1, <1>4, CompleteKeeps
  <1> QED BY <1>2, <1>3, <1>4 DEF Promote

LEMMA ConvertKeeps ==
  ASSUME Types, Core, NEW s \in Shots, Convert(s)
  PROVE  Kept
  <1>1. /\ s \in converting /\ s \notin pending /\ s \notin landed
        /\ converting' = converting \ {s}
        /\ UNCHANGED <<worker, step, targets, pending, landed>> /\ Complete(s)
    BY DEF Convert, linkVars, batchVars, Types, Core, FetchingIsOwned
  <1> QED BY <1>1, CompleteKeeps

LEMMA SortOutKeeps ==
  ASSUME Types, Core, SortOut
  PROVE  Kept
  <1>1. /\ step \in {"dropping", "failing"} /\ step' = "ended"
        /\ landed = {} /\ landed' = {} /\ pending' = {}
        /\ UNCHANGED <<worker, targets, converting, cached>>
    BY DEF SortOut, linkVars
  <1>2. PICK what \in {"none", "failed"} :
           state' = [s \in Shots |-> IF s \in pending THEN what ELSE state[s]]
    BY DEF SortOut
  <1>3. demand' \subseteq demand
    BY DEF SortOut
  <1>4. \A s \in pending : s \in Shots /\ state[s] = "fetching"
    BY DEF Core, FetchingIsOwned
  <1>5. Types' /\ BatchPhases'
    BY <1>1, <1>2, <1>3 DEF Types, Core, BatchPhases
  <1>6. FetchingIsOwned'
    BY <1>1, <1>2, <1>4 DEF Core, FetchingIsOwned, Types
  <1>7. ReadyIsCached'
    BY <1>1, <1>2, <1>3, <1>4 DEF Core, ReadyIsCached, Types
  <1> QED BY <1>5, <1>6, <1>7 DEF Kept, Core

LEMMA EvictKeeps ==
  ASSUME Types, Core, Evict
  PROVE  Kept
  <1>1. /\ step = "ended" /\ step' = "none" /\ worker' = "idle"
        /\ targets' = {} /\ pending = {} /\ landed = {}
        /\ UNCHANGED <<demand, pending, landed, converting>>
    BY DEF Evict, EndWork, Types, Core, BatchPhases
  <1>2. PICK gone \in SUBSET {s \in Shots : state[s] = "ready"} :
           /\ cached' = cached \ gone
           /\ state' = [s \in Shots |-> IF s \in gone THEN "none" ELSE state[s]]
    BY DEF Evict
  <1>3. Types' /\ BatchPhases'
    BY <1>1, <1>2 DEF Types, BatchPhases
  <1>4. FetchingIsOwned'
    BY <1>1, <1>2 DEF Core, FetchingIsOwned, Types
  <1>5. ReadyIsCached'
    BY <1>1, <1>2 DEF Core, ReadyIsCached, Types
  <1> QED BY <1>3, <1>4, <1>5 DEF Kept, Core

LEMMA DemandKeeps ==
  ASSUME Types, Core, NEW s \in Shots, Demand(s),
         UNCHANGED <<worker, step, converting, cached, targets, pending, landed>>
  PROVE  Kept
  <1>1. CASE UNCHANGED <<state, demand>>
    BY <1>1 DEF Types, Kept, Core, BatchPhases, FetchingIsOwned, ReadyIsCached
  <1>2. CASE /\ state[s] \in {"none", "failed"}
             /\ demand' = demand \cup {s}
             /\ state' = [state EXCEPT ![s] = "none"]
    <2>1. Types' /\ BatchPhases'
      BY <1>2 DEF Types, Core, BatchPhases
    <2>2. FetchingIsOwned'
      BY <1>2 DEF Types, Core, FetchingIsOwned
    <2>3. ReadyIsCached'
      BY <1>2 DEF Types, Core, ReadyIsCached
    <2> QED BY <2>1, <2>2, <2>3 DEF Kept, Core
  <1> QED BY <1>1, <1>2 DEF Demand

LEMMA RetryKeeps ==
  ASSUME Types, Core, NEW s \in Shots, Retry(s)
  PROVE  Kept
  <1>1. /\ state[s] = "failed" /\ state' = [state EXCEPT ![s] = "none"]
        /\ UNCHANGED <<worker, step, demand, converting, cached, targets, pending, landed>>
    BY DEF Retry, linkVars, batchVars
  <1>2. Types' /\ BatchPhases'
    BY <1>1 DEF Types, Core, BatchPhases
  <1>3. FetchingIsOwned' /\ ReadyIsCached'
    BY <1>1 DEF Types, Core, FetchingIsOwned, ReadyIsCached
  <1> QED BY <1>2, <1>3 DEF Kept, Core

-----------------------------------------------------------------------------
(* All steps.                                                              *)

LEMMA FrameKeeps ==
  ASSUME Types, Core, UNCHANGED <<state, demand, converting, cached, targets, pending, landed>>,
         Types', step' \in {"none", "ended"} => step' = step
  PROVE  Kept
  BY DEF Kept, Core, BatchPhases, FetchingIsOwned, ReadyIsCached

LEMMA WorkerKeeps ==
  ASSUME Types, Core, WorkerStep
  PROVE  Kept
  <1>1. CASE StartPull
    BY <1>1, StartPullKeeps
  <1>2. CASE Pull
    BY <1>2, FrameKeeps DEF Pull, linkVars, Types
  <1>3. CASE PullEnds
    BY <1>3, FrameKeeps DEF PullEnds, linkVars, Types
  <1>4. CASE SortOut
    BY <1>4, SortOutKeeps
  <1>5. CASE Evict
    BY <1>5, EvictKeeps
  <1>6. CASE \E s \in Shots : Promote(s)
    BY <1>6, PromoteKeeps
  <1>7. CASE StartSweep \/ EndSweep \/ StartProbe \/ EndProbe
    BY <1>7, FrameKeeps
    DEF StartSweep, EndSweep, StartProbe, EndProbe, StartWork, EndWork, batchVars, Types
  <1>8. CASE WorkerLeaves /\ UNCHANGED restVars
    BY <1>8, FrameKeeps DEF WorkerLeaves, restVars, Types
  <1> QED BY <1>1, <1>2, <1>3, <1>4, <1>5, <1>6, <1>7, <1>8 DEF WorkerStep

LEMMA UserKeeps ==
  ASSUME Types, Core, UserStep
  PROVE  Kept
  <1>1. ASSUME NEW r \in Readers, NEW s \in Shots, Wait(r, s) PROVE Kept
    BY <1>1, DemandKeeps DEF Wait, linkVars
  <1>2. ASSUME NEW r \in Readers, GiveUp(r) PROVE Kept
    <2>1. /\ demand' \subseteq demand
          /\ UNCHANGED <<worker, state, step, converting, cached, targets, pending, landed>>
      BY <1>2 DEF GiveUp, linkVars, batchVars
    <2> QED BY <2>1 DEF Types, Kept, Core, BatchPhases, FetchingIsOwned, ReadyIsCached
  <1>3. ASSUME NEW s \in Shots, Ensure(s) PROVE Kept
    BY <1>3, DemandKeeps DEF Ensure, linkVars
  <1>4. ASSUME NEW s \in Shots, Retry(s) PROVE Kept
    BY <1>4, RetryKeeps
  <1>5. ASSUME NEW s \in Shots, SetCursor(s) PROVE Kept
    BY <1>5, FrameKeeps DEF SetCursor, linkVars, batchVars, Types
  <1>6. ASSUME NEW o \in Owners, Pause(o) PROVE Kept
    BY <1>6, FrameKeeps DEF Pause, PauseAndDrain, restVars, Types
  <1>7. CASE CloseAll
    BY <1>7, FrameKeeps DEF CloseAll, Close, restVars, Types
  <1> QED BY <1>1, <1>2, <1>3, <1>4, <1>5, <1>6, <1>7 DEF UserStep

LEMMA CoreKept ==
  ASSUME Types, Core, [Next]_vars
  PROVE  Kept
  <1>1. CASE WorkerStep
    BY <1>1, WorkerKeeps
  <1>2. CASE UserStep
    BY <1>2, UserKeeps
  <1>3. ASSUME NEW s \in Shots, Land(s) PROVE Kept
    <2>1. /\ landed' = landed \cup {s} /\ s \in pending
          /\ UNCHANGED <<worker, state, step, demand, converting, cached, targets, pending>>
      BY <1>3 DEF Land, linkVars
    <2> QED BY <2>1 DEF Types, Kept, Core, BatchPhases, FetchingIsOwned, ReadyIsCached
  <1>4. ASSUME NEW s \in Shots, Convert(s) PROVE Kept
    BY <1>4, ConvertKeeps
  <1>5. ASSUME NEW r \in Readers, Return(r) PROVE Kept
    BY <1>5, FrameKeeps DEF Return, linkVars, batchVars, Types
  <1>6. ASSUME NEW o \in Owners, LinkStep(o) PROVE Kept
    BY <1>6, FrameKeeps DEF LinkStep, OwnerStep, Drained, Resume, restVars, Types
  <1>7. CASE CloseDrained(converting # {}) /\ UNCHANGED restVars
    BY <1>7, FrameKeeps DEF CloseDrained, restVars, Types
  <1>8. CASE UNCHANGED vars
    BY <1>8, FrameKeeps DEF vars, linkVars, batchVars, Types
  <1> QED BY <1>1, <1>2, <1>3, <1>4, <1>5, <1>6, <1>7, <1>8 DEF Next

(* What TypeOK says of the rest. *)
Rest ==
    /\ cursor \in Shots
    /\ reader \in [Readers -> Shots \cup {0}]
    /\ {cancelled, heads, imageTurn, bulkSick, partSick} \subseteq BOOLEAN
    /\ empty \in 0..2 /\ faults \in Nat /\ inputs \in Nat

LEMMA TypesAre == TypeOK <=> LinkTypeOK /\ Types /\ Rest
  BY DEF TypeOK, Types, LinkTypeOK, Rest

LEMMA CountersKept ==
  ASSUME Rest, [Next]_vars
  PROVE  /\ empty' \in 0..2 /\ faults' \in Nat /\ inputs' \in Nat
         /\ cursor' \in Shots /\ reader' \in [Readers -> Shots \cup {0}]
  <1> USE DEF Rest, Fault, Input
  <1>1. CASE WorkerStep
    <2>1. CASE StartPull \/ Pull \/ PullEnds \/ Evict
      BY <1>1, <2>1 DEF StartPull, Pull, PullEnds, Evict, sickVars
    <2>2. CASE SortOut
      BY <2>2 DEF SortOut
    <2>3. CASE \E s \in Shots : Promote(s)
      BY <2>3 DEF Promote, Complete
    <2>4. CASE StartSweep \/ EndSweep \/ StartProbe \/ EndProbe
      <3>1. UNCHANGED <<empty, inputs, cursor, reader>>
        BY <2>4 DEF StartSweep, EndSweep, StartProbe, EndProbe, sickVars
      <3>2. faults' = faults \/ faults' = faults + 1
        BY <2>4 DEF StartSweep, EndSweep, StartProbe, EndProbe
      <3> QED BY <3>1, <3>2
    <2>5. CASE UNCHANGED <<restVars, inputs>>
      BY <2>5 DEF restVars, sickVars
    <2> QED BY <1>1, <2>1, <2>2, <2>3, <2>4, <2>5 DEF WorkerStep
  <1>2. CASE UserStep
    BY <1>2 DEF UserStep, Wait, GiveUp, Ensure, Retry, SetCursor, Pause, CloseAll, sickVars, restVars
  <1>3. CASE \/ \E s \in Shots : Land(s) \/ Convert(s)
             \/ \E r \in Readers : Return(r)
             \/ \E o \in Owners : LinkStep(o)
             \/ CloseDrained(converting # {}) /\ UNCHANGED <<restVars, cancelled, inputs>>
    BY <1>3 DEF Land, Convert, Complete, Return, LinkStep, sickVars, restVars
  <1>4. CASE UNCHANGED vars
    BY <1>4 DEF vars, sickVars
  <1> QED BY <1>1, <1>2, <1>3, <1>4 DEF Next

LEMMA FlagsKept ==
  ASSUME Rest, [Next]_vars
  PROVE  {cancelled, heads, imageTurn, bulkSick, partSick}' \subseteq BOOLEAN
  <1> USE DEF Rest
  <1>1. CASE WorkerStep
    BY <1>1 DEF WorkerStep, StartPull, Pull, PullEnds, SortOut, Evict, Promote, Complete, StartSweep,
                EndSweep, StartProbe, EndProbe, sickVars, restVars, batchVars
  <1>2. CASE UserStep
    BY <1>2 DEF UserStep, Wait, GiveUp, Ensure, Retry, SetCursor, Pause, CloseAll, Demand, sickVars,
                restVars, batchVars
  <1>3. CASE \/ \E s \in Shots : Land(s) \/ Convert(s)
             \/ \E r \in Readers : Return(r)
             \/ \E o \in Owners : LinkStep(o)
             \/ CloseDrained(converting # {}) /\ UNCHANGED <<restVars, cancelled, inputs>>
    BY <1>3 DEF Land, Convert, Complete, Return, LinkStep, sickVars, restVars, batchVars
  <1>4. CASE UNCHANGED vars
    BY <1>4 DEF vars, sickVars, batchVars
  <1> QED BY <1>1, <1>2, <1>3, <1>4 DEF Next

-----------------------------------------------------------------------------
(* The theorems.                                                           *)

LEMMA InitInv == Init => Inv
  <1> SUFFICES ASSUME Init PROVE Inv
    OBVIOUS
  <1>1. LinkInv
    BY LinkStarts DEF Init
  <1>2. Types /\ Core
    BY DEF Init, LinkInit, Types, Core, BatchPhases, FetchingIsOwned, ReadyIsCached
  <1>3. {cancelled, heads, imageTurn, bulkSick, partSick} \subseteq BOOLEAN
    BY DEF Init
  <1>4. /\ cursor \in Shots /\ reader \in [Readers -> Shots \cup {0}]
        /\ empty \in 0..2 /\ faults \in Nat /\ inputs \in Nat
    BY DEF Init
  <1>5. Rest
    BY <1>3, <1>4 DEF Rest
  <1> QED BY <1>1, <1>2, <1>5, TypesAre DEF Inv, LinkInv, Core

LEMMA NextInv == Inv /\ [Next]_vars => Inv'
  <1> SUFFICES ASSUME Inv, [Next]_vars PROVE Inv'
    OBVIOUS
  <1>1. LinkInv /\ Types /\ Core /\ Rest
    BY TypesAre DEF Inv, LinkInv, Core
  <1>2. LinkInv'
    BY <1>1, StepsOfLink, LinkKept
  <1>3. Types' /\ Core'
    BY <1>1, CoreKept DEF Kept
  <1>4. Rest'
    BY <1>1, CountersKept, FlagsKept DEF Rest
  <1>5. TypeOK'
    BY <1>2, <1>3, <1>4 DEF TypeOK, Types, LinkTypeOK, Rest, LinkInv
  <1> QED BY <1>2, <1>3, <1>5 DEF Inv, LinkInv, Core

(* The inductive invariant of the prefetcher: the batch and the worker's place,
   the link, and whose hands each file is in.  The theorems below follow from it. *)
THEOREM PrefetchInvariant == Spec => []Inv
  <1>1. Init => Inv
    BY InitInv
  <1>2. Inv /\ [Next]_vars => Inv'
    BY NextInv
  <1> QED BY <1>1, <1>2, PTL DEF Spec

(* The state of the prefetcher keeps its types. *)
THEOREM PrefetchTypes == Spec => []TypeOK
  <1>1. Inv => TypeOK
    BY DEF Inv
  <1> QED BY <1>1, PrefetchInvariant, PTL

(* Every shot that is "fetching" is in the hands of the batch or of the
   converter pool, and of one of them only: whatever cancels a batch, however
   files fail, no shot is left for ever in a state in which nothing picks it. *)
THEOREM NoShotStranded == Spec => []FetchingIsOwned
  <1>1. Inv => FetchingIsOwned
    BY DEF Inv
  <1> QED BY <1>1, PrefetchInvariant, PTL

(* A path that Wait returns is that of a file in the cache, and no shot whose
   file is there is asked for. *)
THEOREM ReadyHasFile == Spec => []ReadyIsCached
  <1>1. Inv => ReadyIsCached
    BY DEF Inv
  <1> QED BY <1>1, PrefetchInvariant, PTL

(* Who was told by PauseAndDrain that the link is its own has it, beside the
   worker, until it resumes: however many owners pause and resume meanwhile. *)
THEOREM PrefetchYieldsLink == Spec => [](LinkYielded /\ PausesCounted)
  <1>1. Inv => LinkYielded /\ PausesCounted
    BY DEF Inv
  <1> QED BY <1>1, PrefetchInvariant, PTL

(* The prefetcher implements the link: whatever it does, it touches who has the
   camera only by the link's operations, under their guards, so that what
   LinkSpec promises to the others holds beside it. *)
THEOREM PrefetchUsesLink == Spec => LinkSpec
  <1>1. Init => LinkInit
    BY DEF Init
  <1>2. [Next]_vars => [LinkNext]_linkVars
    BY StepsOfLink
  <1> QED BY <1>1, <1>2, PTL DEF Spec, LinkSpec

-----------------------------------------------------------------------------
(* What readers ask for comes first.                                       *)

(* A shot that is asked for has no outcome yet: it is free to be picked, or on
   its way.  And the worker only leaves when the prefetcher is closed. *)
AskedFor == \A s \in demand : state[s] \in {"none", "fetching"}
StaysOpen == worker = "gone" => closing # "no"

LEMMA AskedKept ==
  ASSUME Inv, AskedFor, [Next]_vars
  PROVE  AskedFor'
  <1>0. Types /\ Core
    BY TypesOf DEF Inv, Core
  <1> USE <1>0 DEF Types, AskedFor
  <1>1. CASE UNCHANGED <<state, demand>>
    BY <1>1
  <1>2. ASSUME NEW s \in Shots, NEW what, Outcome(s, what) PROVE AskedFor'
    BY <1>2 DEF Outcome
  <1>3. ASSUME NEW s \in Shots, Complete(s) PROVE AskedFor'
    BY <1>2, <1>3 DEF Complete
  <1>4. CASE StartPull
    <2>1. /\ state' = [s \in Shots |-> IF s \in targets' THEN "fetching" ELSE state[s]]
          /\ demand' = demand
      BY <1>4 DEF StartPull
    <2> QED BY <2>1
  <1>5. ASSUME NEW s \in Shots, Promote(s) PROVE AskedFor'
    BY <1>1, <1>2, <1>3, <1>5 DEF Promote
  <1>6. CASE SortOut
    <2>1. CASE step = "dropping"
      BY <1>6, <2>1 DEF SortOut
    <2>2. CASE step = "failing"
      BY <1>6, <2>2 DEF SortOut
    <2> QED BY <1>6, <2>1, <2>2 DEF SortOut
  <1>7. CASE Evict
    <2>1. PICK gone \in SUBSET (Shots \ demand) :
             state' = [s \in Shots |-> IF s \in gone THEN "none" ELSE state[s]]
      BY <1>7 DEF Evict
    <2>2. demand' = demand
      BY <1>7 DEF Evict
    <2> QED BY <2>1, <2>2
  <1>8. ASSUME NEW s \in Shots, Demand(s) PROVE AskedFor'
    BY <1>1, <1>8 DEF Demand
  <1>9. CASE UserStep
    <2>1. ASSUME NEW r \in Readers, GiveUp(r) PROVE AskedFor'
      BY <2>1 DEF GiveUp
    <2>2. ASSUME NEW s \in Shots, Retry(s) PROVE AskedFor'
      BY <2>2 DEF Retry
    <2> QED BY <1>1, <1>8, <1>9, <2>1, <2>2
            DEF UserStep, Wait, Ensure, SetCursor, Pause, CloseAll, restVars
  <1>10. CASE Pull \/ PullEnds \/ StartSweep \/ EndSweep \/ StartProbe \/ EndProbe
              \/ UNCHANGED restVars \/ UNCHANGED vars
    BY <1>1, <1>10 DEF Pull, PullEnds, StartSweep, EndSweep, StartProbe, EndProbe, restVars, vars
  <1>11. ASSUME NEW s \in Shots, Land(s) \/ Convert(s) PROVE AskedFor'
    BY <1>1, <1>3, <1>11 DEF Land, Convert
  <1>12. ASSUME NEW r \in Readers, Return(r) PROVE AskedFor'
    BY <1>1, <1>12 DEF Return
  <1> QED BY <1>4, <1>5, <1>6, <1>7, <1>9, <1>10, <1>11, <1>12 DEF Next, WorkerStep, LinkStep

LEMMA OpenKept ==
  ASSUME StaysOpen, [Next]_vars
  PROVE  StaysOpen'
  <1>1. [LinkNext]_linkVars
    BY StepsOfLink
  <1> QED BY <1>1 DEF StaysOpen, LinkNext, linkVars, StartWork, EndWork, WorkerLeaves, PauseAndDrain,
                      Drained, Resume, Close, CloseDrained

LEMMA AskedStart == Init => AskedFor /\ StaysOpen
  BY DEF Init, LinkInit, AskedFor, StaysOpen

(* Of some shots, one is the nearest. *)
LEMMA OneIsNearest ==
  ASSUME CardAssumption, cursor \in Shots, NEW shots, shots \subseteq Shots, shots # {}
  PROVE  Nearest(shots) # {}
  <1>0. cursor \in Int /\ shots \subseteq Int
    BY DEF Shots
  <1> DEFINE far == {Distance(s) : s \in shots}
  <1>1. \A s \in shots : Distance(s) \in Nat
    BY <1>0 DEF Distance
  <1>2. far \subseteq Nat /\ far # {}
    BY <1>1
  <1> HIDE DEF far
  <1>3. PICK d \in far : \A e \in far : d <= e
    BY <1>2, Smallest
  <1>4. PICK s \in shots : d = Distance(s)
    BY <1>3 DEF far
  <1>5. \A t \in shots : Distance(s) <= Distance(t)
    BY <1>3, <1>4 DEF far
  <1> QED BY <1>5 DEF Nearest

(* Of the nearest, the one ahead is taken. *)
LEMMA OneIsFirst ==
  ASSUME CardAssumption, cursor \in Shots, NEW ripe, Needed(ripe) \cap Window # {}
  PROVE  WindowFirst(ripe) # {}
  <1> DEFINE near == Nearest(Needed(ripe) \cap Window)
             back == {N - s : s \in near}
  <1>1. near # {} /\ near \subseteq Shots
    BY OneIsNearest DEF Needed, Nearest
  <1>2. near \subseteq 1..N /\ N \in Nat
    BY <1>1, CardAssumption DEF Shots
  <1>3. WindowFirst(ripe) = {s \in near : \A t \in near : t <= s}
    BY DEF WindowFirst
  <1> HIDE DEF near
  <1>4. back \subseteq Nat /\ back # {}
    <2>1. \A s \in near : N - s \in Nat
      BY <1>2
    <2>2. PICK s \in near : TRUE
      BY <1>1
    <2>3. N - s \in back
      BY <2>2
    <2> QED BY <2>1, <2>3
  <1> HIDE DEF back
  <1>5. PICK b \in back : \A c \in back : b <= c
    BY <1>4, Smallest
  <1>6. PICK s \in near : b = N - s
    BY <1>5 DEF back
  <1>7. ASSUME NEW t \in near PROVE t <= s
    <2>1. N - s <= N - t
      BY <1>5, <1>6 DEF back
    <2> QED BY <1>2, <2>1
  <1> QED BY <1>3, <1>7

(* As long as a shot is asked for that is free, a batch is picked, sick camera
   or not, and every batch that can be picked has the nearest such shot. *)
LEMMA AskedIsPicked ==
  ASSUME CardAssumption, cursor \in Shots, Types, AskedFor, NEW ripe \in SUBSET Failed, NEW due,
         NEW d \in demand, state[d] = "none"
  PROVE  /\ Picks(ripe, due) # {}
         /\ \A batch \in Picks(ripe, due) :
               \E s \in demand \cap batch :
                  /\ state[s] = "none"
                  /\ \A t \in demand : state[t] = "none" => Distance(s) <= Distance(t)
  <1> DEFINE asked == demand \cap Needed(ripe)
  <1>1. \A s \in demand : s \in Needed(ripe) <=> state[s] = "none"
    BY DEF Types, AskedFor, Needed, Failed
  <1>2. asked # {} /\ asked \subseteq Shots
    BY <1>1 DEF Types
  <1>3. Picks(ripe, due) = {DemandBatch(s, ripe) : s \in Nearest(asked)}
    BY <1>2 DEF Picks
  <1>4. Nearest(asked) # {}
    BY <1>2, OneIsNearest
  <1>5. ASSUME NEW s \in Nearest(asked)
        PROVE  /\ s \in demand /\ s \in DemandBatch(s, ripe) /\ state[s] = "none"
               /\ \A t \in demand : state[t] = "none" => Distance(s) <= Distance(t)
    <2>1. s \in asked /\ \A t \in asked : Distance(s) <= Distance(t)
      BY DEF Nearest
    <2>2. s \in DemandBatch(s, ripe)
      BY DEF DemandBatch
    <2> QED BY <1>1, <2>1, <2>2
  <1> HIDE DEF asked
  <1>6. ASSUME NEW batch \in Picks(ripe, due)
        PROVE  \E s \in demand \cap batch :
                  /\ state[s] = "none"
                  /\ \A t \in demand : state[t] = "none" => Distance(s) <= Distance(t)
    <2>1. PICK s \in Nearest(asked) : batch = DemandBatch(s, ripe)
      BY <1>3
    <2>2. s \in demand \cap batch /\ state[s] = "none"
      BY <1>5, <2>1
    <2>3. \A t \in demand : state[t] = "none" => Distance(s) <= Distance(t)
      BY <1>5
    <2> QED BY <2>2, <2>3
  <1> QED BY <1>3, <1>4, <1>6

(* A reader's shot comes before everything else the worker could do: when it
   starts on something while a shot is asked for that nobody has, that is a
   batch with the nearest such shot, whatever of the window is missing, whoever's
   turn it is, and sick as the camera may be. *)
AskedFirst ==
    (worker = "idle" /\ worker' \notin {"idle", "gone"} /\ \E d \in demand : state[d] = "none") =>
       /\ worker' = "batch"
       /\ \E s \in demand \cap targets' :
             /\ state[s] = "none"
             /\ \A t \in demand : state[t] = "none" => Distance(s) <= Distance(t)

LEMMA StartsAreAsked ==
  ASSUME Inv, AskedFor, [Next]_vars
  PROVE  AskedFirst
  <1> SUFFICES ASSUME worker = "idle", worker' \notin {"idle", "gone"},
                      NEW d \in demand, state[d] = "none"
               PROVE  /\ worker' = "batch"
                      /\ \E s \in demand \cap targets' :
                            /\ state[s] = "none"
                            /\ \A t \in demand : state[t] = "none" => Distance(s) <= Distance(t)
    BY DEF AskedFirst
  <1>0. Types /\ cursor \in Shots /\ CardAssumption
    BY TypesOf, CardAssumption DEF Inv, TypeOK, CardAssumption
  <1>1. StartPull \/ StartSweep \/ StartProbe
    <2>1. worker' = worker \/ StartPull \/ StartSweep \/ StartProbe \/ WorkerLeaves
          \/ \E what \in {"batch", "sweep", "probe"} : EndWork(what)
      <3>1. CASE WorkerStep
        BY <3>1 DEF WorkerStep, Pull, PullEnds, SortOut, Evict, Promote, EndSweep, EndProbe, linkVars
      <3>2. CASE UserStep
        BY <3>2 DEF UserStep, Wait, GiveUp, Ensure, Retry, SetCursor, Pause, PauseAndDrain, CloseAll,
                    Close, linkVars
      <3>3. CASE \/ \E s \in Shots : Land(s) \/ Convert(s)
                 \/ \E r \in Readers : Return(r)
                 \/ \E o \in Owners : LinkStep(o)
                 \/ CloseDrained(converting # {})
        BY <3>3 DEF Land, Convert, Return, LinkStep, OwnerStep, Drained, Resume, CloseDrained, linkVars
      <3>4. CASE UNCHANGED vars
        BY <3>4 DEF vars, linkVars
      <3> QED BY <3>1, <3>2, <3>3, <3>4 DEF Next
    <2> QED BY <2>1 DEF WorkerLeaves, EndWork
  <1>2. \A ripe \in SUBSET Failed, due \in BOOLEAN : Picks(ripe, due) # {}
    BY <1>0, AskedIsPicked
  <1>3. ~HeadsTurn
    BY DEF HeadsTurn
  <1>4. StartPull
    BY <1>1, <1>2, <1>3 DEF StartSweep, StartProbe
  <1>5. PICK ripe \in SUBSET Failed, due \in BOOLEAN : targets' \in Picks(ripe, due)
    BY <1>4 DEF StartPull
  <1>6. worker' = "batch"
    BY <1>4 DEF StartPull, StartWork
  <1> QED BY <1>0, <1>5, <1>6, AskedIsPicked

(* However many readers ask, for whatever shots, while the camera is sick, the
   window empty or the sweep's turn: what is asked for is served first. *)
THEOREM ReadersComeFirst == Spec => [][AskedFirst]_vars
  <1>1. Init => Inv /\ AskedFor
    BY InitInv, AskedStart
  <1>2. Inv /\ AskedFor /\ [Next]_vars => (Inv /\ AskedFor)'
    BY NextInv, AskedKept
  <1>3. Inv /\ AskedFor /\ [Next]_vars => AskedFirst
    BY StartsAreAsked
  <1> QED BY <1>1, <1>2, <1>3, PTL DEF Spec

(* Where a reader's shot is on its way to an answer: it has one, or the converter
   pool has it, or a batch that is not over has it, or it is free, and the worker
   has to pull, for what is asked for or for the window, once it gets to it and
   the breaker lets it through. *)
OnItsWay(s) ==
    \/ state[s] \in {"ready", "failed"}
    \/ s \in converting
    \/ s \in pending /\ worker = "batch" /\ step \in {"picked", "pull", "dropping", "failing"}
    \/ /\ state[s] = "none"
       /\ \A ripe \in SUBSET Failed : s \in Needed(ripe) /\ Picks(ripe, TRUE) # {}
       /\ s \in demand => ~HeadsTurn /\ \A ripe \in SUBSET Failed : Picks(ripe, FALSE) # {}

(* Somebody has a step that brings the worker on: the worker itself, the camera
   (a file that lands), or one who has paused it and is to give the link back. *)
WorkerGoesOn ==
    \/ worker = "batch" /\ step \in {"picked", "ended"}
    \/ worker = "batch" /\ step = "pull" /\ (cancelled \/ pending = landed \/ pending \ landed # {})
    \/ worker = "batch" /\ step \in {"dropping", "failing"}
    \/ worker \in {"sweep", "probe"}
    \/ worker = "idle" /\ pause = 0
    \/ \E o \in Owners : owner[o] = "owns" \/ (owner[o] = "draining" /\ worker \notin Drainable)

NoReaderForgotten ==
    closing = "no" =>
       /\ WorkerGoesOn
       /\ \A r \in Readers : reader[r] # 0 /\ Owed(r) => OnItsWay(reader[r])

LEMMA OwedIsOnItsWay ==
  ASSUME Inv, AskedFor, NEW r \in Readers, reader[r] # 0, Owed(r)
  PROVE  OnItsWay(reader[r])
  <1> DEFINE s == reader[r]
  <1>0. Types /\ Core /\ cursor \in Shots /\ CardAssumption
    BY TypesOf, CardAssumption DEF Inv, Core, TypeOK, CardAssumption
  <1>1. s \in Shots /\ (s \in demand \/ s \in Window \ Videos)
    BY DEF Owed, Inv, TypeOK
  <1> HIDE DEF s
  <1>2. CASE state[s] \in {"ready", "failed"}
    BY <1>2 DEF OnItsWay, s
  <1>3. CASE state[s] = "fetching"
    <2>1. s \in pending \cup converting
      BY <1>0, <1>1, <1>3 DEF Core, FetchingIsOwned
    <2>2. s \in pending => worker = "batch" /\ step \in {"picked", "pull", "dropping", "failing"}
      BY <1>0 DEF Types, Core, BatchPhases
    <2> QED BY <2>1, <2>2 DEF OnItsWay, s
  <1>4. CASE state[s] = "none"
    <2>1. ASSUME NEW ripe \in SUBSET Failed PROVE s \in Needed(ripe)
      BY <1>1, <1>4 DEF Needed
    <2>2. ASSUME NEW ripe \in SUBSET Failed, NEW due, s \in demand PROVE Picks(ripe, due) # {}
      BY <1>0, <1>4, <2>2, AskedIsPicked
    <2>3. ASSUME NEW ripe \in SUBSET Failed, s \notin demand PROVE Picks(ripe, TRUE) # {}
      <3>1. CASE demand \cap Needed(ripe) = {}
        <4>1. WindowFirst(ripe) # {}
          BY <1>0, <1>1, <2>1, <2>3, OneIsFirst
        <4> QED BY <3>1, <4>1 DEF Picks
      <3>2. CASE demand \cap Needed(ripe) # {}
        <4>1. PICK d \in demand : d \in Needed(ripe)
          BY <3>2
        <4>2. state[d] = "none"
          BY <1>0, <4>1 DEF Types, AskedFor, Needed, Failed
        <4> QED BY <1>0, <4>1, <4>2, AskedIsPicked
      <3> QED BY <3>1, <3>2
    <2>4. s \in demand => ~HeadsTurn
      BY DEF HeadsTurn
    <2> QED BY <1>4, <2>1, <2>2, <2>3, <2>4 DEF OnItsWay, s
  <1> QED BY <1>0, <1>1, <1>2, <1>3, <1>4 DEF Types

(* As long as the prefetcher is not closed: whatever cancelled the batch, failed,
   paused the worker or took its turn, no state is reached in which a reader
   waits for a shot that nobody will bring: no wake-up is lost. *)
THEOREM ReadersAreServed == Spec => []NoReaderForgotten
  <1>1. Inv /\ AskedFor /\ StaysOpen => NoReaderForgotten
    <2> SUFFICES ASSUME Inv, AskedFor, StaysOpen, closing = "no" PROVE WorkerGoesOn
      BY OwedIsOnItsWay DEF NoReaderForgotten
    <2>1. Types /\ LinkInv /\ worker # "gone"
      BY TypesAre DEF Inv, LinkInv, StaysOpen
    <2>2. CASE worker = "batch"
      <3>1. step \in {"picked", "pull", "dropping", "failing", "ended"}
        BY <2>1, <2>2 DEF Types
      <3>2. pending = landed \/ pending \ landed # {}
        BY <2>1 DEF Types
      <3> QED BY <2>2, <3>1, <3>2 DEF WorkerGoesOn
    <2>3. CASE worker = "idle" /\ pause # 0
      <3>1. PICK o \in Owners : owner[o] # "away"
        BY <2>1, <2>3, NobodyPaused
      <3>2. owner[o] \in {"draining", "owns"}
        BY <2>1, <3>1 DEF LinkInv, LinkTypeOK
      <3> QED BY <2>3, <3>2 DEF WorkerGoesOn, Drainable
    <2> QED BY <2>1, <2>2, <2>3 DEF WorkerGoesOn, Types
  <1>2. Init => Inv /\ AskedFor /\ StaysOpen
    BY InitInv, AskedStart
  <1>3. Inv /\ AskedFor /\ StaysOpen /\ [Next]_vars => (Inv /\ AskedFor /\ StaysOpen)'
    BY NextInv, AskedKept, OpenKept
  <1> QED BY <1>1, <1>2, <1>3, PTL DEF Spec

-----------------------------------------------------------------------------
(* The decode pool.                                                        *)

PoolJobs == [id : Pics \cup {0}, at : {"idle", "wait", "decode", "bank"}, width : 0..Native,
             waits : BOOLEAN, cancelled : BOOLEAN, fine : BOOLEAN]
PoolTypes ==
    /\ looking \in Pics \cup {0} /\ box \in 1..Native /\ fullWant \in Pics \cup {0}
    /\ job \in [PoolWorkers -> PoolJobs]
    /\ done \in [Pics -> 0..Native] /\ ready \subseteq Pics /\ failing \subseteq Pics

(* A photo is worked on by one worker, if by any. *)
OneWorkerEach ==
    /\ \A w \in PoolWorkers : job[w].at = "idle" <=> job[w].id = 0
    /\ \A v, w \in PoolWorkers : job[v].id = job[w].id /\ job[v].id # 0 => v = w

(* Who counts as waiting for the camera waits for it, and all who do count;
   nobody waits for a photo but the one under the cursor who was not told to
   give up. *)
AtCamera(w) == job[w].at = "wait" /\ job[w].waits
CameraWaits ==
    /\ waiters = {job[w].id : w \in {v \in PoolWorkers : AtCamera(v)}}
    /\ \A w \in PoolWorkers : AtCamera(w) /\ ~job[w].cancelled => job[w].id = looking

PoolInv == PoolTypes /\ OneWorkerEach /\ CameraWaits

LEMMA PoolStarts == PoolInit => PoolInv
  <1> USE PoolAssumption
  <1>1. PoolInit => PoolTypes
    BY DEF PoolInit, PoolTypes, PoolJobs, NoJob
  <1>2. PoolInit => OneWorkerEach
    BY DEF PoolInit, OneWorkerEach, NoJob
  <1>3. PoolInit => CameraWaits
    BY DEF PoolInit, CameraWaits, AtCamera, NoJob
  <1> QED BY <1>1, <1>2, <1>3 DEF PoolInv

LEMMA ClaimKeeps ==
  ASSUME PoolInv, NEW w \in PoolWorkers, Claim(w)
  PROVE  PoolInv'
  <1> USE PoolAssumption DEF PoolInv
  <1>1. PICK i \in Pics :
            /\ NextInLine(i)
            /\ job' = [job EXCEPT ![w] = [NoJob EXCEPT
                   !.id = i, !.at = "wait", !.waits = (i \notin ready),
                   !.width = IF i = fullWant THEN Native ELSE box]]
            /\ waiters' = IF i \in ready THEN waiters ELSE waiters \cup {i}
    BY DEF Claim
  <1> DEFINE new == [NoJob EXCEPT !.id = i, !.at = "wait", !.waits = (i \notin ready),
                                  !.width = IF i = fullWant THEN Native ELSE box]
  <1>2. new.id = i /\ new.at = "wait" /\ (new.waits <=> i \notin ready) /\ ~new.cancelled
    BY DEF NoJob
  <1>3. new \in PoolJobs
    <2>1. (i \notin ready) \in BOOLEAN
      OBVIOUS
    <2>2. (IF i = fullWant THEN Native ELSE box) \in 0..Native
      BY DEF PoolTypes
    <2> QED BY <2>1, <2>2 DEF NoJob, PoolJobs
  <1> HIDE DEF new
  <1>4. job' = [job EXCEPT ![w] = new]
    BY <1>1 DEF new
  <1>5. job' \in [PoolWorkers -> PoolJobs] /\ job'[w] = new
        /\ \A v \in PoolWorkers : v # w => job'[v] = job[v]
    BY <1>3, <1>4 DEF PoolTypes
  <1>6. i \notin InFlight /\ i # 0 /\ (i \notin ready => i = looking)
    BY <1>1 DEF NextInLine, Claimable, NeedsWork
  <1>7. UNCHANGED <<looking, box, fullWant, done, ready, failing>> /\ job[w].at = "idle"
    BY DEF Claim
  <1>8. PoolTypes'
    BY <1>5, <1>7 DEF PoolTypes
  <1>9. OneWorkerEach'
    BY <1>2, <1>5, <1>6 DEF OneWorkerEach, InFlight
  <1>10. \A v \in PoolWorkers : AtCamera(v)' <=> AtCamera(v) \/ (v = w /\ i \notin ready)
    BY <1>2, <1>5, <1>7 DEF AtCamera
  <1>11. \A v \in PoolWorkers : AtCamera(v) => v # w
    BY <1>7 DEF AtCamera
  <1>12. CameraWaits'
    <2>1. waiters' = {job'[v].id : v \in {u \in PoolWorkers : AtCamera(u)'}}
      <3>1. CASE i \in ready
        <4>1. {u \in PoolWorkers : AtCamera(u)'} = {u \in PoolWorkers : AtCamera(u)}
          BY <1>10, <3>1
        <4> QED BY <1>1, <1>5, <1>11, <3>1, <4>1 DEF CameraWaits
      <3>2. CASE i \notin ready
        <4>1. {u \in PoolWorkers : AtCamera(u)'} = {u \in PoolWorkers : AtCamera(u)} \cup {w}
          BY <1>10, <3>2
        <4> QED BY <1>1, <1>2, <1>5, <1>11, <3>2, <4>1 DEF CameraWaits
      <3> QED BY <3>1, <3>2
    <2> QED BY <1>2, <1>5, <1>6, <1>7, <1>10, <1>11, <2>1 DEF CameraWaits
  <1> QED BY <1>8, <1>9, <1>12

(* What a worker that has a photo does with it. *)
LEMMA JobKeeps ==
  ASSUME PoolInv, NEW w \in PoolWorkers, NEW at \in {"decode", "bank"},
         NEW r \in PoolJobs, job' = [job EXCEPT ![w] = r],
         \/ r.at = at /\ r.id = job[w].id /\ job[w].at # "idle"
         \/ r.id = 0 /\ r.at = "idle",
         waiters' = IF AtCamera(w) THEN waiters \ {job[w].id} ELSE waiters,
         UNCHANGED <<looking, box, fullWant, ready>>,
         done' \in [Pics -> 0..Native], failing' \subseteq Pics
  PROVE  PoolInv'
  <1> USE PoolAssumption DEF PoolInv
  <1>1. job' \in [PoolWorkers -> PoolJobs] /\ job'[w] = r
        /\ \A v \in PoolWorkers : v # w => job'[v] = job[v]
    BY DEF PoolTypes
  <1>2. PoolTypes'
    BY <1>1 DEF PoolTypes
  <1>3. OneWorkerEach'
    BY <1>1 DEF OneWorkerEach
  <1>4. \A v \in PoolWorkers : AtCamera(v)' <=> AtCamera(v) /\ v # w
    BY <1>1 DEF AtCamera
  <1>5. \A v \in PoolWorkers : AtCamera(v) => job[v].id # 0
    BY DEF AtCamera, OneWorkerEach
  <1>6. waiters' = {job'[v].id : v \in {u \in PoolWorkers : AtCamera(u)'}}
    <2>1. {u \in PoolWorkers : AtCamera(u)'} = {u \in PoolWorkers : AtCamera(u)} \ {w}
      BY <1>4
    <2>2. {job'[v].id : v \in {u \in PoolWorkers : AtCamera(u)} \ {w}}
          = {job[v].id : v \in {u \in PoolWorkers : AtCamera(u)} \ {w}}
      BY <1>1
    <2>3. waiters' = {job[v].id : v \in {u \in PoolWorkers : AtCamera(u)} \ {w}}
      BY <1>5 DEF CameraWaits, OneWorkerEach
    <2> QED BY <2>1, <2>2, <2>3
  <1>7. CameraWaits'
    BY <1>1, <1>4, <1>6 DEF CameraWaits
  <1> QED BY <1>2, <1>3, <1>7

LEMMA PoolWorkerKeeps ==
  ASSUME PoolInv, NEW w \in PoolWorkers, WorkerLoop(w)
  PROVE  PoolInv'
  <1> USE PoolAssumption
  <1>0. job \in [PoolWorkers -> PoolJobs] /\ job[w] \in PoolJobs
    BY DEF PoolInv, PoolTypes
  <1>1. CASE Claim(w)
    BY <1>1, ClaimKeeps
  <1>2. CASE WaitReturns(w)
    <2>1. job[w].at = "wait"
      BY <1>2 DEF WaitReturns, Waiting
    <2>2. PICK at \in {"decode", "bank"} : job' = [job EXCEPT ![w].at = at]
      BY <1>2 DEF WaitReturns
    <2> DEFINE r == [job[w] EXCEPT !.at = at]
    <2>3. r \in PoolJobs /\ r.at = at /\ r.id = job[w].id
      BY <1>0 DEF PoolJobs
    <2>4. job' = [job EXCEPT ![w] = r]
      BY <1>0, <2>2
    <2> HIDE DEF r
    <2>5. waiters' = IF AtCamera(w) THEN waiters \ {job[w].id} ELSE waiters
      BY <1>2, <2>1 DEF WaitReturns, AtCamera
    <2>6. UNCHANGED <<looking, box, fullWant, done, ready, failing>>
      BY <1>2 DEF WaitReturns
    <2> QED BY <2>1, <2>3, <2>4, <2>5, <2>6, JobKeeps DEF PoolInv, PoolTypes
  <1>3. CASE Decode(w)
    <2> DEFINE fine == job[w].id \in ready \ Broken
               r == [job[w] EXCEPT !.at = "bank", !.fine = fine]
    <2>0. fine \in BOOLEAN
      OBVIOUS
    <2>1. job[w].at = "decode" /\ ~AtCamera(w)
      BY <1>3 DEF Decode, AtCamera
    <2>2. job' = [job EXCEPT ![w] = r]
      BY <1>0, <1>3 DEF Decode
    <2> HIDE DEF fine
    <2>3. r \in PoolJobs /\ r.at = "bank" /\ r.id = job[w].id
      BY <1>0, <2>0 DEF PoolJobs
    <2> HIDE DEF r
    <2>4. UNCHANGED <<looking, box, fullWant, waiters, done, ready, failing>>
      BY <1>3 DEF Decode
    <2> QED BY <2>1, <2>2, <2>3, <2>4, JobKeeps DEF PoolInv, PoolTypes
  <1>4. CASE Bank(w)
    <2>1. job[w].at = "bank" /\ ~AtCamera(w)
      BY <1>4 DEF Bank, AtCamera
    <2>2. job' = [job EXCEPT ![w] = NoJob] /\ UNCHANGED <<looking, box, fullWant, waiters, ready>>
      BY <1>4 DEF Bank
    <2>3. NoJob \in PoolJobs /\ NoJob.id = 0 /\ NoJob.at = "idle"
      BY DEF NoJob, PoolJobs
    <2>4. job[w].id \in Pics /\ job[w].width \in 0..Native
      BY <1>0, <2>1 DEF PoolInv, OneWorkerEach, PoolJobs
    <2>5. done' \in [Pics -> 0..Native]
      BY <1>4, <2>4 DEF Bank, PoolInv, PoolTypes
    <2>6. failing' \subseteq Pics
      BY <1>4, <2>4 DEF Bank, PoolInv, PoolTypes
    <2> QED BY <2>1, <2>2, <2>3, <2>5, <2>6, JobKeeps
  <1> QED BY <1>1, <1>2, <1>3, <1>4 DEF WorkerLoop

LEMMA SetWantKeeps ==
  ASSUME PoolInv, NEW c \in Pics, SetWant(c)
  PROVE  PoolInv'
  <1> USE PoolAssumption DEF PoolInv
  <1> DEFINE gone(w) == job[w].cancelled \/ job[w].id \notin Wanted(c)
                                         \/ (job[w].id \in waiters /\ job[w].id # c)
  <1>1. job' = [w \in PoolWorkers |-> [job[w] EXCEPT !.cancelled = gone(w)]]
    BY DEF SetWant, PoolTypes, PoolJobs
  <1>2. \A w \in PoolWorkers : gone(w) \in BOOLEAN
    BY DEF PoolTypes, PoolJobs
  <1>3. \A w \in PoolWorkers : AtCamera(w) /\ ~gone(w) => job[w].id = c
    BY DEF CameraWaits
  <1> HIDE DEF gone
  <1>4. job' \in [PoolWorkers -> PoolJobs]
    BY <1>1, <1>2 DEF PoolTypes, PoolJobs
  <1>5. \A w \in PoolWorkers : /\ job'[w].id = job[w].id /\ job'[w].at = job[w].at /\ job'[w].waits = job[w].waits
                               /\ job'[w].cancelled = gone(w)
    BY <1>1 DEF PoolTypes, PoolJobs
  <1>6. done' \in [Pics -> 0..Native] /\ failing' \subseteq Pics
    BY DEF SetWant, PoolTypes
  <1>7. looking' = c /\ UNCHANGED <<box, fullWant, waiters, ready>>
    BY DEF SetWant
  <1>8. PoolTypes'
    BY <1>4, <1>6, <1>7 DEF PoolTypes
  <1>9. OneWorkerEach'
    BY <1>5 DEF OneWorkerEach
  <1>10. \A w \in PoolWorkers : AtCamera(w)' <=> AtCamera(w)
    BY <1>5 DEF AtCamera
  <1>11. {job'[w].id : w \in {v \in PoolWorkers : AtCamera(v)'}} = {job[w].id : w \in {v \in PoolWorkers : AtCamera(v)}}
    BY <1>5, <1>10
  <1>12. CameraWaits'
    BY <1>3, <1>5, <1>7, <1>10, <1>11 DEF CameraWaits
  <1> QED BY <1>8, <1>9, <1>12

LEMMA PoolKept ==
  ASSUME PoolInv, [PoolNext]_poolVars
  PROVE  PoolInv'
  <1> USE PoolAssumption
  <1>1. CASE \E w \in PoolWorkers : WorkerLoop(w)
    BY <1>1, PoolWorkerKeeps
  <1>2. CASE \E c \in Pics : SetWant(c)
    BY <1>2, SetWantKeeps
  <1>3. ASSUME UNCHANGED <<looking, job, waiters>>, PoolTypes' PROVE PoolInv'
    BY <1>3 DEF PoolInv, OneWorkerEach, CameraWaits, AtCamera
  <1>4. ASSUME NEW c \in Pics, Get(c) \/ Buffered(c) \/ Vanishes(c) PROVE PoolInv'
    <2>1. PoolTypes' /\ UNCHANGED <<looking, job, waiters>>
      BY <1>4 DEF Get, Buffered, Vanishes, PoolInv, PoolTypes
    <2> QED BY <1>3, <2>1
  <1>5. CASE \E b \in 1..(Native - 1) : SetBox(b)
    <2>1. PoolTypes' /\ UNCHANGED <<looking, job, waiters>>
      BY <1>5 DEF SetBox, PoolInv, PoolTypes
    <2> QED BY <1>3, <2>1
  <1>6. CASE WantFull \/ UNCHANGED poolVars
    <2>1. PoolTypes' /\ UNCHANGED <<looking, job, waiters>>
      BY <1>6 DEF WantFull, poolVars, PoolInv, PoolTypes
    <2> QED BY <1>3, <2>1
  <1> QED BY <1>1, <1>2, <1>4, <1>5, <1>6 DEF PoolNext

(* The state of the decode pool keeps its types, and no photo is decoded by two
   workers at once, whatever moves, resizes, fails or vanishes. *)
THEOREM PoolTyped == PoolSpec => []PoolTypeOK
  <1>1. PoolInv => PoolTypeOK
    <2> SUFFICES ASSUME PoolInv PROVE PoolTypeOK
      OBVIOUS
    <2>1. PoolTypes /\ \A w \in PoolWorkers : job[w] \in PoolJobs
      BY DEF PoolInv, PoolTypes
    <2>2. \A w \in PoolWorkers : job[w].at = "idle" <=> job[w].id = 0
      BY DEF PoolInv, OneWorkerEach
    <2>3. waiters \subseteq InFlight
      BY <2>2 DEF PoolInv, CameraWaits, AtCamera, InFlight
    <2>4. Cardinality(InFlight) = Cardinality({w \in PoolWorkers : job[w].id # 0})
      <3> DEFINE busy == {w \in PoolWorkers : job[w].id # 0}
                 f == [w \in busy |-> job[w].id]
      <3>1. IsFiniteSet(busy)
        BY PoolAssumption, FS_Subset
      <3>2. f \in [busy -> InFlight] /\ \A i \in InFlight : \E w \in busy : f[w] = i
        BY DEF InFlight
      <3>3. \A v, w \in busy : f[v] = f[w] => v = w
        BY DEF PoolInv, OneWorkerEach
      <3>4. f \in Bijection(busy, InFlight)
        BY <3>2, <3>3 DEF Bijection, Injection, Surjection, IsInjective
      <3>5. ExistsBijection(busy, InFlight)
        BY <3>4 DEF ExistsBijection
      <3> QED BY <3>1, <3>5, FS_Bijection
    <2> QED BY <2>1, <2>2, <2>3, <2>4, PoolAssumption DEF PoolTypes, PoolJobs, PoolTypeOK
  <1> QED BY <1>1, PoolStarts, PoolKept, PTL DEF PoolSpec

(* However quickly the cursor moves, and whatever fails: who is counted as
   waiting for the camera waits for it, and only the photo under the cursor is
   waited for by a worker that was not told to give up.  So no slot of the
   waiters is lost, and those behind the cursor come back by themselves. *)
THEOREM OnlyCursorWaits == PoolSpec => []CameraWaits
  <1>1. PoolInv => CameraWaits
    BY DEF PoolInv
  <1> QED BY <1>1, PoolStarts, PoolKept, PTL DEF PoolSpec

(* No more workers wait for the camera than there are slots: the others are left
   for what is in the buffer. *)
SlotsKept == IsFiniteSet(waiters) /\ Cardinality(waiters) <= MaxWaiters

LEMMA SlotsAreKept ==
  ASSUME PoolInv, SlotsKept, [PoolNext]_poolVars
  PROVE  SlotsKept'
  <1> USE PoolAssumption DEF SlotsKept
  <1>1. CASE waiters' = waiters
    BY <1>1
  <1>2. ASSUME NEW i, waiters' = waiters \ {i} PROVE SlotsKept'
    <2>1. IsFiniteSet(waiters') /\ Cardinality(waiters') <= Cardinality(waiters)
      BY <1>2, FS_Subset
    <2>2. Cardinality(waiters') \in Nat /\ Cardinality(waiters) \in Nat
      BY <2>1, FS_CardinalityType
    <2> QED BY <2>1, <2>2
  <1>3. ASSUME NEW w \in PoolWorkers, Claim(w) PROVE SlotsKept'
    <2>1. PICK i \in Pics : /\ NextInLine(i)
                            /\ waiters' = IF i \in ready THEN waiters ELSE waiters \cup {i}
      BY <1>3 DEF Claim
    <2>2. CASE i \in ready
      BY <1>1, <2>1, <2>2
    <2>3. CASE i \notin ready
      <3>1. Cardinality(waiters) < MaxWaiters
        BY <2>1, <2>3 DEF NextInLine, Claimable
      <3>2. /\ IsFiniteSet(waiters \cup {i})
            /\ Cardinality(waiters \cup {i}) = Cardinality(waiters)
               \/ Cardinality(waiters \cup {i}) = Cardinality(waiters) + 1
        BY FS_AddElement
      <3>3. Cardinality(waiters) \in Nat
        BY FS_CardinalityType
      <3> QED BY <2>1, <2>3, <3>1, <3>2, <3>3
    <2> QED BY <2>2, <2>3
  <1>4. ASSUME NEW w \in PoolWorkers, WaitReturns(w) PROVE SlotsKept'
    BY <1>1, <1>2, <1>4 DEF WaitReturns
  <1>5. ASSUME NEW w \in PoolWorkers, Decode(w) \/ Bank(w) PROVE SlotsKept'
    BY <1>1, <1>5 DEF Decode, Bank
  <1>6. CASE \/ \E c \in Pics : SetWant(c) \/ Get(c) \/ Buffered(c) \/ Vanishes(c)
             \/ \E b \in 1..(Native - 1) : SetBox(b)
             \/ WantFull \/ UNCHANGED poolVars
    BY <1>1, <1>6 DEF SetWant, Get, Buffered, Vanishes, SetBox, WantFull, poolVars
  <1> QED BY <1>3, <1>4, <1>5, <1>6 DEF PoolNext, WorkerLoop

(* The photo under the cursor, while it is not decoded, is in a worker's hands, or
   the next that a worker takes, or kept waiting only by workers that were told
   to give up and leave the camera by themselves. *)
CursorIsNext ==
    looking # 0 /\ done[looking] = 0 =>
       \/ looking \in InFlight
       \/ NextInLine(looking)
       \/ \E w \in PoolWorkers : AtCamera(w) /\ job[w].cancelled

LEMMA CursorHasASlot == PoolInv /\ SlotsKept => CursorIsNext
  <1> SUFFICES ASSUME PoolInv, SlotsKept, looking # 0, done[looking] = 0, looking \notin InFlight,
                      \A w \in PoolWorkers : AtCamera(w) => ~job[w].cancelled
               PROVE  NextInLine(looking)
    BY DEF CursorIsNext
  <1> USE PoolAssumption DEF PoolInv
  <1>1. looking \in Pics /\ looking \in Nat
    BY DEF PoolTypes
  <1>2. waiters = {}
    <2> SUFFICES ASSUME NEW i \in waiters PROVE FALSE
      OBVIOUS
    <2>1. PICK w \in PoolWorkers : AtCamera(w) /\ i = job[w].id
      BY DEF CameraWaits
    <2>2. job[w].id = looking
      BY <2>1 DEF CameraWaits
    <2> QED BY <1>1, <2>2 DEF InFlight
  <1>3. Cardinality(waiters) = 0
    BY <1>2, FS_EmptySet
  <1>4. Claimable(looking)
    BY <1>3 DEF Claimable, NeedsWork
  <1>5. looking \in Wanted(looking)
    BY <1>1 DEF Wanted
  <1>6. ASSUME NEW j \in Wanted(looking) PROVE Rank(looking) <= Rank(j)
    <2>1. j \in Nat
      BY DEF Wanted
    <2>2. Rank(looking) = 0
      BY <1>1 DEF Rank
    <2>3. 0 <= Rank(j)
      BY <1>1, <2>1 DEF Rank
    <2> QED BY <2>2, <2>3
  <1> QED BY <1>4, <1>5, <1>6 DEF NextInLine

(* So the pool never stands still before the photo under the cursor: a worker has
   a step, or the engine owes a file to one who waits for it. *)
PoolGoesOn ==
    looking # 0 /\ done[looking] = 0 /\ PoolWorkers # {} =>
       \/ \E w \in PoolWorkers : job[w].at \in {"decode", "bank"}
       \/ \E w \in PoolWorkers : Waiting(w) /\ (job[w].id \in ready \/ job[w].cancelled)
       \/ \E i \in Pics : Demanded(i) /\ i \notin ready
       \/ NextInLine(looking) /\ \E w \in PoolWorkers : job[w].at = "idle"

LEMMA PoolIsNotStuck == PoolInv /\ CursorIsNext => PoolGoesOn
  <1> SUFFICES ASSUME PoolInv, CursorIsNext, looking # 0, done[looking] = 0, NEW v \in PoolWorkers,
                      \A w \in PoolWorkers : job[w].at \notin {"decode", "bank"},
                      \A w \in PoolWorkers : ~Waiting(w)
               PROVE  NextInLine(looking) /\ job[v].at = "idle"
    <2>1. ASSUME PoolInv, NEW w \in PoolWorkers, Waiting(w)
          PROVE  \/ job[w].id \in ready \/ job[w].cancelled
                 \/ \E i \in Pics : Demanded(i) /\ i \notin ready
      <3>1. job[w].id \in Pics
        BY <2>1 DEF PoolInv, PoolTypes, PoolJobs, OneWorkerEach, Waiting
      <3> QED BY <2>1, <3>1 DEF Demanded
    <2> QED BY <2>1 DEF PoolGoesOn
  <1>1. \A w \in PoolWorkers : job[w].at = "idle" /\ job[w].id = 0
    BY DEF PoolInv, PoolTypes, PoolJobs, OneWorkerEach, Waiting
  <1>2. looking \notin InFlight
    BY <1>1 DEF InFlight
  <1>3. \A w \in PoolWorkers : ~AtCamera(w)
    BY <1>1 DEF AtCamera
  <1> QED BY <1>1, <1>2, <1>3 DEF CursorIsNext

(* However the cursor jumps from photo to photo that the camera has to send: the
   workers that wait for it are no more than the slots, and those left behind
   never keep the photo under the cursor from being the next. *)
THEOREM CursorNeverStarved == PoolSpec => [](SlotsKept /\ CursorIsNext /\ PoolGoesOn)
  <1>1. PoolInit => PoolInv /\ SlotsKept
    BY PoolStarts, PoolAssumption, FS_EmptySet DEF PoolInit, SlotsKept
  <1>2. PoolInv /\ SlotsKept /\ [PoolNext]_poolVars => (PoolInv /\ SlotsKept)'
    BY PoolKept, SlotsAreKept
  <1>3. PoolInv /\ SlotsKept => SlotsKept /\ CursorIsNext /\ PoolGoesOn
    BY CursorHasASlot, PoolIsNotStuck
  <1> QED BY <1>1, <1>2, <1>3, PTL DEF PoolSpec

-----------------------------------------------------------------------------
(* Thumbnails.                                                             *)

ThumbStates == [Shooting -> {"missing", "have", "failed"}]
ThumbFiles == {f \in [Shooting -> {"none", "whole", "broken"}] :
                  \A s \in Shooting : f[s] = "broken" => s \in HEIFs}
Disks == [files : ThumbFiles, impossible : SUBSET Shooting,
          orient : SUBSET Shooting, taken : SUBSET Shooting]
Sweeps == [kind : {"none", "heads", "orient", "camera", "posters"}, batch : SUBSET Shooting,
           got : SUBSET Shooting, short : SUBSET Shooting, banked : SUBSET Shooting,
           garbled : SUBSET Shooting, how : {"ok", "reading", "error", "cancelled"}]

Servable == {s \in Shooting :
                disk.files[s] = "whole" \/ (s \in HEIFs /\ disk.files[s] = "broken")}

(* Only the file of a HEIF may be broken, and what a sweep banked is there before
   it is booked. *)
ThumbsInv ==
    /\ thumb \in ThumbStates /\ disk \in Disks /\ task \in Sweeps
    /\ known \subseteq Shooting /\ timed \subseteq Shooting
    /\ task.banked \subseteq Servable
    /\ WholeButHEIFs

LEMMA ThumbsStart == ThumbsInit => ThumbsInv
  BY DEF ThumbsInit, ThumbsInv, ThumbStates, ThumbFiles, Disks, Sweeps, NoTask, Servable, WholeButHEIFs

(* A file that is there stays there, unless it is written again. *)
LEMMA FilesStay ==
  ASSUME ThumbsInv, disk' \in Disks, Servable \subseteq Servable',
         thumb' \in ThumbStates, task' \in Sweeps,
         known' \subseteq Shooting, timed' \subseteq Shooting,
         task'.banked \subseteq Servable',
         \A s \in Shooting : thumb'[s] = "have" => thumb[s] = "have" \/ s \in Servable'
  PROVE  ThumbsInv'
  BY DEF ThumbsInv, Servable, WholeButHEIFs

LEMMA AnsweredKept ==
  ASSUME ThumbsInv, UNCHANGED <<memory, learnt>>,
         NEW got \in SUBSET Shooting, NEW lost, NEW short \in SUBSET Shooting,
         NEW garbled \in SUBSET Shooting, NEW how \in {"ok", "error", "cancelled"},
         Answered(got, lost, short, garbled, how)
  PROVE  ThumbsInv'
  <1>1. Readable(got) \subseteq Shooting
    BY DEF Readable
  <1> DEFINE banked == IF task.kind = "heads"
                       THEN {s \in (Readable(got) \ Bare) \ lost : Accepted(s, short)} ELSE {}
  <1>2. banked \subseteq Shooting /\ \A s \in banked \cap short : s \in HEIFs
    BY <1>1 DEF Accepted
  <1>3. task' \in Sweeps /\ task'.banked = banked
    BY <1>1, <1>2 DEF Answered, ThumbsInv, Sweeps
  <1> DEFINE files == [s \in Shooting |-> IF s \notin banked THEN disk.files[s]
                                          ELSE IF s \in short THEN "broken" ELSE "whole"]
  <1>4. disk' = [disk EXCEPT !.files = files]
    BY DEF Answered, ThumbsInv, Disks
  <1> HIDE DEF banked
  <1>5. files \in ThumbFiles
    BY <1>2 DEF ThumbsInv, Disks, ThumbFiles
  <1>6. disk' \in Disks /\ disk'.files = files
    BY <1>4, <1>5 DEF ThumbsInv, Disks
  <1>7. Servable \subseteq Servable' /\ banked \subseteq Servable'
    BY <1>2, <1>6 DEF Servable
  <1> QED BY <1>3, <1>6, <1>7, FilesStay DEF memory, learnt, ThumbsInv

LEMMA SweepSteps ==
  ASSUME ThumbsInv, (\E kind \in Kinds : Begin(kind)) \/ ReadBatch
  PROVE  ThumbsInv'
  <1>1. CASE \E kind \in Kinds : Begin(kind)
    <2> PICK kind \in Kinds : Begin(kind)
      BY <1>1
    <2>1. Needs(kind) \subseteq Shooting
      BY ThumbsAssumption DEF Kinds, Needs, Shooting
    <2>2. task' \in Sweeps /\ task'.banked = {}
      BY <2>1 DEF Begin, NoTask, Sweeps, Kinds
    <2> QED BY <2>2 DEF Begin, memory, learnt, ThumbsInv, Servable, WholeButHEIFs
  <1>2. CASE ReadBatch
    <2>1. task.batch \in SUBSET Shooting /\ UNCHANGED <<memory, learnt>>
      BY <1>2 DEF ReadBatch, ThumbsInv, Sweeps
    <2>2. CASE Answered(task.batch, {}, {}, {}, "ok")
      BY <2>1, <2>2, AnsweredKept
    <2>3. ASSUME NEW s \in task.batch,
                 \/ Answered(task.batch, {s}, {}, {}, "ok")
                 \/ Answered(task.batch \ {s}, {}, {}, {s}, "ok")
                 \/ \E how \in {"ok", "error", "cancelled"} :
                       \/ Answered(task.batch, {}, {s}, {}, how)
                       \/ Answered(task.batch \ {s}, {}, {}, {}, how)
          PROVE  ThumbsInv'
      <3>1. task.batch \ {s} \in SUBSET Shooting /\ {s} \in SUBSET Shooting /\ {} \in SUBSET Shooting
        BY <2>1
      <3> QED BY <2>1, <2>3, <3>1, AnsweredKept
    <2> QED BY <1>2, <2>2, <2>3 DEF ReadBatch
  <1> QED BY <1>1, <1>2

LEMMA NothingSwept ==
  ASSUME task' = NoTask
  PROVE  task' \in Sweeps /\ task'.banked = {}
  BY DEF NoTask, Sweeps

LEMMA BookingSteps ==
  ASSUME ThumbsInv, BookHeads \/ BookOrient \/ BookCamera \/ BookPosters
  PROVE  ThumbsInv'
  <1>0. task.got \subseteq Shooting /\ task.batch \subseteq Shooting /\ HEIFs \subseteq Shooting
    BY ThumbsAssumption DEF ThumbsInv, Sweeps, Shooting
  <1>1. CASE BookHeads
    <2>1. task' \in Sweeps /\ task'.banked = {}
      BY <1>1, NothingSwept DEF BookHeads, TaskOver
    <2>2. known' \subseteq Shooting /\ timed' \subseteq Shooting
      BY <1>0, <1>1 DEF BookHeads, Learn, ThumbsInv
    <2>3. thumb' \in ThumbStates
          /\ \A s \in Shooting : thumb'[s] = "have" => thumb[s] = "have" \/ s \in task.banked
      BY <1>1 DEF BookHeads, ThumbsInv, ThumbStates
    <2>4. disk' \in Disks /\ disk'.files = disk.files
      BY <1>1 DEF BookHeads, SaveFailed, ThumbsInv, Disks
    <2> QED BY <2>1, <2>2, <2>3, <2>4, FilesStay DEF ThumbsInv, Servable
  <1>2. CASE BookOrient
    <2>1. task' \in Sweeps /\ task'.banked = {}
      BY <1>2, NothingSwept DEF BookOrient, TaskOver
    <2>2. known' \subseteq Shooting /\ timed' \subseteq Shooting
      BY <1>0, <1>2 DEF BookOrient, Learn, ThumbsInv
    <2> QED BY <1>2, <2>1, <2>2, FilesStay DEF BookOrient, memory, ThumbsInv, Servable
  <1>3. CASE BookCamera
    <2>1. task' \in Sweeps /\ task'.banked = {}
      BY <1>3, NothingSwept DEF BookCamera, TaskOver
    <2> DEFINE here(along) == {s \in task.batch \cup along : s \in along \/ Delivered(s) # "none"}
               came(along) == {s \in here(along) : thumb[s] # "have"}
               struck(along) == IF task.how = "ok" THEN {s \in task.batch \ came(along) : thumb[s] # "have"} ELSE {}
               out(along) == {s \in struck(along) : stalls[s] >= 1}
    <2>2. PICK along \in SUBSET (Photos \ Fragments) :
              /\ thumb' = [s \in Shooting |-> IF s \in came(along) THEN "have"
                                              ELSE IF s \in out(along) THEN "failed" ELSE thumb[s]]
              /\ disk' = [disk EXCEPT
                    !.files = [s \in Shooting |->
                        IF s \notin came(along) THEN @[s] ELSE IF s \in along THEN "whole" ELSE Delivered(s)],
                    !.impossible = IF out(along) # {} THEN {s \in Shooting : thumb'[s] = "failed"} ELSE @]
      BY <1>3, Zenon DEF BookCamera
    <2>3. \A s \in came(along) : s \in along \/ Delivered(s) = "whole"
      BY DEF Delivered
    <2>4. thumb' \in ThumbStates
          /\ \A s \in Shooting : thumb'[s] = "have" => thumb[s] = "have" \/ s \in came(along)
      BY <2>2 DEF ThumbsInv, ThumbStates
    <2> DEFINE files == [s \in Shooting |-> IF s \in came(along) THEN "whole" ELSE disk.files[s]]
    <2> HIDE DEF came, out
    <2>5. files \in ThumbFiles
      BY DEF ThumbsInv, Disks, ThumbFiles
    <2>6. disk'.files = files
      BY <2>2, <2>3 DEF ThumbsInv, Disks
    <2>7. disk' \in Disks
      BY <2>2, <2>5, <2>6 DEF ThumbsInv, Disks
    <2>8. Servable \subseteq Servable' /\ \A s \in Shooting \cap came(along) : s \in Servable'
      BY <2>6 DEF Servable
    <2> QED BY <1>3, <2>1, <2>4, <2>7, <2>8, FilesStay DEF BookCamera, learnt, ThumbsInv
  <1>4. CASE BookPosters
    <2>1. task' \in Sweeps /\ task'.banked = {}
      BY <1>4, NothingSwept DEF BookPosters, TaskOver
    <2> DEFINE made == task.got \ (Undecodable \cup task.short)
    <2>2. thumb' \in ThumbStates
          /\ \A s \in Shooting : thumb'[s] = "have" => thumb[s] = "have" \/ s \in made
      BY <1>4 DEF BookPosters, ThumbsInv, ThumbStates
    <2>3. disk' \in Disks /\ Servable' = Servable \cup made
      BY <1>0, <1>4 DEF BookPosters, ThumbsInv, Disks, ThumbFiles, Servable
    <2> QED BY <1>4, <2>1, <2>2, <2>3, FilesStay DEF BookPosters, learnt, ThumbsInv
  <1> QED BY <1>1, <1>2, <1>3, <1>4

LEMMA OtherThumbSteps ==
  ASSUME ThumbsInv, GenEnds \/ Probe \/ ImageProves \/ Restart
                    \/ \E store \in {"orient", "taken"} : Flush(store)
  PROVE  ThumbsInv'
  <1>1. CASE GenEnds
    <2>1. CASE /\ thumb' = [thumb EXCEPT ![making] = "have"]
               /\ disk' = [disk EXCEPT
                    !.files[making] = "whole",
                    !.impossible = IF thumb[making] = "failed"
                                   THEN {s \in Shooting : thumb'[s] = "failed"} ELSE @]
      <3>1. thumb' \in ThumbStates /\ \A s \in Shooting : s # making => thumb'[s] = thumb[s]
        BY <2>1 DEF ThumbsInv, ThumbStates
      <3>2. disk' \in Disks /\ disk'.files = [disk.files EXCEPT ![making] = "whole"]
        BY <2>1 DEF ThumbsInv, Disks, ThumbFiles
      <3>3. \A s \in Shooting : s \in Servable' <=> s \in Servable \/ s = making
        BY <3>2 DEF ThumbsInv, Disks, ThumbFiles, Servable
      <3> QED BY <1>1, <3>1, <3>2, <3>3, FilesStay DEF GenEnds, learnt, ThumbsInv, Servable
    <2>2. CASE /\ thumb' = [thumb EXCEPT ![making] = IF stalls'[making] >= 2 THEN "failed" ELSE @]
               /\ UNCHANGED disk
      <3>1. thumb' \in ThumbStates /\ \A s \in Shooting : thumb'[s] = "have" => thumb[s] = "have"
        BY <2>2 DEF ThumbsInv, ThumbStates
      <3> QED BY <1>1, <2>2, <3>1, FilesStay DEF GenEnds, learnt, ThumbsInv, Servable
    <2> QED BY <1>1, <2>1, <2>2 DEF GenEnds
  <1>2. CASE Forgive /\ UNCHANGED <<known, timed, task>>
    <2>1. thumb' \in ThumbStates /\ \A s \in Shooting : thumb'[s] = "have" => thumb[s] = "have"
      BY <1>2 DEF Forgive, ThumbsInv, ThumbStates
    <2>2. disk' \in Disks /\ disk'.files = disk.files
      BY <1>2 DEF Forgive, SaveFailed, ThumbsInv, Disks
    <2> QED BY <1>2, <2>1, <2>2, FilesStay DEF ThumbsInv, Servable
  <1>3. CASE UNCHANGED <<thumb, disk, task, known, timed>>
    BY <1>3 DEF ThumbsInv, Servable, WholeButHEIFs
  <1>4. CASE Probe \/ ImageProves
    BY <1>2, <1>3, <1>4 DEF Probe, ImageProves, memory, learnt
  <1>5. CASE Restart
    <2>1. thumb' \in ThumbStates /\ \A s \in Shooting : thumb'[s] = "have" => s \in Servable
      BY <1>5 DEF Restart, Reload, ThumbsInv, ThumbStates, Disks, ThumbFiles, Servable
    <2>2. known' \subseteq Shooting /\ timed' \subseteq Shooting
      BY <1>5 DEF Restart, ThumbsInv, Disks
    <2> QED BY <1>5, <2>1, <2>2, NothingSwept, FilesStay DEF Restart, ThumbsInv, Servable
  <1>6. CASE \E store \in {"orient", "taken"} : Flush(store)
    <2>1. disk' \in Disks /\ disk'.files = disk.files
      BY <1>6 DEF Flush, ThumbsInv, Disks
    <2> QED BY <1>6, <2>1, FilesStay DEF Flush, memory, ThumbsInv, Servable
  <1> QED BY <1>1, <1>4, <1>5, <1>6

LEMMA ThumbsKept ==
  ASSUME ThumbsInv, [ThumbsNext]_tvars
  PROVE  ThumbsInv'
  <1>1. CASE BackoffEnds \/ GenPick \/ GenAsk \/ (\E s \in Photos : Buffer(s)) \/ EvictFar
             \/ UNCHANGED tvars
    <2>1. UNCHANGED <<thumb, disk, task, known, timed>>
      BY <1>1 DEF BackoffEnds, GenPick, GenAsk, Buffer, EvictFar, tvars, memory, learnt
    <2> QED BY <2>1 DEF ThumbsInv, Servable, WholeButHEIFs
  <1> QED BY <1>1, SweepSteps, BookingSteps, OtherThumbSteps
          DEF ThumbsNext, SweepStep, GenStep, Flushing

(* Whatever is interrupted or comes back short, and after every restart, a
   thumbnail that clients are told of is a file in the cache, and a whole one
   unless it was lifted out of a HEIF. *)
THEOREM ThumbsAreWholeButHEIFs == ThumbsSpec => []WholeButHEIFs
  <1>1. ThumbsInv /\ [ThumbsNext]_tvars => ThumbsInv'
    BY ThumbsKept
  <1>2. ThumbsInv => WholeButHEIFs
    BY DEF ThumbsInv
  <1> QED BY <1>1, <1>2, ThumbsStart, PTL DEF ThumbsSpec

(* The shots of a sweep are of its kind, and what it got is of its shots. *)
SweepTypes ==
    /\ task.kind \in {"heads", "orient", "camera"} => task.batch \subseteq Photos
    /\ task.got \subseteq task.batch /\ task.short \cup task.banked \subseteq task.got
StoreTypes ==
    /\ known \subseteq Photos /\ timed \subseteq HEIFs /\ tried \subseteq Photos
    /\ disk.orient \subseteq Photos /\ disk.taken \subseteq HEIFs
ImageTypes == buffered \subseteq Photos /\ wanted \subseteq Photos /\ making \in Photos \cup {0}
CountTypes == stalls \in [Shooting -> 0..4]
BreakerTypes == untrusted \in BOOLEAN /\ backoff \in BOOLEAN
UnsavedTypes == unsaved \subseteq {"orient", "taken"}

LEMMA SweepTypesKept ==
  ASSUME ThumbsInv, SweepTypes, [ThumbsNext]_tvars
  PROVE  SweepTypes'
  <1> USE DEF SweepTypes
  <1>0. task \in Sweeps
    BY DEF ThumbsInv
  <1>1. ASSUME NEW kind \in Kinds, Begin(kind) PROVE SweepTypes'
    <2>1. PICK b \in SUBSET Needs(kind) :
              task' = [NoTask EXCEPT !.kind = kind, !.batch = b, !.how = "reading"]
      BY <1>1 DEF Begin
    <2>2. task'.kind = kind /\ task'.batch = b /\ task'.got = {} /\ task'.short = {} /\ task'.banked = {}
      BY <2>1 DEF NoTask
    <2>3. kind \in {"heads", "orient", "camera"} => Needs(kind) \subseteq Photos
      BY ThumbsAssumption DEF Needs
    <2> QED BY <2>2, <2>3
  <1>2. ASSUME NEW got \in SUBSET task.batch, NEW lost, NEW short, NEW garbled, NEW how,
               Answered(got, lost, short, garbled, how)
        PROVE  SweepTypes'
    <2> DEFINE banked == IF task.kind = "heads"
                         THEN {s \in (Readable(got) \ Bare) \ lost : Accepted(s, short)} ELSE {}
               cut == short \cap Readable(got)
    <2>1. task' = [task EXCEPT !.got = Readable(got), !.short = cut, !.banked = banked,
                               !.garbled = garbled, !.how = how]
      BY <1>2 DEF Answered
    <2>2. Readable(got) \subseteq got /\ banked \subseteq Readable(got) /\ cut \subseteq Readable(got)
      BY DEF Readable
    <2> HIDE DEF banked, cut
    <2>3. task'.kind = task.kind /\ task'.batch = task.batch /\ task'.got = Readable(got)
          /\ task'.banked = banked /\ task'.short = cut
      BY <1>0, <2>1 DEF Sweeps
    <2> QED BY <2>2, <2>3
  <1>3. CASE ReadBatch
    <2>1. \A s : task.batch \ {s} \in SUBSET task.batch
      OBVIOUS
    <2>2. \E got \in SUBSET task.batch : \E lost, short, garbled, how :
                                         Answered(got, lost, short, garbled, how)
      BY <1>3, <2>1 DEF ReadBatch
    <2> QED BY <1>2, <2>2
  <1>4. CASE task' = NoTask
    BY <1>4 DEF NoTask
  <1>5. CASE task' = task
    BY <1>5
  <1> QED
    BY <1>1, <1>3, <1>4, <1>5
    DEF ThumbsNext, SweepStep, GenStep, Flushing, BookHeads, BookOrient, BookCamera, BookPosters, TaskOver,
        Probe, ImageProves, BackoffEnds, GenPick, GenAsk, GenEnds, Buffer, EvictFar, Flush, Restart, tvars

LEMMA StoreTypesKept ==
  ASSUME ThumbsInv, SweepTypes, StoreTypes, [ThumbsNext]_tvars
  PROVE  StoreTypes'
  <1> USE ThumbsAssumption DEF StoreTypes
  <1>0. disk \in Disks
    BY DEF ThumbsInv
  <1>1. CASE BookHeads \/ BookOrient
    <2>1. task.got \subseteq Photos
      BY <1>1 DEF BookHeads, BookOrient, Booking, SweepTypes
    <2>2. known' \subseteq Photos /\ timed' \subseteq HEIFs
      BY <1>1, <2>1 DEF BookHeads, BookOrient, Learn
    <2>3. tried' \subseteq Photos
      BY <1>1, <2>1 DEF BookHeads, BookOrient, memory
    <2>4. disk'.orient = disk.orient /\ disk'.taken = disk.taken
      BY <1>0, <1>1 DEF BookHeads, BookOrient, SaveFailed, Disks
    <2> QED BY <2>2, <2>3, <2>4
  <1>2. CASE ReadBatch
    <2>1. \E got, lost, short, garbled, how : Answered(got, lost, short, garbled, how)
      BY <1>2 DEF ReadBatch
    <2>2. disk'.orient = disk.orient /\ disk'.taken = disk.taken
      BY <1>0, <2>1 DEF Answered, Disks
    <2> QED BY <1>2, <2>2 DEF ReadBatch, memory, learnt
  <1>3. CASE BookCamera \/ BookPosters \/ GenEnds
    <2>1. disk'.orient = disk.orient /\ disk'.taken = disk.taken
      BY <1>0, <1>3 DEF BookCamera, BookPosters, GenEnds, Disks
    <2> QED BY <1>3, <2>1 DEF BookCamera, BookPosters, GenEnds, learnt
  <1>4. CASE Probe \/ ImageProves
    <2>1. disk'.orient = disk.orient /\ disk'.taken = disk.taken
      BY <1>0, <1>4 DEF Probe, ImageProves, Forgive, SaveFailed, Disks
    <2> QED BY <1>4, <2>1 DEF Probe, ImageProves, Forgive, memory, learnt
  <1>5. ASSUME NEW store, Flush(store) PROVE StoreTypes'
    <2>1. disk'.orient \in {disk.orient, known} /\ disk'.taken \in {disk.taken, timed}
      BY <1>0, <1>5 DEF Flush, Disks
    <2> QED BY <1>5, <2>1 DEF Flush, memory
  <1>6. CASE Restart
    BY <1>6 DEF Restart
  <1>7. CASE UNCHANGED <<memory, learnt, disk>>
    BY <1>7 DEF memory, learnt
  <1> QED
    BY <1>1, <1>2, <1>3, <1>4, <1>5, <1>6, <1>7
    DEF ThumbsNext, SweepStep, GenStep, Flushing, Begin, BackoffEnds, GenPick, GenAsk, Buffer, EvictFar, tvars

LEMMA ImageTypesKept ==
  ASSUME ImageTypes, [ThumbsNext]_tvars
  PROVE  ImageTypes'
  <1> USE DEF ImageTypes
  <1>1. CASE GenPick \/ GenAsk \/ GenEnds \/ EvictFar \/ Restart \/ \E s \in Photos : Buffer(s)
    BY <1>1 DEF GenPick, GenTargets, GenAsk, GenEnds, EvictFar, Restart, Buffer
  <1>2. CASE UNCHANGED images
    BY <1>2 DEF images
  <1> QED
    BY <1>1, <1>2
    DEF ThumbsNext, SweepStep, GenStep, Flushing, Begin, ReadBatch, BookHeads, BookOrient, BookCamera,
        BookPosters, Probe, ImageProves, BackoffEnds, Flush, tvars

LEMMA CountTypesKept ==
  ASSUME CountTypes, ImageTypes, [ThumbsNext]_tvars
  PROVE  CountTypes'
  <1> USE DEF CountTypes
  <1>1. \A n \in 0..4 : Least(n + 1, 4) \in 0..4
    BY DEF Least
  <1>2. CASE BookHeads \/ BookCamera \/ BookPosters
    <2>1. ASSUME NEW some, stalls' = [s \in Shooting |-> IF s \in some THEN Least(stalls[s] + 1, 4) ELSE stalls[s]]
          PROVE  CountTypes'
      BY <1>1, <2>1
    <2>2. CASE BookHeads
      BY <2>2 DEF BookHeads
    <2>3. CASE BookCamera
      <3>1. \E some : stalls' = [s \in Shooting |-> IF s \in some THEN Least(stalls[s] + 1, 4) ELSE stalls[s]]
        <4> DEFINE came(along) == {s \in {x \in task.batch \cup along : x \in along \/ Delivered(x) # "none"} :
                                      thumb[s] # "have"}
                   struck(along) == IF task.how = "ok" THEN {s \in task.batch \ came(along) : thumb[s] # "have"}
                                    ELSE {}
        <4>1. PICK along \in SUBSET (Photos \ Fragments) :
                  stalls' = [s \in Shooting |-> IF s \in struck(along) THEN Least(stalls[s] + 1, 4) ELSE stalls[s]]
          BY <2>3, Zenon DEF BookCamera
        <4> HIDE DEF struck
        <4> QED BY <4>1
      <3> QED BY <2>1, <3>1
    <2>4. CASE BookPosters
      <3>1. \E some : stalls' = [s \in Shooting |-> IF s \in some THEN Least(stalls[s] + 1, 4) ELSE stalls[s]]
        BY <2>4, Zenon DEF BookPosters
      <3> QED BY <2>1, <3>1
    <2> QED BY <1>2, <2>2, <2>3, <2>4
  <1>3. CASE GenEnds
    <2>1. making \in Shooting
      BY <1>3 DEF GenEnds, ImageTypes, Shooting
    <2> QED BY <1>1, <1>3, <2>1 DEF GenEnds
  <1>4. CASE Forgive \/ Restart
    BY <1>4 DEF Forgive, Restart
  <1>5. CASE UNCHANGED stalls
    BY <1>5
  <1> QED
    BY <1>2, <1>3, <1>4, <1>5
    DEF ThumbsNext, SweepStep, GenStep, Flushing, Begin, ReadBatch, BookOrient, Probe, ImageProves,
        BackoffEnds, GenPick, GenAsk, Buffer, EvictFar, Flush, memory, tvars

LEMMA BreakerTypesKept ==
  ASSUME BreakerTypes, UnsavedTypes, [ThumbsNext]_tvars
  PROVE  BreakerTypes' /\ UnsavedTypes'
  <1>1. BreakerTypes'
    BY Zenon DEF BreakerTypes, ThumbsNext, SweepStep, GenStep, Flushing, Begin, ReadBatch, BookHeads, BookOrient,
        BookCamera, BookPosters, TaskOver, Probe, ImageProves, BackoffEnds, GenPick, GenAsk, GenEnds,
        Buffer, EvictFar, Flush, Restart, tvars
  <1>2. UnsavedTypes'
    BY DEF UnsavedTypes, ThumbsNext, SweepStep, GenStep, Flushing, Begin, ReadBatch, BookHeads, BookOrient,
        BookCamera, BookPosters, Learn, Probe, ImageProves, BackoffEnds, GenPick, GenAsk, GenEnds,
        Buffer, EvictFar, Flush, Restart, learnt, tvars
  <1> QED BY <1>1, <1>2

(* The state of the thumbnails keeps its types: a sweep is about shots that it
   is made for, and what is noted of a shot is of a kind that has it. *)
THEOREM ThumbsTyped == ThumbsSpec => []ThumbsTypeOK
  <1> DEFINE AllTypes == ThumbsInv /\ SweepTypes /\ StoreTypes /\ ImageTypes /\ CountTypes
                      /\ BreakerTypes /\ UnsavedTypes
  <1>1. ThumbsInit => AllTypes
    <2> SUFFICES ASSUME ThumbsInit PROVE AllTypes
      OBVIOUS
    <2>1. SweepTypes
      BY DEF ThumbsInit, SweepTypes, NoTask
    <2>2. StoreTypes /\ ImageTypes /\ CountTypes /\ UnsavedTypes
      BY DEF ThumbsInit, StoreTypes, ImageTypes, CountTypes, UnsavedTypes
    <2>3. BreakerTypes
      BY DEF ThumbsInit, BreakerTypes
    <2> QED BY <2>1, <2>2, <2>3, ThumbsStart
  <1>2. AllTypes /\ [ThumbsNext]_tvars => AllTypes'
    BY ThumbsKept, SweepTypesKept, StoreTypesKept, ImageTypesKept, CountTypesKept, BreakerTypesKept
  <1>3. AllTypes => ThumbsTypeOK
    <2> SUFFICES ASSUME AllTypes PROVE ThumbsTypeOK
      OBVIOUS
    <2>1. disk.files \in [Shooting -> {"none", "whole", "broken"}] /\ disk.impossible \subseteq Shooting
      BY DEF ThumbsInv, Disks, ThumbFiles
    <2> QED BY <2>1 DEF ThumbsInv, ThumbStates, SweepTypes, StoreTypes, ImageTypes, CountTypes,
                        BreakerTypes, UnsavedTypes, ThumbsTypeOK
  <1> QED BY <1>1, <1>2, <1>3, PTL DEF ThumbsSpec

(* Nothing but a decoder that fails strikes a photo more than twice, and those near
   the cursor have their image in the cache then, and keep it. *)
NearStrikes ==
    /\ task.kind = "posters" => task.batch \subseteq Movies
    /\ \A s \in Photos \ Far :
          /\ making = s => s \in buffered
          /\ s \notin buffered => stalls[s] <= 2
          /\ s \notin buffered /\ (thumb[s] = "missing" \/ (task.kind = "camera" /\ s \in task.batch))
                => stalls[s] <= 1

(* Somebody has a photo without a thumbnail on his list: the camera's sweep, the
   generator, or the generator when it asks for images. *)
NearIsTried ==
    \A s \in Photos \ Far : thumb[s] # "have" =>
       s \in Needs("camera") \/ s \in GenTargets \/ (thumb[s] = "failed" /\ stalls[s] < 4)

LEMMA NearSwept ==
  ASSUME ThumbsInv, CountTypes, NearStrikes, BookCamera
  PROVE  NearStrikes'
  <1> DEFINE came(along) == {s \in {x \in task.batch \cup along : x \in along \/ Delivered(x) # "none"} :
                                thumb[s] # "have"}
             struck(along) == IF task.how = "ok" THEN {s \in task.batch \ came(along) : thumb[s] # "have"}
                              ELSE {}
             out(along) == {s \in struck(along) : stalls[s] >= 1}
  <1>1. PICK along \in SUBSET (Photos \ Fragments) :
            /\ thumb' = [s \in Shooting |-> IF s \in came(along) THEN "have"
                                            ELSE IF s \in out(along) THEN "failed" ELSE thumb[s]]
            /\ stalls' = [s \in Shooting |-> IF s \in struck(along) THEN Least(stalls[s] + 1, 4) ELSE stalls[s]]
    BY Zenon DEF BookCamera
  <1>2. struck(along) \subseteq task.batch /\ task.kind = "camera"
    BY DEF BookCamera, Booking
  <1>3. \A s \in struck(along) : s \in out(along) <=> stalls[s] >= 1
    OBVIOUS
  <1>4. task'.kind = "none" /\ UNCHANGED <<making, buffered>>
    BY DEF BookCamera, TaskOver, NoTask, images
  <1> HIDE DEF came, struck, out
  <1> SUFFICES ASSUME NEW s \in Photos \ Far, s \notin buffered
               PROVE  stalls'[s] <= 2 /\ (thumb'[s] = "missing" => stalls'[s] <= 1)
    BY <1>4 DEF NearStrikes
  <1>5. s \in Shooting /\ stalls[s] \in 0..4 /\ stalls[s] <= 2
    BY DEF Shooting, CountTypes, NearStrikes
  <1>6. CASE s \in struck(along)
    <2>1. stalls[s] <= 1 /\ stalls'[s] = stalls[s] + 1
      BY <1>1, <1>2, <1>5, <1>6 DEF NearStrikes, Least
    <2>2. stalls[s] = 1 => thumb'[s] # "missing"
      BY <1>1, <1>3, <1>5, <1>6
    <2> QED BY <1>5, <2>1, <2>2
  <1>7. CASE s \notin struck(along)
    <2>1. stalls'[s] = stalls[s] /\ (thumb'[s] = "missing" => thumb[s] = "missing")
      BY <1>1, <1>5, <1>7
    <2> QED BY <1>5, <2>1 DEF NearStrikes
  <1> QED BY <1>6, <1>7

LEMMA NearKept ==
  ASSUME ThumbsInv, SweepTypes, CountTypes, ImageTypes, NearStrikes, [ThumbsNext]_tvars
  PROVE  NearStrikes'
  <1> USE DEF NearStrikes
  <1>1. ASSUME NEW kind \in Kinds, Begin(kind) PROVE NearStrikes'
    <2>1. PICK b \in SUBSET Needs(kind) :
              task' = [NoTask EXCEPT !.kind = kind, !.batch = b, !.how = "reading"]
      BY <1>1 DEF Begin
    <2>2. task'.kind = kind /\ task'.batch = b
      BY <2>1 DEF NoTask
    <2>3. kind = "posters" => b \subseteq Movies
      BY DEF Needs
    <2>4. kind = "camera" => \A s \in b : thumb[s] = "missing"
      BY DEF Needs
    <2> QED BY <1>1, <2>2, <2>3, <2>4 DEF Begin, memory, images
  <1>2. CASE ReadBatch
    <2>1. \E got, lost, short, garbled, how : Answered(got, lost, short, garbled, how)
      BY <1>2 DEF ReadBatch
    <2>2. task'.kind = task.kind /\ task'.batch = task.batch
      BY <2>1 DEF Answered, ThumbsInv, Sweeps
    <2> QED BY <1>2, <2>2 DEF ReadBatch, memory, images
  <1>3. CASE BookHeads
    <2>1. \A s \in Photos : (thumb'[s] = "missing" => thumb[s] = "missing")
                            /\ (stalls'[s] = 0 \/ stalls'[s] = stalls[s])
      BY <1>3 DEF BookHeads, Shooting
    <2>2. task'.kind = "none" /\ UNCHANGED <<making, buffered>>
      BY <1>3 DEF BookHeads, TaskOver, NoTask, images
    <2> QED BY <2>1, <2>2
  <1>4. CASE BookOrient
    <2>1. task'.kind = "none" /\ UNCHANGED <<making, buffered, thumb, stalls>>
      BY <1>4 DEF BookOrient, TaskOver, NoTask, images, memory
    <2> QED BY <2>1
  <1>5. CASE BookPosters
    <2>1. task.got \subseteq Movies
      BY <1>5 DEF BookPosters, Booking, SweepTypes
    <2>2. \A s \in Photos : s \notin task.got /\ s \in Shooting
      BY <2>1, ThumbsAssumption DEF Shooting
    <2>3. \A s \in Photos : thumb'[s] = thumb[s] /\ stalls'[s] = stalls[s]
      BY <1>5, <2>2 DEF BookPosters
    <2>4. task'.kind = "none" /\ UNCHANGED <<making, buffered>>
      BY <1>5 DEF BookPosters, TaskOver, NoTask, images
    <2> QED BY <2>3, <2>4
  <1>6. CASE GenEnds
    <2>1. \A s \in Photos \ Far : s \notin buffered => s # making
      OBVIOUS
    <2>2. \A s \in Photos : s # making => thumb'[s] = thumb[s] /\ stalls'[s] = stalls[s]
      BY <1>6 DEF GenEnds, ThumbsInv, ThumbStates, CountTypes, Shooting
    <2>3. making' = 0 /\ UNCHANGED <<task, buffered>> /\ 0 \notin Photos
      BY <1>6, ThumbsAssumption DEF GenEnds, Shooting
    <2> QED BY <2>1, <2>2, <2>3
  <1>7. CASE Forgive /\ UNCHANGED <<task, images>>
    <2>1. \A s \in Photos : /\ stalls'[s] = 0 \/ (stalls'[s] = stalls[s] /\ thumb'[s] = thumb[s])
      BY <1>7 DEF Forgive, Shooting
    <2> QED BY <1>7, <2>1 DEF images
  <1>8. CASE Restart
    <2>1. \A s \in Photos : stalls'[s] <= 2 /\ (thumb'[s] = "missing" => stalls'[s] = 0)
      BY <1>8 DEF Restart, Shooting
    <2>2. task'.kind = "none" /\ making' = 0 /\ 0 \notin Photos
      BY <1>8, ThumbsAssumption DEF Restart, NoTask, Shooting
    <2> QED BY <2>1, <2>2
  <1>9. CASE GenPick \/ GenAsk \/ EvictFar \/ \E s \in Photos : Buffer(s)
    <2>1. UNCHANGED <<thumb, stalls, task>>
      BY <1>9 DEF GenPick, GenAsk, EvictFar, Buffer, memory
    <2>2. \A s \in Photos \ Far : (s \in buffered => s \in buffered') /\ (making' = s => s \in buffered')
      BY <1>9 DEF GenPick, GenTargets, GenAsk, EvictFar, Buffer
    <2> QED BY <2>1, <2>2
  <1>10. CASE UNCHANGED <<thumb, stalls, task, making, buffered>>
    BY <1>10
  <1> QED
    BY <1>1, <1>2, <1>3, <1>4, <1>5, <1>6, <1>7, <1>8, <1>9, <1>10, NearSwept
    DEF ThumbsNext, SweepStep, GenStep, Flushing, BackoffEnds, Probe, ImageProves, Flush, memory, images, tvars

(* However often the camera and the decoders fail, whatever was evicted and
   however the program was restarted: no photo near the cursor is given up.  One
   that has had all its strikes has its image in the cache, where the generator
   tries it again. *)
THEOREM NearPhotosAreTried == ThumbsSpec => []NearIsTried
  <1> DEFINE All == ThumbsInv /\ SweepTypes /\ CountTypes /\ ImageTypes /\ NearStrikes
  <1>1. ThumbsInit => All
    <2> SUFFICES ASSUME ThumbsInit PROVE All
      OBVIOUS
    <2>1. SweepTypes
      BY DEF ThumbsInit, SweepTypes, NoTask
    <2>2. CountTypes /\ ImageTypes
      BY DEF ThumbsInit, CountTypes, ImageTypes
    <2>3. NearStrikes
      BY ThumbsAssumption DEF ThumbsInit, NearStrikes, NoTask, Shooting
    <2> QED BY <2>1, <2>2, <2>3, ThumbsStart
  <1>2. All /\ [ThumbsNext]_tvars => All'
    BY ThumbsKept, SweepTypesKept, CountTypesKept, ImageTypesKept, NearKept
  <1>3. All => NearIsTried
    <2> SUFFICES ASSUME All, NEW s \in Photos \ Far, thumb[s] # "have"
                 PROVE  s \in Needs("camera") \/ s \in GenTargets \/ (thumb[s] = "failed" /\ stalls[s] < 4)
      BY DEF NearIsTried
    <2>1. thumb[s] \in {"missing", "failed"} /\ stalls[s] \in 0..4
      BY DEF ThumbsInv, ThumbStates, CountTypes, Shooting
    <2>2. CASE thumb[s] = "missing"
      BY <2>2 DEF Needs
    <2>3. CASE s \in buffered
      BY <2>3 DEF GenTargets
    <2>4. CASE s \notin buffered /\ thumb[s] = "failed"
      BY <2>1, <2>4 DEF NearStrikes
    <2> QED BY <2>1, <2>2, <2>3, <2>4
  <1> QED BY <1>1, <1>2, <1>3, PTL DEF ThumbsSpec


-----------------------------------------------------------------------------
(* The three together.                                                     *)

allVars == <<part, vars, tvars, poolVars>>

LEMMA PullPart == MCInit /\ [][MCNext]_allVars => Spec
  <1>1. MCInit => Init
    BY DEF MCInit
  <1>2. [MCNext]_allVars => [Next]_vars
    BY DEF MCNext, allVars
  <1> QED BY <1>1, <1>2, PTL DEF Spec

LEMMA SweepPart == MCInit /\ [][MCNext]_allVars => ThumbsSpec
  <1>1. MCInit => ThumbsInit
    BY DEF MCInit
  <1>2. [MCNext]_allVars => [ThumbsNext]_tvars
    BY DEF MCNext, allVars
  <1> QED BY <1>1, <1>2, PTL DEF ThumbsSpec

LEMMA DecodePart == MCInit /\ [][MCNext]_allVars => PoolSpec
  <1>1. MCInit => PoolInit
    BY DEF MCInit
  <1>2. [MCNext]_allVars => [PoolNext]_poolVars
    BY DEF MCNext, allVars
  <1> QED BY <1>1, <1>2, PTL DEF PoolSpec

(* Whichever of the three runs, the state of all of them keeps its types: each
   does on its own variables only what its specification allows. *)
THEOREM CameraTyped == MCSpec => []MCTypeOK
  <1>0. MCSpec => MCInit /\ [][MCNext]_allVars
    BY PTL DEF MCSpec, allVars
  <1>1. TypeOK /\ ThumbsTypeOK /\ PoolTypeOK => MCTypeOK
    BY DEF MCTypeOK
  <1> QED BY <1>0, <1>1, PullPart, SweepPart, DecodePart, PrefetchTypes, ThumbsTyped, PoolTyped, PTL

=============================================================================
