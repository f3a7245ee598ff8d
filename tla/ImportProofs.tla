---------------------------- MODULE ImportProofs ----------------------------
(***************************************************************************)
(* Proofs about Import and its Streamer, for every set of files, sizes,    *)
(* limits, bounds and faults.  The counters are integers here: that they   *)
(* are never negative is what SlotsBalanced says of the slots.             *)
(***************************************************************************)
EXTENDS Import, FiniteSetTheorems, WellFoundedInduction, TLAPS

-----------------------------------------------------------------------------
(* The sum of the sizes of a set of files: MapThenSumSet recurs on a file   *)
(* it picks, and what is needed is the sum without any given file.  The     *)
(* inductions take a smallest counterexample.                               *)

(* A set of finite sets of files that is not empty has a smallest member. *)
LEMMA SmallestSet ==
    ASSUME NEW sets, sets \subseteq SUBSET Files, sets # {}
    PROVE  \E s \in sets : \A t \in sets : ~(t \subseteq s /\ t # s)
  <1>1. IsWellFoundedOn(StrictSubsetOrdering(Files), SUBSET Files)
    BY FilesAssumption, FS_StrictSubsetOrderingWellFounded, FS_FiniteSubsetsOfFinite
  <1>2. PICK s \in sets : \A t \in sets : <<t, s>> \notin StrictSubsetOrdering(Files)
    BY <1>1, WFMin
  <1>3. \A t \in sets : ~(t \subseteq s /\ t # s)
    BY <1>2 DEF StrictSubsetOrdering
  <1> QED BY <1>3

Total(S) == MapThenSumSet(LAMBDA f : Size[f], S)
Pick(S) == CHOOSE f \in S : TRUE

(* g is the function that MapThenSumSet recurs on for the set D. *)
Sums(g, D) == g = [s \in SUBSET D |-> IF s = {} THEN 0 ELSE Size[Pick(s)] + g[s \ {Pick(s)}]]

LEMMA TotalDef == ASSUME NEW S PROVE Total(S) = (CHOOSE g : Sums(g, S))[S]
  BY DEF Total, MapThenSumSet, MapThenFoldSet, Sums, Pick

LEMMA PickIn == ASSUME NEW S, S # {} PROVE Pick(S) \in S
  BY DEF Pick

LEMMA SumsAgree ==
    ASSUME NEW D \in SUBSET Files, NEW E \in SUBSET Files, NEW g, NEW h, Sums(g, D), Sums(h, E),
           NEW s \in SUBSET D, s \subseteq E
    PROVE  g[s] = h[s]
  <1> DEFINE differ == {t \in SUBSET D : t \subseteq E /\ g[t] # h[t]}
  <1>1. SUFFICES ASSUME differ # {} PROVE FALSE
    OBVIOUS
  <1>0. differ \subseteq SUBSET Files
    OBVIOUS
  <1> HIDE DEF differ
  <1>2. PICK t \in differ : \A u \in differ : ~(u \subseteq t /\ u # t)
    BY <1>0, <1>1, SmallestSet
  <1> USE DEF differ
  <1>3. t # {}
    BY DEF Sums
  <1>4. Pick(t) \in t
    BY <1>3, PickIn
  <1>5. t \ {Pick(t)} \notin differ
    BY <1>2, <1>4
  <1>6. g[t \ {Pick(t)}] = h[t \ {Pick(t)}]
    BY <1>5
  <1>7. g[t] = Size[Pick(t)] + g[t \ {Pick(t)}] /\ h[t] = Size[Pick(t)] + h[t \ {Pick(t)}]
    BY <1>3 DEF Sums
  <1> QED BY <1>6, <1>7

LEMMA SumsExist ==
    ASSUME NEW D \in SUBSET Files
    PROVE  \E g : Sums(g, D)
  <1> DEFINE without == {E \in SUBSET Files : ~\E g : Sums(g, E)}
  <1>1. SUFFICES ASSUME without # {} PROVE FALSE
    OBVIOUS
  <1>0. without \subseteq SUBSET Files
    OBVIOUS
  <1> HIDE DEF without
  <1>2. PICK E \in without : \A t \in without : ~(t \subseteq E /\ t # E)
    BY <1>0, <1>1, SmallestSet
  <1> USE DEF without
  <1>3. \A s \in SUBSET E : s # E => \E g : Sums(g, s)
    BY <1>2
  <1> DEFINE h == [s \in SUBSET E |-> IF s = {} THEN 0 ELSE Size[Pick(s)] + Total(s \ {Pick(s)})]
  <1>4. ASSUME NEW s \in SUBSET E, s # E PROVE h[s] = Total(s)
    <2>1. PICK g : Sums(g, s) /\ Total(s) = g[s]
      BY <1>3, <1>4, TotalDef
    <2>2. CASE s = {}
      BY <2>1, <2>2 DEF Sums
    <2>3. CASE s # {}
      <3>1. Pick(s) \in s
        BY <2>3, PickIn
      <3> DEFINE u == s \ {Pick(s)}
      <3>2. u \in SUBSET E /\ u # E /\ u \in SUBSET s
        BY <3>1
      <3>3. PICK k : Sums(k, u) /\ Total(u) = k[u]
        BY <1>3, <3>2, TotalDef
      <3>4. k[u] = g[u]
        BY <2>1, <3>2, <3>3, SumsAgree
      <3>5. g[s] = Size[Pick(s)] + g[u]
        BY <2>1, <2>3 DEF Sums
      <3>6. h[s] = Size[Pick(s)] + Total(u)
        BY <2>3
      <3> QED BY <2>1, <3>3, <3>4, <3>5, <3>6
    <2> QED BY <2>2, <2>3
  <1>5. ASSUME NEW s \in SUBSET E, s # {} PROVE h[s \ {Pick(s)}] = Total(s \ {Pick(s)})
    <2>1. s \ {Pick(s)} \in SUBSET E /\ s \ {Pick(s)} # E
      BY <1>5, PickIn
    <2> QED BY <1>4, <2>1
  <1>6. Sums(h, E)
    BY <1>5 DEF Sums
  <1> QED BY <1>6

LEMMA TotalStep ==
    ASSUME NEW S \in SUBSET Files
    PROVE  Total(S) = IF S = {} THEN 0 ELSE Size[Pick(S)] + Total(S \ {Pick(S)})
  <1>1. PICK g : Sums(g, S) /\ Total(S) = g[S]
    BY SumsExist, TotalDef
  <1>2. CASE S = {}
    BY <1>1, <1>2 DEF Sums
  <1>3. CASE S # {}
    <2>1. PICK h : Sums(h, S \ {Pick(S)}) /\ Total(S \ {Pick(S)}) = h[S \ {Pick(S)}]
      BY SumsExist, TotalDef
    <2>2. g[S \ {Pick(S)}] = h[S \ {Pick(S)}]
      BY <1>1, <2>1, SumsAgree
    <2>3. g[S] = Size[Pick(S)] + g[S \ {Pick(S)}]
      BY <1>1, <1>3 DEF Sums
    <2> QED BY <1>1, <1>3, <2>1, <2>2, <2>3
  <1> QED BY <1>2, <1>3

LEMMA TotalType == \A S \in SUBSET Files : Total(S) \in Nat
  <1> DEFINE bad == {S \in SUBSET Files : Total(S) \notin Nat}
  <1>1. SUFFICES ASSUME bad # {} PROVE FALSE
    OBVIOUS
  <1>0. bad \subseteq SUBSET Files
    OBVIOUS
  <1> HIDE DEF bad
  <1>2. PICK S \in bad : \A t \in bad : ~(t \subseteq S /\ t # S)
    BY <1>0, <1>1, SmallestSet
  <1> USE DEF bad
  <1>3. S # {}
    BY TotalStep
  <1>4. Pick(S) \in S
    BY <1>3, PickIn
  <1>5. Total(S \ {Pick(S)}) \in Nat
    BY <1>2, <1>4
  <1>6. Size[Pick(S)] \in Nat
    BY <1>4, FilesAssumption
  <1>7. Total(S) = Size[Pick(S)] + Total(S \ {Pick(S)})
    BY <1>3, TotalStep
  <1> QED BY <1>5, <1>6, <1>7

LEMMA TotalRemove ==
    \A S \in SUBSET Files : \A f \in S : Total(S) = Total(S \ {f}) + Size[f]
  <1> DEFINE bad == {S \in SUBSET Files : \E f \in S : Total(S) # Total(S \ {f}) + Size[f]}
  <1>1. SUFFICES ASSUME bad # {} PROVE FALSE
    OBVIOUS
  <1>0. bad \subseteq SUBSET Files
    OBVIOUS
  <1> HIDE DEF bad
  <1>2. PICK S \in bad : \A t \in bad : ~(t \subseteq S /\ t # S)
    BY <1>0, <1>1, SmallestSet
  <1> USE DEF bad
  <1>3. PICK f \in S : Total(S) # Total(S \ {f}) + Size[f]
    BY <1>2
  <1> DEFINE p == Pick(S)
  <1>4. p \in S /\ Total(S) = Size[p] + Total(S \ {p})
    BY <1>3, PickIn, TotalStep
  <1>5. /\ Size[p] \in Nat /\ Size[f] \in Nat /\ Total(S \ {p}) \in Nat
        /\ Total(S \ {f}) \in Nat /\ Total((S \ {p}) \ {f}) \in Nat
    BY <1>4, FilesAssumption, TotalType
  <1> HIDE DEF p
  <1>6. CASE p = f
    BY <1>3, <1>4, <1>5, <1>6
  <1>7. CASE p # f
    <2>1. S \ {p} \notin bad /\ S \ {f} \notin bad
      BY <1>2, <1>4
    <2>2. Total(S \ {p}) = Total((S \ {p}) \ {f}) + Size[f]
      BY <1>7, <2>1
    <2>3. Total(S \ {f}) = Total((S \ {f}) \ {p}) + Size[p]
      BY <1>4, <1>7, <2>1
    <2>4. (S \ {f}) \ {p} = (S \ {p}) \ {f}
      OBVIOUS
    <2>5. Total(S \ {f}) = Total((S \ {p}) \ {f}) + Size[p]
      BY <2>3, <2>4
    <2> QED BY <1>3, <1>4, <1>5, <2>2, <2>5
  <1> QED BY <1>6, <1>7
-----------------------------------------------------------------------------
(* The inductive invariant.                                                *)

Shape ==
    /\ mode \in Modes
    /\ stream \in {"off", "open", "draining", "check", "retry", "ok", "error"}
    /\ at \in [Files -> Places]
    /\ disk \in [Dirs -> SUBSET Files]
    /\ immich \subseteq Files
    /\ pc \in {"idle", "open", "scan", "pull", "wait"}
    /\ running \in BOOLEAN
    /\ copyErr \in BOOLEAN
    /\ \A q \in requests : q.files \subseteq Files
    /\ keepers \subseteq Files
    /\ todo \subseteq Files /\ pending \subseteq Files
    /\ landed \subseteq Files /\ failed \subseteq Files
    /\ marking \subseteq Mark

Handed == In(Places \ {"out"})

(* Where the importer is and how far its Streamer is go together. *)
Phases ==
    /\ ~running => pc = "idle"
    /\ pc \in {"idle", "open"} => stream = "off" /\ Handed = {}
    /\ pc \in {"scan", "pull"} => stream = "open"
    /\ pc = "wait" => stream \notin {"off", "open"}
    /\ stream \notin {"off", "open"} => Adding = {}
    /\ stream \in {"check", "retry", "ok", "error"} => In({"out", "done"}) = Files

(* No keeper is forgotten as long as nothing has failed for good. *)
Tracked ==
    /\ copyErr => pc = "wait"
    /\ ~copyErr => keepers \subseteq todo \cup pending \cup landed \cup failed \cup Handed
    /\ pc \in {"pull", "wait"} /\ ~copyErr => todo = {}
    /\ pc = "wait" /\ ~copyErr => pending = {} /\ landed = {} /\ failed = {}

(* What was handed on is in the destination, if copies are kept. *)
Local == mode.keep => Handed \subseteq disk["dest"]

(* A Streamer that is content knows that the server has every entry. *)
Verified == stream = "ok" /\ mode.immich => Entries \subseteq immich

(* A run carries all files of its shots. *)
Whole(files) == \A f, g \in Files : ShotOf[f] = ShotOf[g] /\ g \in files => f \in files
WholeShots == Whole(keepers) /\ \A q \in requests : Whole(q.files)

Arrived(shots, byServer) ==
    FilesOf(shots) \subseteq (IF byServer THEN immich ELSE disk["dest"])
MarksTrue == \A m \in marking : Arrived(m.shots, m.immich)

Inv == Shape /\ Phases /\ Tracked /\ Local /\ Verified /\ WholeShots /\ MarksTrue /\ ImportedArrived

-----------------------------------------------------------------------------
(* What a run that succeeded has achieved.                                 *)

LEMMA SuccessDelivers ==
    ASSUME Inv, pc = "wait", Succeeded
    PROVE  /\ keepers \subseteq (IF mode.immich THEN immich ELSE disk["dest"])
           /\ ~mode.keep => mode.immich
  <1>1. keepers \subseteq Handed
    BY DEF Inv, Tracked, Succeeded
  <1>2. Handed \subseteq Entries
    BY DEF Inv, Phases, Succeeded, Handed, Entries, In, Places
  <1>3. ~mode.keep => mode.immich
    BY DEF Inv, Shape, Modes
  <1>4. mode.immich => keepers \subseteq immich
    BY <1>1, <1>2 DEF Inv, Verified, Succeeded
  <1>5. ~mode.immich => keepers \subseteq disk["dest"]
    BY <1>1, <1>3 DEF Inv, Local, Shape, Modes
  <1> QED BY <1>3, <1>4, <1>5

-----------------------------------------------------------------------------
(* The steps.                                                              *)

LEMMA InitInv == Init => Inv
  <1> SUFFICES ASSUME Init PROVE Inv
    OBVIOUS
  <1>1. Handed = {} /\ Adding = {} /\ Entries = {} /\ at \in [Files -> Places]
    BY DEF Init, NoRun, StreamOff, Handed, Adding, Entries, In, Places
  <1>2. mode \in Modes /\ disk \in [Dirs -> SUBSET Files]
    BY DEF Init, NoRun, StreamOff, Modes
  <1>3. Shape
    BY <1>1, <1>2 DEF Init, NoRun, StreamOff, Shape
  <1>4. Phases /\ Tracked /\ Local /\ Verified /\ WholeShots
    BY <1>1 DEF Init, NoRun, StreamOff, Phases, Tracked, Local, Verified, WholeShots, Whole
  <1>5. MarksTrue /\ ImportedArrived
    BY DEF Init, MarksTrue, ImportedArrived, FilesOf
  <1> QED BY <1>3, <1>4, <1>5 DEF Inv

LEMMA StartSteps == Inv /\ (Ask \/ Begin) => Inv'
  <1> SUFFICES ASSUME Inv, Ask \/ Begin PROVE Inv'
    OBVIOUS
  <1>1. CASE Ask
    <2>1. PICK kept \in SUBSET Shots, again \in BOOLEAN :
             requests' = requests \cup {[call |-> starts + 1, files |-> KeeperFiles(kept, again)]}
      BY <1>1 DEF Ask
    <2>2. KeeperFiles(kept, again) \subseteq Files /\ Whole(KeeperFiles(kept, again))
      BY DEF KeeperFiles, FilesOf, Whole
    <2>3. \A q \in requests' : q \in requests \/ q.files = KeeperFiles(kept, again)
      BY <2>1
    <2>4. \A q \in requests' : q.files \subseteq Files
      BY <2>2, <2>3 DEF Inv, Shape
    <2>5. WholeShots'
      BY <1>1, <2>2, <2>3 DEF Inv, WholeShots, Whole, Ask, copyVars
    <2>6. Shape'
      BY <1>1, <2>4 DEF Inv, Shape, Ask, copyVars, markVars, streamVars, world
    <2>7. Phases' /\ Tracked' /\ Local' /\ Verified'
      BY <1>1 DEF Inv, Phases, Tracked, Local, Verified, Handed, Adding, Entries, In,
                  Ask, copyVars, markVars, streamVars, world
    <2>8. MarksTrue' /\ ImportedArrived'
      BY <1>1 DEF Inv, MarksTrue, Arrived, ImportedArrived, Ask, copyVars, markVars, streamVars, world
    <2> QED BY <2>5, <2>6, <2>7, <2>8 DEF Inv
  <1>2. CASE Begin
    <2>1. PICK q \in requests, m \in Modes :
             /\ requests' = requests \ {q}
             /\ IF running
                THEN UNCHANGED <<mode, pc, running, copyVars>>
                ELSE /\ running' = TRUE
                     /\ pc' = "open"
                     /\ mode' = m
                     /\ keepers' = q.files
                     /\ todo' = q.files
                     /\ pending' = {} /\ landed' = {} /\ failed' = {}
                     /\ round' = 0
                     /\ copyErr' = FALSE
             /\ UNCHANGED <<stream, at, slots, outBytes, noted, tries, accepted, world, starts,
                            markVars>>
      BY <1>2 DEF Begin
    <2>2. q.files \subseteq Files /\ Whole(q.files)
      BY DEF Inv, Shape, WholeShots
    <2>3. ~running => pc = "idle" /\ stream = "off" /\ Handed = {}
      BY DEF Inv, Phases
    <2>4. Shape'
      BY <2>1, <2>2 DEF Inv, Shape, copyVars, markVars, world
    <2>5. Phases' /\ Tracked' /\ Local' /\ Verified'
      BY <2>1, <2>2, <2>3 DEF Inv, Phases, Tracked, Local, Verified, Handed, Adding, Entries, In,
                              copyVars, world
    <2>6. WholeShots'
      BY <2>1, <2>2 DEF Inv, WholeShots, Whole, copyVars
    <2>7. MarksTrue' /\ ImportedArrived'
      BY <2>1 DEF Inv, MarksTrue, Arrived, ImportedArrived, markVars, world
    <2> QED BY <2>4, <2>5, <2>6, <2>7 DEF Inv
  <1> QED BY <1>1, <1>2

LEMMA NextOfIn ==
    ASSUME NEW files, files # {}
    PROVE  NextOf(files) \in files
  BY DEF NextOf

(* A file is landed and handed on, or only handed on. *)
LEMMA HandOn ==
    ASSUME Inv, NEW f \in Files, pc \in {"scan", "pull"}, Add(f),
           Land(f) \/ (f \in disk[Dir] /\ UNCHANGED disk),
           UNCHANGED <<immich, pc, running, requests, keepers, copyErr, markVars>>
    PROVE  /\ Handed' = Handed \cup {f}
           /\ Phases' /\ Local' /\ Verified' /\ WholeShots' /\ MarksTrue' /\ ImportedArrived'
           /\ mode' \in Modes /\ stream' = "open" /\ at' \in [Files -> Places]
           /\ disk' \in [Dirs -> SUBSET Files]
  <1>1. stream = "open" /\ stream' = "open" /\ mode' = mode
    BY DEF Add
  <1>2. at' \in [Files -> Places] /\ Handed' = Handed \cup {f}
    BY DEF Add, Inv, Shape, Places, Handed, In
  <1>3. disk' \in [Dirs -> SUBSET Files] /\ disk["dest"] \subseteq disk'["dest"]
    BY DEF Inv, Shape, Land, Dir, Dirs, Staged
  <1>4. mode.keep => f \in disk'["dest"]
    BY DEF Inv, Shape, Land, Dir, Dirs, Staged
  <1>5. Local'
    BY <1>1, <1>2, <1>3, <1>4 DEF Inv, Local
  <1>6. Phases' /\ Verified'
    BY <1>1, <1>2 DEF Inv, Phases, Verified
  <1>7. WholeShots' /\ MarksTrue' /\ ImportedArrived'
    BY <1>3 DEF Inv, WholeShots, Whole, MarksTrue, Arrived, ImportedArrived, markVars
  <1> QED BY <1>1, <1>2, <1>3, <1>5, <1>6, <1>7 DEF Inv, Shape

(* The copy ends and the Streamer is told. *)
LEMMA StopCopy ==
    ASSUME Inv, pc \in {"scan", "pull"}, CopyReturns, copyErr' \in BOOLEAN,
           ~copyErr' => ~copyErr /\ pc = "pull" /\ pending = {} /\ landed = {} /\ failed = {},
           UNCHANGED <<world, running, requests, keepers, markVars>>
    PROVE  Inv'
  <1>1. /\ stream' = "draining" /\ at' = at /\ mode' = mode /\ Adding = {}
        /\ pc' = "wait" /\ todo' = {} /\ pending' = {} /\ landed' = {} /\ failed' = {}
    BY DEF CopyReturns, CloseJobs
  <1>2. Shape'
    BY <1>1 DEF Inv, Shape, world, markVars
  <1>3. running
    BY DEF Inv, Phases
  <1>4. Phases'
    BY <1>1, <1>3 DEF Phases, Adding, In
  <1>5. Tracked'
    BY <1>1 DEF Inv, Tracked, Handed, In
  <1>6. Local' /\ Verified' /\ WholeShots' /\ MarksTrue' /\ ImportedArrived'
    BY <1>1 DEF Inv, Local, Handed, In, Verified, WholeShots, Whole, MarksTrue, Arrived,
                ImportedArrived, world, markVars
  <1> QED BY <1>2, <1>4, <1>5, <1>6 DEF Inv

LEMMA CopySteps ==
    Inv /\ (Scan \/ GiveUpCopy \/ StartPull \/ PullChunk \/ LandNext \/ EndRound) => Inv'
  <1> SUFFICES ASSUME Inv, Scan \/ GiveUpCopy \/ StartPull \/ PullChunk \/ LandNext \/ EndRound
               PROVE  Inv'
    OBVIOUS
  <1>1. CASE Scan
    <2> DEFINE f == NextOf(todo)
    <2>1. f \in todo /\ f \in Files /\ todo' = todo \ {f} /\ pc = "scan"
      BY <1>1, NextOfIn DEF Scan, Inv, Shape
    <2>2. UNCHANGED <<immich, pc, running, requests, keepers, landed, failed, copyErr, markVars>>
      BY <1>1 DEF Scan
    <2>3. \/ Add(f) /\ (Land(f) \/ (f \in disk[Dir] /\ UNCHANGED disk)) /\ UNCHANGED pending
          \/ pending' = pending \cup {f} /\ UNCHANGED <<streamVars, disk>>
      BY <1>1 DEF Scan
    <2> HIDE DEF f
    <2>4. CASE Add(f) /\ (Land(f) \/ (f \in disk[Dir] /\ UNCHANGED disk)) /\ UNCHANGED pending
      <3>1. /\ Handed' = Handed \cup {f}
            /\ Phases' /\ Local' /\ Verified' /\ WholeShots' /\ MarksTrue' /\ ImportedArrived'
            /\ mode' \in Modes /\ stream' = "open" /\ at' \in [Files -> Places]
            /\ disk' \in [Dirs -> SUBSET Files]
        BY <2>1, <2>2, <2>4, HandOn
      <3>2. Shape'
        BY <2>1, <2>2, <2>4, <3>1 DEF Inv, Shape, markVars
      <3>3. Tracked'
        BY <2>1, <2>2, <2>4, <3>1 DEF Inv, Tracked
      <3> QED BY <3>1, <3>2, <3>3 DEF Inv
    <2>5. CASE pending' = pending \cup {f} /\ UNCHANGED <<streamVars, disk>>
      <3>1. Shape' /\ Phases' /\ Local' /\ Verified' /\ Tracked'
        BY <2>1, <2>2, <2>5 DEF Inv, Shape, Phases, Local, Verified, Tracked, Handed, Adding,
                                Entries, In, streamVars, markVars
      <3>2. WholeShots' /\ MarksTrue' /\ ImportedArrived'
        BY <2>2, <2>5 DEF Inv, WholeShots, Whole, MarksTrue, Arrived, ImportedArrived, markVars
      <3> QED BY <3>1, <3>2 DEF Inv
    <2> QED BY <2>3, <2>4, <2>5
  <1>2. CASE GiveUpCopy
    BY <1>2, StopCopy DEF GiveUpCopy
  <1>3. CASE StartPull
    <2>1. Shape' /\ Phases' /\ Local' /\ Verified' /\ Tracked'
      BY <1>3 DEF StartPull, Inv, Shape, Phases, Local, Verified, Tracked, Handed, Adding,
                  Entries, In, streamVars, world, markVars
    <2>2. WholeShots' /\ MarksTrue' /\ ImportedArrived'
      BY <1>3 DEF StartPull, Inv, WholeShots, Whole, MarksTrue, Arrived, ImportedArrived, world,
                  markVars
    <2> QED BY <2>1, <2>2 DEF Inv
  <1>4. CASE PullChunk
    <2>1. PICK chunk \in SUBSET pending, got \in SUBSET pending :
             /\ got \subseteq chunk
             /\ landed' = got
             /\ failed' = failed \cup (chunk \ got)
             /\ pending' = pending \ chunk
      BY <1>4 DEF PullChunk
    <2>2. /\ pc = "pull" /\ landed = {}
          /\ UNCHANGED <<streamVars, world, pc, running, requests, keepers, todo, copyErr, markVars>>
      BY <1>4 DEF PullChunk
    <2>3. Shape' /\ Phases' /\ Local' /\ Verified' /\ Tracked'
      BY <2>1, <2>2 DEF Inv, Shape, Phases, Local, Verified, Tracked, Handed, Adding, Entries, In,
                        streamVars, world, markVars
    <2>4. WholeShots' /\ MarksTrue' /\ ImportedArrived'
      BY <2>2 DEF Inv, WholeShots, Whole, MarksTrue, Arrived, ImportedArrived, world, markVars
    <2> QED BY <2>3, <2>4 DEF Inv
  <1>5. CASE LandNext
    <2> DEFINE f == NextOf(landed)
    <2>1. f \in landed /\ f \in Files /\ landed' = landed \ {f} /\ pc = "pull" /\ Add(f) /\ Land(f)
      BY <1>5, NextOfIn DEF LandNext, Inv, Shape
    <2>2. UNCHANGED <<immich, pc, running, requests, keepers, todo, pending, failed, copyErr, markVars>>
      BY <1>5 DEF LandNext
    <2> HIDE DEF f
    <2>3. /\ Handed' = Handed \cup {f}
          /\ Phases' /\ Local' /\ Verified' /\ WholeShots' /\ MarksTrue' /\ ImportedArrived'
          /\ mode' \in Modes /\ stream' = "open" /\ at' \in [Files -> Places]
          /\ disk' \in [Dirs -> SUBSET Files]
      BY <2>1, <2>2, HandOn
    <2>4. Shape' /\ Tracked'
      BY <2>1, <2>2, <2>3 DEF Inv, Shape, Tracked, markVars
    <2> QED BY <2>3, <2>4 DEF Inv
  <1>6. CASE EndRound
    <2>1. CASE failed # {} /\ round < Rounds
      <3>1. Shape' /\ Phases' /\ Local' /\ Verified' /\ Tracked'
        BY <1>6, <2>1 DEF EndRound, Inv, Shape, Phases, Local, Verified, Tracked, Handed, Adding,
                          Entries, In, streamVars, world, markVars
      <3>2. WholeShots' /\ MarksTrue' /\ ImportedArrived'
        BY <1>6 DEF EndRound, Inv, WholeShots, Whole, MarksTrue, Arrived, ImportedArrived, world,
                    markVars
      <3> QED BY <3>1, <3>2 DEF Inv
    <2>2. CASE ~(failed # {} /\ round < Rounds)
      <3>1. CASE failed = {}
        <4>1. ~copyErr
          BY <1>6 DEF EndRound, Inv, Tracked
        <4> QED BY <1>6, <2>2, <3>1, <4>1, StopCopy DEF EndRound
      <3>2. CASE failed # {}
        BY <1>6, <2>2, <3>2, StopCopy DEF EndRound
      <3> QED BY <3>1, <3>2
    <2> QED BY <2>1, <2>2
  <1> QED BY <1>1, <1>2, <1>3, <1>4, <1>5, <1>6

LEMMA RunEndsInv ==
    ASSUME Inv, RunIsGone, UNCHANGED <<immich, imported, uploaded>>,
           requests' \subseteq requests, disk' \in [Dirs -> SUBSET Files],
           disk'["dest"] = disk["dest"], marking' \subseteq Mark, MarksTrue'
    PROVE  Inv'
  <1>1. Handed' = {} /\ Adding' = {} /\ Entries' = {} /\ at' \in [Files -> Places]
    BY DEF RunIsGone, StreamerIsGone, Handed, Adding, Entries, In, Places
  <1>2. mode' \in Modes
    BY DEF RunIsGone, StreamerIsGone, Modes
  <1>3. Shape'
    BY <1>1, <1>2 DEF RunIsGone, StreamerIsGone, Inv, Shape
  <1>4. Phases' /\ Tracked' /\ Local' /\ Verified' /\ WholeShots'
    BY <1>1 DEF RunIsGone, StreamerIsGone, Inv, Phases, Tracked, Local, Verified, WholeShots, Whole
  <1>5. ImportedArrived'
    BY DEF Inv, ImportedArrived
  <1> QED BY <1>3, <1>4, <1>5 DEF Inv

LEMMA EndSteps == Inv /\ (Open \/ Finish \/ MarkImported \/ Kill) => Inv'
  <1> SUFFICES ASSUME Inv, Open \/ Finish \/ MarkImported \/ Kill PROVE Inv'
    OBVIOUS
  <1>1. CASE Open
    <2>1. UNCHANGED <<world, requests, markVars>>
      BY <1>1 DEF Open
    <2>2. CASE NewStreamer(mode) /\ pc' = "scan" /\ UNCHANGED <<running, copyVars>>
      <3>1. pc = "open" /\ Handed = {} /\ running
        BY <1>1 DEF Open, Inv, Phases
      <3>2. Handed' = {} /\ Adding' = {} /\ at' \in [Files -> Places]
        BY <2>2 DEF NewStreamer, Handed, Adding, In, Places
      <3>3. mode' = mode /\ stream' = "open"
        BY <2>2 DEF NewStreamer
      <3>4. Shape'
        BY <2>1, <2>2, <3>2, <3>3 DEF Inv, Shape, copyVars, markVars, world
      <3>5. Phases' /\ Tracked' /\ Local' /\ Verified'
        BY <2>1, <2>2, <3>1, <3>2, <3>3 DEF Inv, Phases, Tracked, Local, Verified, copyVars
      <3>6. WholeShots' /\ MarksTrue' /\ ImportedArrived'
        BY <2>1, <2>2 DEF Inv, WholeShots, Whole, MarksTrue, Arrived, ImportedArrived, copyVars,
                          world, markVars
      <3> QED BY <3>4, <3>5, <3>6 DEF Inv
    <2>3. CASE RunIsGone
      <3>1. MarksTrue' /\ marking' \subseteq Mark
        BY <2>1 DEF Inv, Shape, MarksTrue, Arrived, world, markVars
      <3>2. disk' \in [Dirs -> SUBSET Files] /\ disk'["dest"] = disk["dest"]
        BY <2>1 DEF Inv, Shape, world
      <3> QED BY <2>1, <2>3, <3>1, <3>2, RunEndsInv DEF world, markVars
    <2> QED BY <1>1, <2>2, <2>3 DEF Open
  <1>2. CASE Finish
    <2>1. /\ RunIsGone
          /\ UNCHANGED <<immich, requests, imported, uploaded>>
      BY <1>2 DEF Finish
    <2>2. disk' \in [Dirs -> SUBSET Files] /\ disk'["dest"] = disk["dest"]
      BY <1>2 DEF Finish, Inv, Shape, Dirs
    <2>3. CASE Succeeded
      <3> DEFINE m == [shots |-> {ShotOf[f] : f \in keepers}, immich |-> mode.immich]
      <3>1. marking' = marking \cup {m}
        BY <1>2, <2>3 DEF Finish
      <3>2. m \in Mark
        BY DEF Mark, Shots, Inv, Shape, Modes
      <3>3. FilesOf(m.shots) \subseteq keepers
        BY DEF Inv, Shape, WholeShots, Whole, FilesOf
      <3>4. Arrived(m.shots, m.immich)
        BY <1>2, <2>3, <3>3, SuccessDelivers DEF Arrived, Finish
      <3>5. MarksTrue'
        BY <2>1, <2>2, <3>1, <3>4 DEF Inv, MarksTrue, Arrived
      <3>6. marking' \subseteq Mark
        BY <3>1, <3>2 DEF Inv, Shape
      <3> QED BY <2>1, <2>2, <3>5, <3>6, RunEndsInv
    <2>4. CASE ~Succeeded
      <3>1. marking' = marking
        BY <1>2, <2>4 DEF Finish
      <3>2. MarksTrue' /\ marking' \subseteq Mark
        BY <2>1, <2>2, <3>1 DEF Inv, Shape, MarksTrue, Arrived
      <3> QED BY <2>1, <2>2, <3>2, RunEndsInv
    <2> QED BY <2>3, <2>4
  <1>3. CASE MarkImported
    <2>1. PICK m \in marking :
             /\ marking' = marking \ {m}
             /\ imported' = imported \cup m.shots
             /\ uploaded' = IF m.immich THEN uploaded \cup m.shots ELSE uploaded
      BY <1>3 DEF MarkImported
    <2>2. UNCHANGED <<streamVars, world, pc, running, starts, requests, copyVars>>
      BY <1>3 DEF MarkImported
    <2>3. Shape' /\ Phases' /\ Tracked' /\ Local' /\ Verified' /\ WholeShots'
      BY <2>1, <2>2 DEF Inv, Shape, Phases, Tracked, Local, Verified, WholeShots, Whole, Handed,
                        Adding, Entries, In, streamVars, world, copyVars
    <2>4. MarksTrue'
      BY <2>1, <2>2 DEF Inv, MarksTrue, Arrived, world
    <2>5. Arrived(m.shots, m.immich)
      BY DEF Inv, MarksTrue
    <2>6. ImportedArrived'
      BY <2>1, <2>2, <2>5 DEF Inv, ImportedArrived, Arrived, FilesOf, world
    <2> QED BY <2>3, <2>4, <2>6 DEF Inv
  <1>4. CASE Kill
    <2>1. RunIsGone /\ requests' = {} /\ marking' = {} /\ UNCHANGED <<world, imported, uploaded>>
      BY <1>4 DEF Kill
    <2>2. MarksTrue' /\ disk' \in [Dirs -> SUBSET Files] /\ disk'["dest"] = disk["dest"]
      BY <2>1 DEF MarksTrue, Inv, Shape, world
    <2> QED BY <2>1, <2>2, RunEndsInv DEF world
  <1> QED BY <1>1, <1>2, <1>3, <1>4

(* What the Streamer's steps leave alone, and what they may change. *)
LEMMA StreamFrame ==
    ASSUME Inv, at' \in [Files -> Places], Handed' = Handed,
           disk' \in [Dirs -> SUBSET Files], disk["dest"] = disk'["dest"],
           immich \subseteq immich', immich' \subseteq Files, mode' = mode,
           UNCHANGED <<pc, running, starts, requests, copyVars, markVars>>
    PROVE  /\ Tracked' /\ Local' /\ WholeShots' /\ MarksTrue' /\ ImportedArrived'
           /\ stream' = stream => Shape'
  <1>1. Tracked' /\ Local' /\ WholeShots'
    BY DEF Inv, Tracked, Local, WholeShots, Whole, copyVars
  <1>2. MarksTrue' /\ ImportedArrived'
    BY DEF Inv, MarksTrue, Arrived, ImportedArrived, markVars
  <1>3. stream' = stream => Shape'
    BY DEF Inv, Shape, copyVars, markVars
  <1> QED BY <1>1, <1>2, <1>3

LEMMA FileSteps ==
    ASSUME Inv, NEW f \in Files, AddStep(f) \/ WorkerStep(f),
           UNCHANGED <<pc, running, starts, requests, copyVars, markVars>>
    PROVE  Inv'
  <1>1. /\ at[f] \in {"slot", "bytes", "enqueue", "queued", "upload", "release"}
        /\ \E p \in Places \ {"out", "slot"} : at' = [at EXCEPT ![f] = p]
        /\ at[f] \notin {"slot", "bytes", "enqueue"} =>
              \E p \in Places \ {"out", "slot", "bytes", "enqueue"} : at' = [at EXCEPT ![f] = p]
        /\ stream' = stream /\ mode' = mode
    BY DEF AddStep, WorkerStep, TakeSlot, AcquireBytes, Enqueue, Hash, Upload, Release, Places
  <1>2. /\ disk' \in [Dirs -> SUBSET Files] /\ disk["dest"] = disk'["dest"]
        /\ immich \subseteq immich' /\ immich' \subseteq Files
    BY DEF AddStep, WorkerStep, TakeSlot, AcquireBytes, Enqueue, Hash, Upload, Release, world,
           Inv, Shape, Dirs
  <1>3. at' \in [Files -> Places] /\ Handed' = Handed
    BY <1>1 DEF Inv, Shape, Handed, In, Places
  <1>4. stream \in {"open", "draining"}
    BY <1>1 DEF Inv, Shape, Phases, In, Handed, Places
  <1>5. stream = "draining" => Adding' = {}
    BY <1>1, <1>4 DEF Inv, Shape, Phases, Adding, In, Places
  <1>6. Phases'
    BY <1>1, <1>3, <1>4, <1>5 DEF Inv, Phases
  <1>7. Verified'
    BY <1>1, <1>4 DEF Verified
  <1> QED BY <1>1, <1>2, <1>3, <1>6, <1>7, StreamFrame DEF Inv

LEMMA WaitSteps ==
    ASSUME Inv, WaitStep,
           UNCHANGED <<pc, running, starts, requests, copyVars, markVars>>
    PROVE  Inv'
  <1>1. /\ stream \in {"draining", "check", "retry"}
        /\ stream' \in {"check", "retry", "ok", "error"}
        /\ at' = at /\ mode' = mode /\ disk' = disk
        /\ immich \subseteq immich' /\ immich' \subseteq Files
    BY DEF WaitStep, Drained, Validate, Retry, world, Inv, Shape, Missing, Entries, In
  <1>2. In({"out", "done"}) = Files
    BY DEF WaitStep, Drained, Validate, Retry, Inv, Phases
  <1>3. Phases'
    BY <1>1, <1>2 DEF Inv, Phases, Adding, Handed, In
  <1>4. Verified'
    BY <1>1 DEF WaitStep, Drained, Validate, Retry, Verified, Missing, Entries, In, world
  <1>5. /\ Tracked' /\ Local' /\ WholeShots' /\ MarksTrue' /\ ImportedArrived'
    BY <1>1, StreamFrame DEF Inv, Shape, Handed, In
  <1>6. Shape'
    BY <1>1 DEF Inv, Shape, copyVars, markVars
  <1> QED BY <1>3, <1>4, <1>5, <1>6 DEF Inv

LEMMA NextInv == Inv /\ [Next]_vars => Inv'
  <1> SUFFICES ASSUME Inv, [Next]_vars PROVE Inv'
    OBVIOUS
  <1>1. CASE Ask \/ Begin
    BY <1>1, StartSteps
  <1>2. CASE RunStep
    BY <1>2, CopySteps, EndSteps DEF RunStep
  <1>3. CASE StreamStep
    <2>1. UNCHANGED <<pc, running, starts, requests, copyVars, markVars>>
      BY <1>3 DEF StreamStep
    <2>2. CASE WaitStep
      BY <2>1, <2>2, WaitSteps
    <2>3. CASE \E f \in Files : AddStep(f) \/ WorkerStep(f)
      BY <2>1, <2>3, FileSteps
    <2> QED BY <1>3, <2>2, <2>3 DEF StreamStep
  <1>4. CASE MarkImported \/ Kill
    BY <1>4, EndSteps
  <1>5. CASE UNCHANGED vars
    <2>1. Shape' /\ Phases' /\ Tracked' /\ Local' /\ Verified'
      BY <1>5 DEF Inv, Shape, Phases, Tracked, Local, Verified, Handed, Adding, Entries, In, vars,
                  streamVars, world, copyVars, markVars
    <2>2. WholeShots' /\ MarksTrue' /\ ImportedArrived'
      BY <1>5 DEF Inv, WholeShots, Whole, MarksTrue, Arrived, ImportedArrived, vars, world,
                  copyVars, markVars
    <2> QED BY <2>1, <2>2 DEF Inv
  <1> QED BY <1>1, <1>2, <1>3, <1>4, <1>5 DEF Next

-----------------------------------------------------------------------------
(* The counters of the buffer.                                             *)

(* What is taken is what is held; without staging nothing is taken. *)
Ledger ==
    /\ slots = IF Staged THEN Cardinality(HoldSlot) ELSE 0
    /\ outBytes = IF Staged THEN Total(HoldBytes) ELSE 0
    /\ slots <= BufferAhead
    /\ Staged /\ HoldBytes # {} => \E f \in HoldBytes : outBytes < BufferBytes + Size[f]

LEMMA HoldersAreFiles ==
    /\ HoldSlot \in SUBSET Files /\ HoldBytes \in SUBSET Files
    /\ IsFiniteSet(HoldSlot) /\ Cardinality(HoldSlot) \in Nat /\ Total(HoldBytes) \in Nat
  <1>1. HoldSlot \in SUBSET Files /\ HoldBytes \in SUBSET Files
    BY DEF HoldSlot, HoldBytes, In
  <1>2. IsFiniteSet(HoldSlot) /\ Cardinality(HoldSlot) \in Nat
    BY <1>1, FilesAssumption, FS_Subset, FS_CardinalityType
  <1>3. Total(HoldBytes) \in Nat
    BY <1>1, TotalType
  <1> QED BY <1>1, <1>2, <1>3

LEMMA LimitTypes ==
    /\ BufferAhead \in Nat /\ BufferAhead > 0 /\ BufferBytes \in Nat /\ BufferBytes > 0
    /\ Workers \in Nat /\ Workers > 0 /\ QueueCap \in Nat /\ QueueCap > 0
  BY LimitsAssumption

(* No file in the pipeline, nothing taken. *)
LEMMA EmptyLedger ==
    ASSUME HoldSlot = {}, HoldBytes = {}
    PROVE  Ledger <=> slots = 0 /\ outBytes = 0
  <1>1. Cardinality({}) = 0
    BY FS_EmptySet
  <1>2. Total({}) = 0
    BY TotalStep
  <1> QED BY <1>1, <1>2, LimitTypes DEF Ledger

LEMMA NoneHeld ==
    ASSUME Handed = {}
    PROVE  HoldSlot = {} /\ HoldBytes = {}
  BY DEF Handed, HoldSlot, HoldBytes, In, Places

LEMMA LedgerInit == Init => Ledger
  <1> SUFFICES ASSUME Init PROVE Ledger
    OBVIOUS
  <1>1. HoldSlot = {} /\ HoldBytes = {} /\ slots = 0 /\ outBytes = 0
    BY DEF Init, NoRun, StreamOff, HoldSlot, HoldBytes, In
  <1> QED BY <1>1, EmptyLedger

LEMMA LedgerGone ==
    ASSUME slots' = 0, outBytes' = 0, at' = [f \in Files |-> "out"]
    PROVE  Ledger'
  <1>1. HoldSlot' = {} /\ HoldBytes' = {}
    BY DEF HoldSlot, HoldBytes, In
  <1>2. Cardinality({}) = 0 /\ Total({}) = 0
    BY FS_EmptySet, TotalStep
  <1> QED BY <1>1, <1>2, LimitTypes DEF Ledger

LEMMA LedgerKept ==
    ASSUME Ledger, mode' = mode, slots' = slots, outBytes' = outBytes,
           HoldSlot' = HoldSlot, HoldBytes' = HoldBytes
    PROVE  Ledger'
  BY DEF Ledger, Staged

(* TakeSlot, AcquireBytes and Release: what a file takes it gives back. *)
LEMMA LedgerFile ==
    ASSUME Inv, Ledger, NEW f \in Files, AddStep(f) \/ WorkerStep(f)
    PROVE  Ledger'
  <1>0. at \in [Files -> Places] /\ mode' = mode /\ (Staged' <=> Staged)
    BY DEF Inv, Shape, AddStep, WorkerStep, TakeSlot, AcquireBytes, Enqueue, Hash, Upload, Release,
           Staged
  <1>1. CASE TakeSlot(f)
    <2>1. HoldSlot' = HoldSlot \cup {f} /\ f \notin HoldSlot /\ HoldBytes' = HoldBytes
      BY <1>0, <1>1 DEF TakeSlot, HoldSlot, HoldBytes, In, Places
    <2>2. Cardinality(HoldSlot') = Cardinality(HoldSlot) + 1
      BY <2>1, HoldersAreFiles, FS_AddElement
    <2>3. outBytes' = outBytes /\ slots' = (IF Staged THEN slots + 1 ELSE slots)
      BY <1>1 DEF TakeSlot
    <2>4. Staged => slots < BufferAhead
      BY <1>1 DEF TakeSlot
    <2>5. CASE Staged
      <3>1. slots = Cardinality(HoldSlot) /\ slots' = slots + 1 /\ slots < BufferAhead
        BY <2>3, <2>4, <2>5 DEF Ledger
      <3>2. slots' = Cardinality(HoldSlot') /\ slots' <= BufferAhead
        BY <2>2, <3>1, HoldersAreFiles, LimitTypes
      <3> QED BY <1>0, <2>1, <2>3, <2>5, <3>2 DEF Ledger
    <2>6. CASE ~Staged
      BY <1>0, <2>3, <2>6 DEF Ledger
    <2> QED BY <2>5, <2>6
  <1>2. CASE AcquireBytes(f)
    <2>1. HoldBytes' = HoldBytes \cup {f} /\ f \notin HoldBytes /\ HoldSlot' = HoldSlot
      BY <1>0, <1>2 DEF AcquireBytes, HoldSlot, HoldBytes, In, Places
    <2>2. Total(HoldBytes') = Total(HoldBytes) + Size[f]
      <3>1. HoldBytes' \in SUBSET Files /\ f \in HoldBytes' /\ HoldBytes' \ {f} = HoldBytes
        BY <2>1, HoldersAreFiles
      <3> QED BY <3>1, TotalRemove
    <2>3. slots' = slots /\ outBytes' = (IF Staged THEN outBytes + Size[f] ELSE outBytes)
      BY <1>2 DEF AcquireBytes
    <2>4. Staged => outBytes < BufferBytes
      BY <1>2 DEF AcquireBytes
    <2>5. CASE Staged
      <3>1. outBytes = Total(HoldBytes) /\ outBytes' = outBytes + Size[f] /\ outBytes < BufferBytes
        BY <2>3, <2>4, <2>5 DEF Ledger
      <3>2. Size[f] \in Nat
        BY FilesAssumption
      <3>3. outBytes' = Total(HoldBytes') /\ outBytes' < BufferBytes + Size[f]
        BY <2>2, <3>1, <3>2, HoldersAreFiles, LimitTypes
      <3> QED BY <1>0, <2>1, <2>3, <2>5, <3>3 DEF Ledger
    <2>6. CASE ~Staged
      BY <1>0, <2>3, <2>6 DEF Ledger
    <2> QED BY <2>5, <2>6
  <1>3. CASE Release(f)
    <2>1. /\ HoldBytes' = HoldBytes \ {f} /\ f \in HoldBytes
          /\ HoldSlot' = HoldSlot \ {f} /\ f \in HoldSlot
      BY <1>0, <1>3 DEF Release, HoldSlot, HoldBytes, In, Places
    <2>2. Cardinality(HoldSlot') = Cardinality(HoldSlot) - 1
      BY <2>1, HoldersAreFiles, FS_RemoveElement
    <2>3. Total(HoldBytes) = Total(HoldBytes') + Size[f]
      BY <2>1, HoldersAreFiles, TotalRemove
    <2>4. /\ slots' = (IF Staged THEN slots - 1 ELSE slots)
          /\ outBytes' = (IF Staged THEN outBytes - Size[f] ELSE outBytes)
      BY <1>3 DEF Release
    <2>5. CASE Staged
      <3>1. /\ slots = Cardinality(HoldSlot) /\ slots' = slots - 1 /\ slots <= BufferAhead
            /\ outBytes = Total(HoldBytes) /\ outBytes' = outBytes - Size[f]
        BY <2>4, <2>5 DEF Ledger
      <3>2. \A g \in Files : Size[g] \in Nat
        BY FilesAssumption
      <3>3. Total(HoldBytes') \in Nat
        BY <2>1, HoldersAreFiles, TotalType
      <3>4. /\ slots' = Cardinality(HoldSlot') /\ slots' <= BufferAhead
            /\ outBytes' = Total(HoldBytes') /\ outBytes' <= outBytes
        BY <2>2, <2>3, <3>1, <3>2, <3>3, HoldersAreFiles, LimitTypes
      <3>5. PICK w \in HoldBytes : outBytes < BufferBytes + Size[w]
        BY <2>1, <2>5 DEF Ledger
      <3>6. w \in Files
        BY HoldersAreFiles
      <3>7. HoldBytes' # {} => \E g \in HoldBytes' : outBytes' < BufferBytes + Size[g]
        <4>1. CASE w = f
          <5>1. outBytes' < BufferBytes
            BY <3>1, <3>2, <3>5, <4>1, HoldersAreFiles, LimitTypes
          <5>2. \A g \in HoldBytes' : outBytes' < BufferBytes + Size[g]
            <6> SUFFICES ASSUME NEW g \in HoldBytes' PROVE outBytes' < BufferBytes + Size[g]
              OBVIOUS
            <6>1. Size[g] \in Nat
              BY <2>1, <3>2, HoldersAreFiles
            <6> QED BY <3>3, <3>4, <5>1, <6>1, LimitTypes
          <5> QED BY <5>2
        <4>2. CASE w # f
          <5>1. w \in HoldBytes'
            BY <2>1, <4>2
          <5>2. outBytes' < BufferBytes + Size[w]
            BY <3>1, <3>2, <3>3, <3>4, <3>5, <3>6, HoldersAreFiles, LimitTypes
          <5> QED BY <5>1, <5>2
        <4> QED BY <4>1, <4>2
      <3> QED BY <1>0, <2>5, <3>4, <3>7 DEF Ledger
    <2>6. CASE ~Staged
      BY <1>0, <2>4, <2>6 DEF Ledger
    <2> QED BY <2>5, <2>6
  <1>4. CASE Enqueue(f) \/ Hash(f) \/ Upload(f)
    <2>1. /\ at[f] \in {"enqueue", "queued", "upload"}
          /\ \E p \in {"queued", "upload", "release"} : at' = [at EXCEPT ![f] = p]
          /\ slots' = slots /\ outBytes' = outBytes
      BY <1>4 DEF Enqueue, Hash, Upload
    <2>2. HoldSlot' = HoldSlot /\ HoldBytes' = HoldBytes
      BY <1>0, <2>1 DEF HoldSlot, HoldBytes, In
    <2> QED BY <1>0, <2>1, <2>2, LedgerKept
  <1> QED BY <1>1, <1>2, <1>3, <1>4 DEF AddStep, WorkerStep

(* The importer's own steps: a file handed to Add holds nothing yet, and a
   run ends or begins with an empty pipeline. *)
LEMMA LedgerRun ==
    ASSUME Inv, Ledger, Begin \/ RunStep \/ Kill
    PROVE  Ledger'
  <1>0. at \in [Files -> Places]
    BY DEF Inv, Shape
  <1>1. CASE RunIsGone
    BY <1>1, LedgerGone DEF RunIsGone, StreamerIsGone
  <1>2. CASE NewStreamer(mode)
    BY <1>2, LedgerGone DEF NewStreamer
  <1>3. CASE Begin
    <2>1. UNCHANGED <<at, slots, outBytes>> /\ (running => mode' = mode)
      BY <1>3 DEF Begin
    <2>2. HoldSlot' = HoldSlot /\ HoldBytes' = HoldBytes
      BY <2>1 DEF HoldSlot, HoldBytes, In
    <2>3. CASE running
      BY <2>1, <2>2, <2>3, LedgerKept
    <2>4. CASE ~running
      <3>1. HoldSlot = {} /\ HoldBytes = {}
        BY <2>4, NoneHeld DEF Inv, Phases
      <3>2. slots = 0 /\ outBytes = 0
        BY <3>1, EmptyLedger
      <3>3. Cardinality({}) = 0 /\ Total({}) = 0
        BY FS_EmptySet, TotalStep
      <3> QED BY <2>1, <2>2, <3>1, <3>2, <3>3, LimitTypes DEF Ledger
    <2> QED BY <2>3, <2>4
  <1>4. CASE \E f \in Files : Add(f)
    <2>1. PICK f \in Files : Add(f)
      BY <1>4
    <2>2. HoldSlot' = HoldSlot /\ HoldBytes' = HoldBytes
      BY <1>0, <2>1 DEF Add, HoldSlot, HoldBytes, In
    <2> QED BY <2>1, <2>2, LedgerKept DEF Add
  <1>5. CASE UNCHANGED <<mode, at, slots, outBytes>>
    BY <1>5, LedgerKept DEF HoldSlot, HoldBytes, In
  <1>6. Scan \/ LandNext => (\E f \in Files : Add(f)) \/ UNCHANGED <<mode, at, slots, outBytes>>
    BY NextOfIn DEF Scan, LandNext, Inv, Shape, streamVars
  <1>7. Open => RunIsGone \/ NewStreamer(mode)
    BY DEF Open
  <1>8. GiveUpCopy \/ StartPull \/ PullChunk \/ EndRound => UNCHANGED <<mode, at, slots, outBytes>>
    BY DEF GiveUpCopy, StartPull, PullChunk, EndRound, CopyReturns, CloseJobs, streamVars
  <1>9. Finish \/ Kill => RunIsGone
    BY DEF Finish, Kill
  <1> QED BY <1>1, <1>2, <1>3, <1>4, <1>5, <1>6, <1>7, <1>8, <1>9 DEF RunStep

LEMMA LedgerNext == Inv /\ Ledger /\ [Next]_vars => Ledger'
  <1> SUFFICES ASSUME Inv, Ledger, [Next]_vars PROVE Ledger'
    OBVIOUS
  <1>1. CASE Begin \/ RunStep \/ Kill
    BY <1>1, LedgerRun
  <1>2. CASE \E f \in Files : AddStep(f) \/ WorkerStep(f)
    BY <1>2, LedgerFile
  <1>3. CASE UNCHANGED <<mode, at, slots, outBytes>>
    BY <1>3, LedgerKept DEF HoldSlot, HoldBytes, In
  <1>4. WaitStep \/ Ask \/ MarkImported \/ UNCHANGED vars => UNCHANGED <<mode, at, slots, outBytes>>
    BY DEF WaitStep, Drained, Validate, Retry, Ask, MarkImported, vars, streamVars
  <1> QED BY <1>1, <1>2, <1>3, <1>4 DEF Next, StreamStep

-----------------------------------------------------------------------------
(* The types Shape leaves out, and the one producer.                       *)

Counters ==
    /\ starts \in Nat /\ round \in Nat /\ tries \in Nat
    /\ noted \in BOOLEAN
    /\ requests \subseteq Request
    /\ imported \subseteq Shots /\ uploaded \subseteq Shots
    /\ accepted \subseteq Files

OneProducer == \A f, g \in Adding : f = g

LEMMA CountersInit == Init => Counters /\ OneProducer
  <1> SUFFICES ASSUME Init PROVE Counters /\ OneProducer
    OBVIOUS
  <1>1. Adding = {}
    BY DEF Init, NoRun, StreamOff, Adding, In
  <1> QED BY <1>1 DEF Init, NoRun, StreamOff, Counters, OneProducer

LEMMA RequestTypes ==
    ASSUME Counters, Ask
    PROVE  Counters'
  <1>1. PICK kept \in SUBSET Shots, again \in BOOLEAN :
           requests' = requests \cup {[call |-> starts + 1, files |-> KeeperFiles(kept, again)]}
    BY DEF Ask
  <1>2. KeeperFiles(kept, again) \subseteq Files
    BY DEF KeeperFiles, FilesOf
  <1>3. starts' = starts + 1 /\ starts' \in Nat
    BY DEF Ask, Counters
  <1>4. requests' \subseteq Request
    BY <1>1, <1>2, <1>3 DEF Request, Counters
  <1> QED BY <1>3, <1>4 DEF Ask, Counters, streamVars, copyVars, markVars

LEMMA CountersNext == Inv /\ Counters /\ [Next]_vars => Counters'
  <1> SUFFICES ASSUME Inv, Counters, [Next]_vars PROVE Counters'
    OBVIOUS
  <1>1. CASE Ask
    BY <1>1, RequestTypes
  <1>2. CASE Begin
    BY <1>2 DEF Begin, Counters, copyVars, markVars
  <1>3. CASE Open
    <2>1. UNCHANGED <<starts, requests, imported, uploaded>>
      BY <1>3 DEF Open, markVars
    <2>2. round' = round \/ round' = 0
      BY <1>3 DEF Open, RunIsGone, copyVars
    <2>3. noted' = FALSE /\ tries' = 0 /\ accepted' = {}
      BY <1>3 DEF Open, NewStreamer, RunIsGone, StreamerIsGone
    <2>4. noted' \in BOOLEAN
      BY <2>3
    <2>5. round' \in Nat /\ tries' \in Nat /\ accepted' \subseteq Files
      BY <2>2, <2>3 DEF Counters
    <2> QED BY <2>1, <2>4, <2>5 DEF Counters
  <1>4. CASE Scan \/ LandNext
    BY <1>4 DEF Scan, LandNext, Add, Counters, streamVars, markVars
  <1>5. CASE GiveUpCopy \/ StartPull \/ PullChunk
    BY <1>5 DEF GiveUpCopy, StartPull, PullChunk, CopyReturns, CloseJobs, Counters, streamVars,
                markVars
  <1>6. CASE EndRound
    BY <1>6 DEF EndRound, CopyReturns, CloseJobs, Counters, streamVars, markVars
  <1>7. CASE Finish \/ Kill
    <2>1. UNCHANGED <<starts, imported, uploaded>> /\ (requests' = requests \/ requests' = {})
      BY <1>7 DEF Finish, Kill
    <2>2. round' = 0 /\ noted' = FALSE /\ tries' = 0 /\ accepted' = {}
      BY <1>7 DEF Finish, Kill, RunIsGone, StreamerIsGone
    <2> QED BY <2>1, <2>2 DEF Counters
  <1>8. CASE MarkImported
    <2>1. PICK m \in marking :
             /\ imported' = imported \cup m.shots
             /\ uploaded' = IF m.immich THEN uploaded \cup m.shots ELSE uploaded
      BY <1>8 DEF MarkImported
    <2>2. m.shots \subseteq Shots
      BY DEF Inv, Shape, Mark
    <2>3. imported' \subseteq Shots /\ uploaded' \subseteq Shots
      BY <2>1, <2>2 DEF Counters
    <2>4. UNCHANGED <<starts, round, tries, noted, requests, accepted>>
      BY <1>8 DEF MarkImported, streamVars, copyVars
    <2> QED BY <2>3, <2>4 DEF Counters
  <1>9. CASE StreamStep
    <2>1. UNCHANGED <<starts, round, requests, imported, uploaded>>
      BY <1>9 DEF StreamStep, copyVars, markVars
    <2>2. noted' = noted \/ noted' = TRUE
      BY <1>9 DEF StreamStep, WaitStep, Drained, Validate, Retry, AddStep, WorkerStep, TakeSlot,
                  AcquireBytes, Enqueue, Hash, Upload, Release
    <2>3. tries' = tries \/ tries' = tries + 1
      BY <1>9 DEF StreamStep, WaitStep, Drained, Validate, Retry, AddStep, WorkerStep, TakeSlot,
                  AcquireBytes, Enqueue, Hash, Upload, Release
    <2>4. accepted' = accepted \/ \E new \in SUBSET Files : accepted' = accepted \cup new
      <3>1. CASE \E f \in Files : Upload(f)
        <4>1. PICK f \in Files : accepted' = accepted \cup {f} \/ accepted' = accepted
          BY <3>1 DEF Upload
        <4> QED BY <4>1
      <3>2. CASE Retry
        <4>1. PICK stored \in SUBSET (Missing \cap disk[Dir]) : accepted' = accepted \cup stored
          BY <3>2 DEF Retry
        <4>2. stored \subseteq Files
          BY DEF Missing, Entries, In
        <4> QED BY <4>1, <4>2
      <3>3. CASE accepted' = accepted
        BY <3>3
      <3> QED BY <1>9, <3>1, <3>2, <3>3
              DEF StreamStep, WaitStep, Drained, Validate, AddStep, WorkerStep, TakeSlot,
                  AcquireBytes, Enqueue, Hash, Release
    <2>5. noted' \in BOOLEAN
      BY <2>2 DEF Counters
    <2>6. tries' \in Nat /\ accepted' \subseteq Files
      BY <2>3, <2>4 DEF Counters
    <2> QED BY <2>1, <2>5, <2>6 DEF Counters
  <1>10. CASE UNCHANGED vars
    BY <1>10 DEF vars, streamVars, copyVars, markVars, Counters
  <1> QED BY <1>1, <1>2, <1>3, <1>4, <1>5, <1>6, <1>7, <1>8, <1>9, <1>10 DEF Next, RunStep

LEMMA ProducerNext == Inv /\ OneProducer /\ [Next]_vars => OneProducer'
  <1> SUFFICES ASSUME Inv, OneProducer, [Next]_vars PROVE OneProducer'
    OBVIOUS
  <1>0. at \in [Files -> Places]
    BY DEF Inv, Shape
  <1>1. CASE \E f \in Files : Add(f)
    BY <1>0, <1>1 DEF Add, OneProducer, Adding, In
  <1>2. CASE \E f \in Files : AddStep(f) \/ WorkerStep(f)
    <2>1. PICK f \in Files : AddStep(f) \/ WorkerStep(f)
      BY <1>2
    <2>2. \E p \in Places : /\ at' = [at EXCEPT ![f] = p]
                            /\ p \in {"slot", "bytes", "enqueue"} => f \in Adding
      BY <2>1 DEF AddStep, WorkerStep, TakeSlot, AcquireBytes, Enqueue, Hash, Upload, Release,
                  Adding, In, Places
    <2>3. Adding' \subseteq Adding
      BY <1>0, <2>2 DEF Adding, In
    <2> QED BY <2>3 DEF OneProducer
  <1>3. CASE at' = at \/ at' = [f \in Files |-> "out"]
    BY <1>3 DEF OneProducer, Adding, In
  <1>4. Scan \/ LandNext => (\E f \in Files : Add(f)) \/ at' = at
    BY NextOfIn DEF Scan, LandNext, Inv, Shape, streamVars
  <1>5. Open \/ Finish \/ Kill => at' = [f \in Files |-> "out"]
    BY DEF Open, Finish, Kill, NewStreamer, RunIsGone, StreamerIsGone
  <1>6. /\ Ask \/ Begin \/ GiveUpCopy \/ StartPull \/ PullChunk \/ EndRound \/ MarkImported => at' = at
        /\ WaitStep \/ UNCHANGED vars => at' = at
    BY DEF Ask, Begin, GiveUpCopy, StartPull, PullChunk, EndRound, MarkImported, CopyReturns,
           CloseJobs, WaitStep, Drained, Validate, Retry, vars, streamVars
  <1> QED BY <1>1, <1>2, <1>3, <1>4, <1>5, <1>6 DEF Next, RunStep, StreamStep

(* A file the copy still has to look at, to fetch or to land is nowhere in
   the Streamer, and on one list only: it is handed on once. *)
Apart ==
    /\ todo \cap (pending \cup landed \cup failed) = {}
    /\ pending \cap (landed \cup failed) = {}
    /\ landed \cap failed = {}
    /\ (todo \cup pending \cup landed \cup failed) \cap Handed = {}

LEMMA ApartInit == Init => Apart
  BY DEF Init, NoRun, StreamOff, Apart

LEMMA ApartNext == Inv /\ Apart /\ [Next]_vars => Apart'
  <1> SUFFICES ASSUME Inv, Apart, [Next]_vars PROVE Apart'
    OBVIOUS
  <1>0. at \in [Files -> Places] /\ todo \subseteq Files /\ landed \subseteq Files
    BY DEF Inv, Shape
  <1>1. ASSUME NEW f \in Files, Add(f) PROVE Handed' = Handed \cup {f}
    BY <1>0, <1>1 DEF Add, Handed, In, Places
  <1>2. CASE Scan
    <2> DEFINE f == NextOf(todo)
    <2>1. f \in todo /\ f \in Files /\ todo' = todo \ {f} /\ UNCHANGED <<landed, failed>>
      BY <1>0, <1>2, NextOfIn DEF Scan
    <2>2. \/ Add(f) /\ pending' = pending
          \/ pending' = pending \cup {f} /\ Handed' = Handed
      BY <1>2 DEF Scan, streamVars, Handed, In
    <2> HIDE DEF f
    <2> QED BY <1>1, <2>1, <2>2 DEF Apart
  <1>3. CASE LandNext
    <2> DEFINE f == NextOf(landed)
    <2>1. /\ f \in landed /\ f \in Files /\ landed' = landed \ {f} /\ UNCHANGED <<todo, pending, failed>>
          /\ Add(f)
      BY <1>0, <1>3, NextOfIn DEF LandNext
    <2> HIDE DEF f
    <2> QED BY <1>1, <2>1 DEF Apart
  <1>4. CASE PullChunk
    <2>1. PICK chunk \in SUBSET pending, got \in SUBSET pending :
             /\ got \subseteq chunk
             /\ landed' = got
             /\ failed' = failed \cup (chunk \ got)
             /\ pending' = pending \ chunk
      BY <1>4 DEF PullChunk
    <2>2. landed = {} /\ Handed' = Handed /\ todo' = todo
      BY <1>4 DEF PullChunk, streamVars, Handed, In
    <2> QED BY <2>1, <2>2 DEF Apart
  <1>5. CASE EndRound
    <2>1. Handed' = Handed /\ landed = {} /\ pending = {}
      BY <1>5 DEF EndRound, CopyReturns, CloseJobs, streamVars, Handed, In
    <2>2. \/ pending' = failed /\ failed' = {} /\ UNCHANGED <<todo, landed>>
          \/ todo' = {} /\ pending' = {} /\ landed' = {} /\ failed' = {}
      BY <1>5 DEF EndRound, CopyReturns
    <2> QED BY <2>1, <2>2 DEF Apart
  <1>6. CASE GiveUpCopy \/ Finish \/ Kill
    <2>1. todo' = {} /\ pending' = {} /\ landed' = {} /\ failed' = {}
      BY <1>6 DEF GiveUpCopy, CopyReturns, Finish, Kill, RunIsGone
    <2> QED BY <2>1 DEF Apart
  <1>7. CASE Open \/ Begin
    <2>1. CASE Handed' = {} /\ pending' = {} /\ landed' = {} /\ failed' = {}
      BY <2>1 DEF Apart
    <2>2. CASE UNCHANGED <<copyVars, at>>
      BY <2>2 DEF Apart, Handed, In, copyVars
    <2>3. CASE Open /\ ~RunIsGone
      <3>1. Handed = {} /\ Handed' = {} /\ UNCHANGED copyVars
        BY <2>3 DEF Open, NewStreamer, Handed, In, Inv, Phases
      <3> QED BY <3>1 DEF Apart, copyVars
    <2>4. RunIsGone => Handed' = {} /\ pending' = {} /\ landed' = {} /\ failed' = {}
      BY DEF RunIsGone, StreamerIsGone, Handed, In
    <2>5. Begin /\ ~running => Handed' = {} /\ pending' = {} /\ landed' = {} /\ failed' = {}
      BY DEF Begin, Handed, In, Inv, Phases
    <2>6. Begin /\ running => UNCHANGED <<copyVars, at>>
      BY DEF Begin
    <2> QED BY <1>7, <2>1, <2>2, <2>3, <2>4, <2>5, <2>6
  <1>8. CASE StreamStep
    <2>1. UNCHANGED copyVars
      BY <1>8 DEF StreamStep
    <2>2. Handed' = Handed
      <3>1. CASE WaitStep
        BY <3>1 DEF WaitStep, Drained, Validate, Retry, Handed, In
      <3>2. CASE \E f \in Files : AddStep(f) \/ WorkerStep(f)
        <4>1. PICK f \in Files : AddStep(f) \/ WorkerStep(f)
          BY <3>2
        <4>2. at[f] # "out" /\ \E p \in Places \ {"out"} : at' = [at EXCEPT ![f] = p]
          BY <4>1 DEF AddStep, WorkerStep, TakeSlot, AcquireBytes, Enqueue, Hash, Upload, Release,
                      Places
        <4> QED BY <1>0, <4>2 DEF Handed, In
      <3> QED BY <1>8, <3>1, <3>2 DEF StreamStep
    <2> QED BY <2>1, <2>2 DEF Apart, copyVars
  <1>9. CASE Ask \/ StartPull \/ MarkImported \/ UNCHANGED vars
    <2>1. UNCHANGED <<todo, pending, landed, failed, at>>
      BY <1>9 DEF Ask, StartPull, MarkImported, vars, streamVars, copyVars
    <2> QED BY <2>1 DEF Apart, Handed, In
  <1> QED BY <1>2, <1>3, <1>4, <1>5, <1>6, <1>7, <1>8, <1>9 DEF Next, RunStep

-----------------------------------------------------------------------------
(* What some goroutine of a run can do next, as the guards of the steps.   *)

CopyCanGoOn ==
    \/ pc = "open"
    \/ pc = "scan" /\ stream = "open" /\ Adding = {} /\ todo \subseteq In({"out"})
    \/ pc = "pull" /\ stream = "open" /\ Adding = {} /\ landed \subseteq In({"out"})
    \/ pc = "wait" /\ stream \in {"check", "retry", "ok", "error"}
    \/ pc = "wait" /\ stream = "draining" /\ In({"out", "done"}) = Files
FileCanGoOn(f) ==
    \/ at[f] = "slot" /\ (Staged => slots < BufferAhead)
    \/ at[f] = "bytes" /\ (Staged => outBytes < BufferBytes)
    \/ at[f] = "enqueue" /\ Cardinality(In({"queued"})) < QueueCap
    \/ at[f] = "queued" /\ Cardinality(Busy) < Workers
    \/ at[f] \in {"upload", "release"}
NotStuck == pc # "idle" => CopyCanGoOn \/ \E f \in Files : FileCanGoOn(f)

(* A file that has left Add is with the workers: they can go on. *)
LEMMA WorkersGoOn ==
    ASSUME Inv, In({"queued", "upload", "release"}) # {}
    PROVE  \E f \in Files : FileCanGoOn(f)
  <1>1. CASE Busy = {}
    <2>1. Cardinality(Busy) < Workers
      BY <1>1, FS_EmptySet, LimitTypes
    <2>2. \E f \in Files : at[f] = "queued"
      BY <1>1 DEF Busy, In
    <2> QED BY <2>1, <2>2 DEF FileCanGoOn
  <1>2. CASE Busy # {}
    BY <1>2 DEF Busy, In, FileCanGoOn
  <1> QED BY <1>1, <1>2

(* The producer waits only for what a file with the workers gives back. *)
LEMMA ProducerGoesOn ==
    ASSUME Inv, Ledger, OneProducer, Adding # {}
    PROVE  \E f \in Files : FileCanGoOn(f)
  <1>1. PICK f \in Files : at[f] \in {"slot", "bytes", "enqueue"}
    BY DEF Adding, In
  <1>2. \A g \in Files : at[g] \in {"slot", "bytes", "enqueue"} => g = f
    BY <1>1 DEF OneProducer, Adding, In
  <1>3. SUFFICES ASSUME ~FileCanGoOn(f) PROVE In({"queued", "upload", "release"}) # {}
    BY WorkersGoOn
  <1>4. CASE at[f] = "slot"
    <2>1. Staged /\ ~(slots < BufferAhead)
      BY <1>3, <1>4 DEF FileCanGoOn
    <2>2. Cardinality(HoldSlot) # 0
      BY <2>1, HoldersAreFiles, LimitTypes DEF Ledger
    <2>3. HoldSlot # {}
      BY <2>2, FS_EmptySet
    <2>4. PICK g \in HoldSlot : TRUE
      BY <2>3
    <2>5. g \in Files /\ at[g] \in {"bytes", "enqueue", "queued", "upload", "release"}
      BY <2>4 DEF HoldSlot, In
    <2>6. g # f
      BY <1>4, <2>5
    <2>7. at[g] \in {"queued", "upload", "release"}
      BY <1>2, <2>5, <2>6
    <2> QED BY <2>5, <2>7 DEF In
  <1>5. CASE at[f] = "bytes"
    <2>1. Staged /\ ~(outBytes < BufferBytes)
      BY <1>3, <1>5 DEF FileCanGoOn
    <2>2. Total(HoldBytes) # 0
      BY <2>1, HoldersAreFiles, LimitTypes DEF Ledger
    <2>3. HoldBytes # {}
      BY <2>2, TotalStep
    <2>4. PICK g \in HoldBytes : TRUE
      BY <2>3
    <2>5. g \in Files /\ at[g] \in {"enqueue", "queued", "upload", "release"}
      BY <2>4 DEF HoldBytes, In
    <2>6. g # f
      BY <1>5, <2>5
    <2>7. at[g] \in {"queued", "upload", "release"}
      BY <1>2, <2>5, <2>6
    <2> QED BY <2>5, <2>7 DEF In
  <1>6. CASE at[f] = "enqueue"
    <2>1. ~(Cardinality(In({"queued"})) < QueueCap)
      BY <1>3, <1>6 DEF FileCanGoOn
    <2>2. In({"queued"}) # {}
      BY <2>1, FS_EmptySet, LimitTypes
    <2> QED BY <2>2 DEF In
  <1> QED BY <1>1, <1>4, <1>5, <1>6

LEMMA SomeoneGoesOn == Inv /\ Ledger /\ OneProducer /\ Apart => NotStuck
  <1> SUFFICES ASSUME Inv, Ledger, OneProducer, Apart, pc # "idle", ~CopyCanGoOn
               PROVE  \E f \in Files : FileCanGoOn(f)
    BY DEF NotStuck
  <1>1. CASE pc \in {"scan", "pull"}
    <2>1. stream = "open"
      BY <1>1 DEF Inv, Phases
    <2>2. todo \subseteq In({"out"}) /\ landed \subseteq In({"out"})
      BY DEF Apart, Handed, In, Inv, Shape
    <2> QED BY <1>1, <2>1, <2>2, ProducerGoesOn DEF CopyCanGoOn
  <1>2. CASE pc = "wait"
    <2>1. stream = "draining" /\ Adding = {} /\ In({"out", "done"}) # Files
      BY <1>2 DEF CopyCanGoOn, Inv, Shape, Phases
    <2>2. PICK f \in Files : at[f] \notin {"out", "done"}
      BY <2>1 DEF In
    <2>3. at[f] \in {"queued", "upload", "release"}
      BY <2>1, <2>2 DEF Inv, Shape, Adding, In, Places
    <2> QED BY <2>3, WorkersGoOn DEF In
  <1> QED BY <1>1, <1>2 DEF CopyCanGoOn, Inv, Shape

-----------------------------------------------------------------------------
(* The theorems.                                                           *)

(* run and Streamer.Wait: the invariant of the importer. *)
THEOREM ImportInvariant == Spec => []Inv
  <1>1. Init => Inv
    BY InitInv
  <1>2. Inv /\ [Next]_vars => Inv'
    BY NextInv
  <1> QED BY <1>1, <1>2, PTL DEF Spec

(* MarkImported: what is marked as imported has arrived where its run was to
   bring it, whatever failed on the way and whichever runs overlapped. *)
THEOREM MarkedHasArrived == Spec => []ImportedArrived
  <1>1. Inv => ImportedArrived
    BY DEF Inv
  <1> QED BY <1>1, ImportInvariant, PTL

(* handle's removal and run's RemoveAll: a local copy disappears only from
   staging, when the server has accepted it or has all files of the run. *)
THEOREM CopiesAreKept == Spec => NothingDropped
  <1> DEFINE Safe == \A d \in Dirs : \A f \in disk[d] \ disk'[d] :
                        d = "stage" /\ (f \in accepted' \/ keepers \subseteq immich)
  <1>1. Inv /\ [Next]_vars => Safe
    <2> SUFFICES ASSUME Inv, [Next]_vars, NEW d \in Dirs, NEW f \in disk[d] \ disk'[d]
                 PROVE  d = "stage" /\ (f \in accepted' \/ keepers \subseteq immich)
      OBVIOUS
    <2>1. CASE Finish
      <3>1. Succeeded /\ Staged /\ d = "stage"
        BY <2>1 DEF Finish, Inv, Shape, Dirs
      <3>2. keepers \subseteq immich
        BY <2>1, <3>1, SuccessDelivers DEF Finish, Staged
      <3> QED BY <3>1, <3>2
    <2>2. CASE \E g \in Files : Upload(g)
      BY <2>2 DEF Upload, Inv, Shape, Dirs
    <2>3. CASE Scan \/ LandNext
      <3>1. UNCHANGED disk \/ \E g : Land(g)
        BY <2>3 DEF Scan, LandNext
      <3> QED BY <3>1 DEF Land, Inv, Shape, Dir, Dirs
    <2>4. CASE UNCHANGED disk
      BY <2>4
    <2>5. UNCHANGED disk \/ Finish \/ Scan \/ LandNext \/ \E g \in Files : Upload(g)
      BY DEF Next, RunStep, StreamStep, WaitStep, AddStep, WorkerStep, Ask, Begin, Open, GiveUpCopy,
             StartPull, PullChunk, EndRound, MarkImported, Kill, Drained, Validate, Retry, TakeSlot,
             AcquireBytes, Enqueue, Hash, Release, vars, world
    <2> QED BY <2>1, <2>2, <2>3, <2>4, <2>5
  <1> QED BY <1>1, ImportInvariant, PTL DEF Spec, NothingDropped

(* sem and the byte budget of the Streamer: no slot and no byte leaks or is
   given back twice, whatever fails, and the budget is overshot by less than
   one file. *)
THEOREM BufferBalanced == Spec => []Balanced
  <1>1. Init => Inv /\ Ledger
    BY InitInv, LedgerInit
  <1>2. Inv /\ Ledger /\ [Next]_vars => (Inv /\ Ledger)'
    BY NextInv, LedgerNext
  <1>3. Ledger => Balanced
    BY DEF Ledger, Balanced, SlotsBalanced, BytesBalanced, Total
  <1> QED BY <1>1, <1>2, <1>3, PTL DEF Spec

(* The importer's types; the counters of the buffer never go below zero. *)
THEOREM ImportTypes == Spec => []TypeOK
  <1>1. Init => Inv /\ Ledger /\ Counters
    BY InitInv, LedgerInit, CountersInit
  <1>2. Inv /\ Ledger /\ Counters /\ [Next]_vars => (Inv /\ Ledger /\ Counters)'
    BY NextInv, LedgerNext, CountersNext
  <1>3. Inv /\ Ledger /\ Counters => TypeOK
    <2> SUFFICES ASSUME Inv, Ledger, Counters PROVE TypeOK
      OBVIOUS
    <2>1. slots \in Nat /\ outBytes \in Nat
      BY HoldersAreFiles DEF Ledger
    <2> QED BY <2>1 DEF Inv, Shape, Counters, TypeOK, StreamTypeOK
  <1> QED BY <1>1, <1>2, <1>3, PTL DEF Spec

(* The producer in Add, the workers and Wait: a run under way is never stuck.
   Either the copy can go on, or a worker can, or what the producer waits for
   (a slot, bytes, room in the queue) is there.  This is what RunEnds rests
   on besides fairness. *)
THEOREM NeverStuck == Spec => []NotStuck
  <1>1. Init => Inv /\ Ledger /\ OneProducer /\ Apart
    BY InitInv, LedgerInit, CountersInit, ApartInit
  <1>2. Inv /\ Ledger /\ OneProducer /\ Apart /\ [Next]_vars
           => (Inv /\ Ledger /\ OneProducer /\ Apart)'
    BY NextInv, LedgerNext, ProducerNext, ApartNext
  <1>3. Inv /\ Ledger /\ OneProducer /\ Apart => NotStuck
    BY SomeoneGoesOn
  <1> QED BY <1>1, <1>2, <1>3, PTL DEF Spec

=============================================================================
