------------------------- MODULE CameraLinkProofs -------------------------
(***************************************************************************)
(* Proofs about the camera link, for any number of owners.  The modules    *)
(* that extend CameraLink cite LinkStarts and LinkKept: their steps are,   *)
(* on the variables of the link, steps of LinkNext.                        *)
(***************************************************************************)
EXTENDS CameraLink, FiniteSetTheorems, WellFoundedInduction, TLAPS

(* A set of numbers that is not empty has a smallest one: what those that use
   the link pick next. *)
LEMMA Smallest ==
  ASSUME NEW T, T \subseteq Nat, T # {}
  PROVE  \E x \in T : \A y \in T : x <= y
  <1>1. PICK x \in T : \A y \in T : <<y, x>> \notin OpToRel(<, Nat)
    BY NatLessThanWellFounded, WFMin, Zenon
  <1>2. ASSUME NEW y \in T PROVE x <= y
    <2>1. ~(y < x)
      BY <1>1 DEF OpToRel
    <2> QED BY <2>1
  <1> QED BY <1>2

Paused == {o \in Owners : owner[o] # "away"}

LinkNext ==
    \/ \E what \in {"batch", "sweep", "probe"} : StartWork(what) \/ EndWork(what)
    \/ WorkerLeaves
    \/ \E o \in Owners : PauseAndDrain(o) \/ Drained(o) \/ Resume(o)
    \/ Close
    \/ \E busy \in BOOLEAN : CloseDrained(busy)

(* The link on its own, as what a user of it implements. *)
LinkSpec == LinkInit /\ [][LinkNext]_linkVars

(* LinkYielded alone is not inductive: that the worker starts nothing while
   somebody owns the link follows from the pause count being right. *)
LinkInv == LinkTypeOK /\ PausesCounted /\ LinkYielded

(* A drain only returns to somebody who is counted. *)
LEMMA PausedFinite == IsFiniteSet(Paused)
  BY OwnersAssumption, FS_Subset DEF Paused

(* Nobody is paused exactly if the count is 0. *)
LEMMA NobodyPaused ==
  ASSUME LinkInv
  PROVE  pause = 0 <=> \A o \in Owners : owner[o] = "away"
  <1>1. pause = Cardinality(Paused)
    BY DEF LinkInv, PausesCounted, Paused
  <1>2. Cardinality(Paused) = 0 <=> Paused = {}
    BY PausedFinite, FS_EmptySet
  <1> QED BY <1>1, <1>2 DEF Paused

LEMMA LinkStarts == LinkInit => LinkInv
  <1> SUFFICES ASSUME LinkInit PROVE LinkInv
    OBVIOUS
  <1>1. LinkTypeOK /\ LinkYielded
    BY DEF LinkInit, LinkTypeOK, LinkYielded, Drainable
  <1>2. Paused = {}
    BY DEF LinkInit, Paused
  <1>3. PausesCounted
    BY <1>2, FS_EmptySet DEF PausesCounted, Paused, LinkInit
  <1> QED BY <1>1, <1>3 DEF LinkInv

LEMMA LinkTypesKept ==
  ASSUME LinkTypeOK, [LinkNext]_linkVars
  PROVE  LinkTypeOK'
  BY DEF LinkTypeOK, LinkNext, linkVars, StartWork, EndWork, WorkerLeaves, PauseAndDrain, Drained,
         Resume, Close, CloseDrained

(* The count follows who is paused. *)
LEMMA CountKept ==
  ASSUME LinkInv, [LinkNext]_linkVars
  PROVE  PausesCounted'
  <1> USE DEF LinkInv, LinkTypeOK
  <1>1. pause = Cardinality(Paused)
    BY DEF PausesCounted, Paused
  <1>2. SUFFICES pause' = Cardinality(Paused')
    BY DEF PausesCounted, Paused
  <1>3. CASE UNCHANGED <<pause, owner>>
    BY <1>1, <1>3 DEF Paused
  <1>4. ASSUME NEW o \in Owners, PauseAndDrain(o) PROVE pause' = Cardinality(Paused')
    <2>1. Paused' = Paused \cup {o} /\ o \notin Paused
      BY <1>4 DEF PauseAndDrain, Paused
    <2>2. Cardinality(Paused \cup {o}) = Cardinality(Paused) + 1
      BY <2>1, PausedFinite, FS_AddElement
    <2> QED BY <1>1, <1>4, <2>1, <2>2 DEF PauseAndDrain
  <1>5. ASSUME NEW o \in Owners, Drained(o) PROVE pause' = Cardinality(Paused')
    <2>1. Paused' = Paused
      BY <1>5 DEF Drained, Paused
    <2> QED BY <1>1, <1>5, <2>1 DEF Drained
  <1>6. ASSUME NEW o \in Owners, Resume(o) PROVE pause' = Cardinality(Paused')
    <2>1. Paused' = Paused \ {o} /\ o \in Paused
      BY <1>6 DEF Resume, Paused
    <2>2. Cardinality(Paused \ {o}) = Cardinality(Paused) - 1
      BY <2>1, PausedFinite, FS_RemoveElement
    <2>3. pause # 0
      BY <2>1, NobodyPaused DEF Paused
    <2> QED BY <1>1, <1>6, <2>1, <2>2, <2>3 DEF Resume
  <1> QED
    BY <1>3, <1>4, <1>5, <1>6
    DEF LinkNext, linkVars, StartWork, EndWork, WorkerLeaves, Close, CloseDrained

(* The worker starts nothing as long as somebody is counted. *)
LEMMA YieldKept ==
  ASSUME LinkInv, [LinkNext]_linkVars
  PROVE  LinkYielded'
  <1> USE DEF LinkInv, LinkTypeOK, LinkYielded, Drainable
  <1>1. ASSUME NEW what, StartWork(what) PROVE LinkYielded'
    BY <1>1, NobodyPaused DEF StartWork
  <1>2. ASSUME NEW what, EndWork(what) PROVE LinkYielded'
    BY <1>2 DEF EndWork
  <1>3. CASE WorkerLeaves \/ Close \/ \E busy \in BOOLEAN : CloseDrained(busy)
    BY <1>3 DEF WorkerLeaves, Close, CloseDrained
  <1>4. ASSUME NEW o \in Owners, PauseAndDrain(o) \/ Drained(o) \/ Resume(o) PROVE LinkYielded'
    BY <1>4 DEF PauseAndDrain, Drained, Resume
  <1>5. CASE UNCHANGED linkVars
    BY <1>5 DEF linkVars
  <1> QED BY <1>1, <1>2, <1>3, <1>4, <1>5 DEF LinkNext

LEMMA LinkKept ==
  ASSUME LinkInv, [LinkNext]_linkVars
  PROVE  LinkInv'
  BY LinkTypesKept, CountKept, YieldKept DEF LinkInv

(* Whoever else uses the link, as long as it is only through these operations:
   who was told that the link is its own has it until it resumes, and the pause
   count is the number of those who have paused and not resumed. *)
THEOREM LinkIsKept == LinkSpec => [](LinkYielded /\ PausesCounted)
  <1>1. LinkInv /\ [LinkNext]_linkVars => LinkInv'
    BY LinkKept
  <1>2. LinkInv => LinkYielded /\ PausesCounted
    BY DEF LinkInv
  <1> QED BY <1>1, <1>2, LinkStarts, PTL DEF LinkSpec
=============================================================================
