------------------------------- MODULE Bursts -------------------------------
(***************************************************************************)
(* Sharpness and bursts (internal/cull/sharpness.go).  Capture times and   *)
(* focus scores come in as frames are buffered, in any order; the clients  *)
(* are shown the sharpest frame of each burst known so far.                *)
(*                                                                         *)
(* The shots of the catalog are 1..RollSize.  A score stands for its rank. *)
(***************************************************************************)
EXTENDS Naturals, FiniteSets

CONSTANTS
    RollSize,     (* shots in the catalog *)
    ClipsAt,      (* those that are videos *)
    BurstGap,     (* burstGap *)
    LastSecond,   (* bound: capture times; 0 is not known *)
    BestScore     (* bound: scores; 0 is a flat frame *)

Roll == 1..RollSize

ASSUME BurstAssumption ==
    /\ {RollSize, BurstGap, LastSecond, BestScore} \subseteq Nat /\ ClipsAt \subseteq Roll

VARIABLES
    takenAt,   (* p.taken; 0 if there is none *)
    sharp      (* p.sharp; 0 if there is none *)

burstVars == <<takenAt, sharp>>

BurstsInit == takenAt = [i \in Roll |-> 0] /\ sharp = [i \in Roll |-> 0]

(* harvestOrient, and the head sweep, find the capture time of a frame. *)
NoteTaken(i, t) ==
    /\ i \notin ClipsAt /\ takenAt[i] = 0
    /\ takenAt' = [takenAt EXCEPT ![i] = t]
    /\ UNCHANGED sharp

(* scoreDecoded, sharpSweep: only what has none is measured, and a score of
   nothing is not kept. *)
NoteSharp(i, score) ==
    /\ i \notin ClipsAt /\ sharp[i] = 0
    /\ sharp' = [sharp EXCEPT ![i] = score]
    /\ UNCHANGED takenAt

BurstsNext ==
    \E i \in Roll :
       \/ \E t \in 1..LastSecond : NoteTaken(i, t)
       \/ \E score \in 1..BestScore : NoteSharp(i, score)

BurstsSpec == BurstsInit /\ [][BurstsNext]_burstVars

-----------------------------------------------------------------------------
(* BurstBest                                                               *)

\* Mutant of Continues: a time that is not known is not told from the others.
ContinuesUntimed(i, j) ==
    /\ j + 1 \in Roll \ ClipsAt
    /\ takenAt[j] <= takenAt[j + 1] /\ takenAt[j + 1] - takenAt[j] <= BurstGap

(* The run from i, which has reached j, goes on. *)
Continues(i, j) ==
    /\ j + 1 \in Roll \ ClipsAt
    /\ takenAt[j] # 0 /\ takenAt[j + 1] # 0
    /\ takenAt[j] <= takenAt[j + 1] /\ takenAt[j + 1] - takenAt[j] <= BurstGap

RunEnd(i) ==
    LET reach[j \in Roll] == IF Continues(i, j) THEN reach[j + 1] ELSE j
    IN reach[i]

(* The sharpest of i..j, the first of equals, if two have been measured. *)
Winner(i, j) ==
    {k \in i..j :
        /\ sharp[k] > 0 /\ Cardinality({m \in i..j : sharp[m] > 0}) >= 2
        /\ \A m \in i..j : sharp[m] < sharp[k] \/ (sharp[m] = sharp[k] /\ k <= m)}

BurstBest ==
    LET from[i \in 1..(RollSize + 1)] ==
            IF i > RollSize THEN {}
            ELSE IF i \in ClipsAt THEN from[i + 1]
            ELSE Winner(i, RunEnd(i)) \cup from[RunEnd(i) + 1]
    IN from[1]

-----------------------------------------------------------------------------

(* A burst is a chain: two neighbours are within burstGap of each other, and two
   frames are of one burst if every two neighbours from the one to the other are.
   This is what the loop of BurstBest says (sharpness.go:154-163), not what the
   comment above it does: "A shot is only ever compared with frames captured
   within burstGap of it" (sharpness.go:142-143).  With a gap of 1, frames taken
   at 1, 2 and 3 are one burst, and the first loses to the third. *)
Near(i, j) ==
    /\ {i, j} \cap ClipsAt = {} /\ takenAt[i] > 0
    /\ takenAt[j] \in takenAt[i]..(takenAt[i] + BurstGap)
SameBurst(i, j) ==
    LET first == IF i < j THEN i ELSE j
        last  == IF i < j THEN j ELSE i
    IN \A k \in first..(last - 1) : Near(k, k + 1)

(* Of two measured frames of one burst one is shown as the best, and only one;
   a frame that is shown is the sharpest of its burst and has beaten another of
   it: none wins alone, over a video, a frame without a time or one of another
   burst, whichever times and scores are known so far. *)
BestOfBurst ==
    /\ \A i, j \in Roll :
          i # j /\ SameBurst(i, j) /\ sharp[i] > 0 /\ sharp[j] > 0 =>
              /\ ~({i, j} \subseteq BurstBest)
              /\ \E k \in BurstBest : SameBurst(i, k) /\ sharp[k] >= sharp[i]
    /\ \A k \in BurstBest :
          /\ \E i \in Roll \ {k} : SameBurst(i, k) /\ sharp[i] > 0
          /\ \A i \in Roll : SameBurst(i, k) => sharp[i] <= sharp[k]
=============================================================================
