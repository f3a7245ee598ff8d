--------------------------- MODULE SyncCoreProofs ---------------------------
(***************************************************************************)
(* The merge rule is a strict order: no set of registers can beat each     *)
(* other in a circle, so the order in which merges happen does not matter. *)
(***************************************************************************)
EXTENDS SyncCore, TLAPS

(* What the merge rule looks at in a register.                             *)
IsReg(r) == r.hlc \in HLC /\ r.mig \in BOOLEAN

(* synccore.Less never orders a clock before itself.                       *)
LEMMA LessIrreflexive == \A a \in HLC : ~Less(a, a)
  BY DEF Less, HLC

(* synccore.Less is transitive.                                            *)
LEMMA LessTransitive ==
  \A a, b, c \in HLC : Less(a, b) /\ Less(b, c) => Less(a, c)
  BY DEF Less, HLC

(* synccore.Less leaves no two different clocks unordered.                 *)
LEMMA LessTotal == \A a, b \in HLC : a = b \/ Less(a, b) \/ Less(b, a)
  BY DEF Less, HLC

LEMMA NoRecordIsReg == IsReg(NoRecord)
  BY DEF IsReg, NoRecord, ZeroHLC, HLC

(* A register does not win over one it loses to.                           *)
LEMMA WinsAsymmetric ==
  ASSUME NEW a, NEW b, IsReg(a), IsReg(b), a # NoRecord, b # NoRecord,
         RecordWins(a, b)
  PROVE  ~RecordWins(b, a) /\ a # b
  <1>1. ~(Less(a.hlc, b.hlc) /\ Less(b.hlc, a.hlc))
    BY LessIrreflexive, LessTransitive DEF IsReg
  <1>2. ~Less(a.hlc, a.hlc)
    BY LessIrreflexive DEF IsReg
  <1> QED
    BY <1>1, <1>2 DEF RecordWins, Wins, IsReg

(* Winning is transitive.                                                  *)
LEMMA WinsTransitive ==
  ASSUME NEW a, NEW b, NEW c, IsReg(a), IsReg(b), IsReg(c), b # NoRecord,
         RecordWins(a, b), RecordWins(b, c)
  PROVE  RecordWins(a, c)
  <1>1. Less(c.hlc, b.hlc) /\ Less(b.hlc, a.hlc) => Less(c.hlc, a.hlc)
    BY LessTransitive DEF IsReg
  <1> QED
    BY <1>1 DEF RecordWins, Wins, IsReg

(* Having merged is transitive.                                            *)
LEMMA CoversTransitive ==
  ASSUME NEW a, NEW b, NEW c, IsReg(a), IsReg(b), IsReg(c),
         Covers(a, b), Covers(b, c)
  PROVE  Covers(a, c)
  BY WinsTransitive DEF Covers

(* Of two registers that have merged each other there is only one.         *)
LEMMA CoversAntisymmetric ==
  ASSUME NEW a, NEW b, IsReg(a), IsReg(b), Covers(a, b), Covers(b, a)
  PROVE  a = b
  BY WinsAsymmetric DEF Covers

(* Two registers with different stamps are never left unordered: the one   *)
(* that does not win has been merged by the other.                         *)
LEMMA LoserIsCovered ==
  ASSUME NEW a, NEW b, IsReg(a), IsReg(b), b # NoRecord, a.hlc = b.hlc => a = b,
         ~RecordWins(a, b)
  PROVE  Covers(b, a)
  <1>1. a.hlc = b.hlc \/ Less(a.hlc, b.hlc) \/ Less(b.hlc, a.hlc)
    BY LessTotal DEF IsReg
  <1> QED
    BY <1>1 DEF RecordWins, Wins, Covers, IsReg

=============================================================================
