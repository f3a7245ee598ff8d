------------------------------ MODULE SyncCore ------------------------------
(***************************************************************************)
(* The merge authority shared by the engine and the relay                  *)
(* (internal/synccore/synccore.go), the node clock that stamps local edits *)
(* (internal/cull/hlc.go) and the decision register both sides store.      *)
(*                                                                         *)
(* A hybrid logical clock is a record of four naturals.  Go compares Dev   *)
(* and Nonce as strings, so a device id and a nonce stand for their rank   *)
(* in that order; rank 0 is the empty string, which Go's zero value has    *)
(* and which no device id is.                                              *)
(*                                                                         *)
(* A register's value is "keep", "reject" or the tombstone "clear" (D and  *)
(* Del of the Go record), and mig says that it was derived from a v1 file. *)
(***************************************************************************)
EXTENDS Naturals

HLC == [wall : Nat, ctr : Nat, dev : Nat, nonce : Nat]

ZeroHLC == [wall |-> 0, ctr |-> 0, dev |-> 0, nonce |-> 0]

\* Mutant of Less: the walls and counters are compared but ties are left
\* unresolved, so two devices that edit in the same millisecond never agree.
LessNoTieBreak(a, b) ==
    \/ a.wall < b.wall
    \/ a.wall = b.wall /\ a.ctr < b.ctr

(* Lexicographic on (Wall, Ctr, Dev, Nonce). *)
Less(a, b) ==
    \/ a.wall < b.wall
    \/ a.wall = b.wall /\ a.ctr < b.ctr
    \/ a.wall = b.wall /\ a.ctr = b.ctr /\ a.dev < b.dev
    \/ a.wall = b.wall /\ a.ctr = b.ctr /\ a.dev = b.dev /\ a.nonce < b.nonce

MaxHLC(a, b) == IF Less(a, b) THEN b ELSE a

(* Does an incoming register replace the stored one? *)
Wins(inHLC, inMigrated, stHLC, stMigrated, stExists) ==
    \/ ~stExists
    \/ inMigrated # stMigrated /\ ~inMigrated
    \/ inMigrated = stMigrated /\ Less(stHLC, inHLC)

(* The zero value a Go map returns for a key it does not hold. *)
NoRecord == [val |-> "none", hlc |-> ZeroHLC, mig |-> FALSE]

RecordWins(in, stored) ==
    Wins(in.hlc, in.mig, stored.hlc, stored.mig, stored # NoRecord)

(* a has merged b: a is b, or a replaced it. *)
Covers(a, b) == a # NoRecord /\ (a = b \/ RecordWins(a, b))

(***************************************************************************)
(* tickHLC: the node clock moves past the local clock reading now, clamped *)
(* to ceil (0 means no clamp).  The value is the next node clock; the      *)
(* event's stamp is the same clock with a nonce.                           *)
(***************************************************************************)
\* Mutant of Tick: the wall is taken from the local clock alone.
TickTrustsLocalClock(node, dev, now, ceil) ==
    LET wall == IF ceil > 0 /\ now > ceil THEN ceil ELSE now
    IN  [wall |-> wall, ctr |-> IF wall = node.wall THEN node.ctr + 1 ELSE 0,
         dev |-> dev, nonce |-> 0]

Tick(node, dev, now, ceil) ==
    LET ahead == IF node.wall > now THEN node.wall ELSE now
        wall  == IF ceil > 0 /\ ahead > ceil THEN ceil ELSE ahead
    IN  [wall |-> wall, ctr |-> IF wall = node.wall THEN node.ctr + 1 ELSE 0,
         dev |-> dev, nonce |-> 0]

=============================================================================
