-------------------------- MODULE MCSessionJournal --------------------------
(***************************************************************************)
(* Instances of SessionJournal for TLC.                                    *)
(***************************************************************************)
EXTENDS SessionJournal

(* A register another device may push: the device's id sorts after ours.   *)
Remote(wall) ==
    [val |-> "keep", mig |-> FALSE,
     hlc |-> [wall |-> wall, ctr |-> 0, dev |-> 2, nonce |-> 1]]

(* Remotes as a device whose clock reads one of these walls makes them.    *)
NoRemotes == [k \in Keys |-> {}]
RemotesEarlyAndLate == [k \in Keys |-> {Remote(1), Remote(3)}]

=============================================================================
