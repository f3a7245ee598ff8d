----------------------------- MODULE LWWReplicas -----------------------------
(***************************************************************************)
(* What cross-device sync promises, without a protocol: every device and   *)
(* the relay hold one register per shot, a device's own edit replaces its  *)
(* register, and every other change of a register is a merge - it brings   *)
(* in a register somebody wrote for that shot, and only one that wins over *)
(* the register it replaces.  The relay may lose everything it holds, but  *)
(* never without starting a new generation; a device loses nothing.        *)
(***************************************************************************)
EXTENDS SyncCore

CONSTANTS
    Dev,   (* the devices, by the rank of their ids *)
    Keys   (* the canonical shot keys of one camera *)

VARIABLES
    local,       (* local[d][k]: device d's register of shot k *)
    relay,       (* relay[k]: the relay's register of shot k *)
    generation,  (* the relay's generation *)
    written      (* written[k]: every register ever written for shot k *)

lwwVars == <<local, relay, generation, written>>

(* new was made from old by merging written registers into it. *)
Merges(old, new) ==
    \A k \in Keys :
        \/ new[k] = old[k]
        \/ new[k] \in written[k] /\ RecordWins(new[k], old[k])

Init ==
    /\ \A d \in Dev, k \in Keys : local[d][k] \in written[k] \union {NoRecord}
    /\ relay = [k \in Keys |-> NoRecord]

Edit(d, k, r) ==
    /\ r.hlc.dev = d
    /\ \A w \in written[k] : w.hlc # r.hlc
    /\ local' = [local EXCEPT ![d][k] = r]
    /\ written' = [written EXCEPT ![k] = @ \union {r}]
    /\ UNCHANGED <<relay, generation>>

DeviceMerge(d, regs) ==
    /\ Merges(local[d], regs)
    /\ local' = [local EXCEPT ![d] = regs]
    /\ UNCHANGED <<relay, generation, written>>

RelayMerge ==
    /\ Merges(relay, relay')
    /\ UNCHANGED <<local, generation, written>>

RelayLoss ==
    /\ relay' = [k \in Keys |-> NoRecord]
    /\ generation' > generation
    /\ UNCHANGED <<local, written>>

Next ==
    \/ \E d \in Dev, k \in Keys : Edit(d, k, local'[d][k])
    \/ \E d \in Dev : DeviceMerge(d, local'[d])
    \/ RelayMerge
    \/ RelayLoss

Spec == Init /\ [][Next]_lwwVars

=============================================================================
