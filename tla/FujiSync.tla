------------------------------ MODULE FujiSync ------------------------------
(***************************************************************************)
(* Cross-device sync: the sync half of each device's Session               *)
(* (internal/cull/sessionsync.go), its syncer loop (internal/cull/         *)
(* syncer.go) and the relay's store (cmd/fuji-sync/store.go), for one      *)
(* camera.                                                                 *)
(*                                                                         *)
(* A device's registers survive its crashes: SetDecision journals, every   *)
(* merge saves (SessionJournal models that half, the node clock included). *)
(* Here a local edit takes any unused stamp of its device, so the results  *)
(* do not depend on how well the clocks behave; ClockSound adds that a     *)
(* stamp sorts above the register it replaces.                             *)
(*                                                                         *)
(* Calls are HTTP requests, one outstanding per device.  A device may give *)
(* up on a call at any time (timeout, connection or status error, process  *)
(* death); a push it gave up on may still reach the relay, once, later.    *)
(*                                                                         *)
(* Not modelled: resume points (the syncer never pushes one), the contest- *)
(* ed flag (no reader uses it), several cameras (the relay keeps them      *)
(* apart).                                                                 *)
(***************************************************************************)
EXTENDS SyncCore, Integers, FiniteSets

CONSTANTS
    Dev,        (* devices, by the rank of their ids (1, 2, ...) *)
    Keys,       (* canonical shot keys *)
    Values,     (* values an edit can take: "keep", "reject", "clear" *)
    Walls, Ctrs, Nonces,  (* the readings a stamp is made of *)
    Upgraded,   (* devices whose session file was migrated from v1 *)
    MaxWritten, (* bound: registers ever written for one shot *)
    MaxEpoch,   (* bound: generations the relay can start *)
    MaxStray,   (* bound: abandoned pushes still on their way *)
    Faults      (* what may go wrong, see below *)

(***************************************************************************)
(* The faults:                                                             *)
(*   "wipe"      the relay starts without its file                         *)
(*   "restore"   the relay starts from an earlier copy of its file         *)
(*   "saveFail"  the relay's save fails; store.push ignores the error      *)
(*   "firstSync" the wipe may fall between a device's first push and its   *)
(*               first pull                                                *)
(*   "clock"     an edit's stamp may sort below the register it replaces   *)
(***************************************************************************)
FaultNames == {"wipe", "restore", "saveFail", "firstSync", "clock"}

ASSUME DevAssumption == Dev \subseteq Nat \ {0}
ASSUME KeysAssumption == IsFiniteSet(Keys)
ASSUME StampAssumption == Walls \subseteq Nat \ {0} /\ Ctrs \subseteq Nat /\ Nonces \subseteq Nat \ {0}
ASSUME ValueAssumption == "none" \notin Values
ASSUME BoundAssumption == MaxWritten \in Nat /\ MaxEpoch \in Nat \ {0} /\ MaxStray \in Nat
ASSUME FaultAssumption == Faults \subseteq FaultNames /\ Upgraded \subseteq Dev

VARIABLES
    records,    (* records[d][k]: Session.data.Records *)
    sv,         (* sv[d][k]: its server version; 0 is unacked, the outbox *)
    serverVer,  (* serverVer[d]: the pull high-water *)
    epoch,      (* epoch[d]: last generation seen, 0 for "" *)
    call,       (* call[d]: the syncer's outstanding request or its answer *)
    stray,      (* batches pushed by devices that gave up on the call *)
    srv,        (* the relay's store in memory *)
    disk,       (* the relay's file *)
    copy,       (* an earlier state of that file, kept as a backup *)
    nextEpoch,  (* the next token newEpoch will return *)
    written     (* written[k]: history of every register written for k *)

deviceVars == <<records, sv, serverVer, epoch>>
relayVars == <<srv, disk, copy, nextEpoch>>
vars == <<deviceVars, call, stray, relayVars, written>>

-----------------------------------------------------------------------------
(* Registers, batches, messages, files.                                    *)

Stamp(d) == [wall : Walls, ctr : Ctrs, dev : {d}, nonce : Nonces]

(* migrateV1Locked: all of a device's migrated registers share one stamp.  *)
Migrated(d, v) ==
    [val |-> v, mig |-> TRUE,
     hlc |-> [wall |-> 1, ctr |-> 0, dev |-> d, nonce |-> 0]]

Record == [val : Values, hlc : HLC, mig : BOOLEAN]
Register == Record \union {NoRecord}

EmptyBatch == [k \in Keys |-> NoRecord]
NoVersions == [k \in Keys |-> 0]
Has(batch, k) == batch[k] # NoRecord

Message == [kind : {"idle", "push", "pushed", "pull", "pulled"}, epoch : Nat,
            rows : [Keys -> Register], vers : [Keys -> Nat], high : Nat]

Idle == [kind |-> "idle", epoch |-> 0, rows |-> EmptyBatch, vers |-> NoVersions, high |-> 0]
PushCall(batch) == [Idle EXCEPT !.kind = "push", !.rows = batch]
PullCall(since) == [Idle EXCEPT !.kind = "pull", !.high = since]

File == [epoch : Nat, high : Nat, version : Nat,
         rows : [Keys -> Register], vers : [Keys -> Nat]]

(* A missing file: openStore treats it as an empty one without an epoch.   *)
NoFile == [epoch |-> 0, high |-> 0, version |-> 0, rows |-> EmptyBatch, vers |-> NoVersions]

-----------------------------------------------------------------------------
(* The relay's store.                                                      *)

OpenStore(file, fresh) ==
    IF file.epoch = 0 \/ file.version < file.high
    THEN [file EXCEPT !.epoch = fresh, !.high = file.version]
    ELSE file

(* The rows of a batch that win, and the orders in which the push can meet *)
(* them (the outbox comes from a Go map): n versions, one for each.        *)
Accepted(st, batch) == {k \in Keys : Has(batch, k) /\ RecordWins(batch[k], st.rows[k])}

Numberings(acc, n) ==
    {f \in [acc -> 1 .. n] :
        /\ \A i \in 1 .. n : \E k \in acc : f[k] = i
        /\ \A k, m \in acc : f[k] = f[m] => k = m}

\* Mutant of Pushed: a row that replaces another keeps its version.
PushedKeepsVersion(st, batch, f, n) ==
    [st EXCEPT
        !.version = st.version + n,
        !.high = IF st.version + n > st.high THEN st.version + n ELSE st.high,
        !.rows = [k \in Keys |-> IF k \in DOMAIN f THEN batch[k] ELSE st.rows[k]],
        !.vers = [k \in Keys |-> IF k \in DOMAIN f /\ ~Has(st.rows, k)
                                 THEN st.version + f[k] ELSE st.vers[k]]]

\* Mutant of Pushed: every row of the batch is stored, losing ones too.
PushedUnconditionally(st, batch, f, n) ==
    [st EXCEPT
        !.version = st.version + n + 1,
        !.high = IF st.version + n + 1 > st.high THEN st.version + n + 1 ELSE st.high,
        !.rows = [k \in Keys |-> IF Has(batch, k) THEN batch[k] ELSE st.rows[k]],
        !.vers = [k \in Keys |-> IF k \in DOMAIN f THEN st.version + f[k]
                                 ELSE IF Has(batch, k) THEN st.version + n + 1 ELSE st.vers[k]]]

(* The store after accepting DOMAIN f out of batch, numbered by f.         *)
Pushed(st, batch, f, n) ==
    [st EXCEPT
        !.version = st.version + n,
        !.high = IF st.version + n > st.high THEN st.version + n ELSE st.high,
        !.rows = [k \in Keys |-> IF k \in DOMAIN f THEN batch[k] ELSE st.rows[k]],
        !.vers = [k \in Keys |-> IF k \in DOMAIN f THEN st.version + f[k] ELSE st.vers[k]]]

(* The answer to a push: for each of its keys, the row the store now has.  *)
PushAnswer(st, batch) ==
    [Idle EXCEPT
        !.kind = "pushed",
        !.epoch = st.epoch,
        !.rows = [k \in Keys |-> IF Has(batch, k) THEN st.rows[k] ELSE NoRecord],
        !.vers = [k \in Keys |-> IF Has(batch, k) THEN st.vers[k] ELSE 0]]

Above(st, since) == {k \in Keys : Has(st.rows, k) /\ st.vers[k] > since}

\* Mutant of PullAnswer: the high-water is one too low.
PullAnswerTooLow(st, since, high) ==
    [Idle EXCEPT
        !.kind = "pulled",
        !.epoch = st.epoch,
        !.high = high - 1,
        !.rows = [k \in Keys |-> IF k \in Above(st, since) THEN st.rows[k] ELSE NoRecord],
        !.vers = [k \in Keys |-> IF k \in Above(st, since) THEN st.vers[k] ELSE 0]]

PullAnswer(st, since, high) ==
    [Idle EXCEPT
        !.kind = "pulled",
        !.epoch = st.epoch,
        !.high = high,
        !.rows = [k \in Keys |-> IF k \in Above(st, since) THEN st.rows[k] ELSE NoRecord],
        !.vers = [k \in Keys |-> IF k \in Above(st, since) THEN st.vers[k] ELSE 0]]

-----------------------------------------------------------------------------
(* The sync half of a Session.                                             *)

Dirty(regs, acks) == [k \in Keys |-> IF regs[k] # NoRecord /\ acks[k] = 0
                                     THEN regs[k] ELSE NoRecord]

Beaten(regs, rows) == {k \in Keys : Has(rows, k) /\ RecordWins(rows[k], regs[k])}

\* Mutant of Adopt: rows replace the local registers without the merge rule.
AdoptBlindly(d, rows, vers, alsoAcked) ==
    LET won == {k \in Keys : Has(rows, k)}
    IN  /\ records' = [records EXCEPT ![d] =
                          [k \in Keys |-> IF k \in won THEN rows[k] ELSE @[k]]]
        /\ sv' = [sv EXCEPT ![d] =
                          [k \in Keys |-> IF k \in won \union alsoAcked THEN vers[k] ELSE @[k]]]

(* Merge rows into d's registers; a row that wins brings its version, and  *)
(* the registers of alsoAcked are clean at that version too.               *)
Adopt(d, rows, vers, alsoAcked) ==
    LET won == Beaten(records[d], rows)
    IN  /\ records' = [records EXCEPT ![d] =
                          [k \in Keys |-> IF k \in won THEN rows[k] ELSE @[k]]]
        /\ sv' = [sv EXCEPT ![d] =
                          [k \in Keys |-> IF k \in won \union alsoAcked THEN vers[k] ELSE @[k]]]

\* Mutant of AckPush: whatever was pushed is clean once the push is answered,
\* even if the user edited the shot again meanwhile.
AckPushWhatWasSent(d, resp) ==
    /\ Adopt(d, resp.rows, resp.vers,
             {k \in Keys : Has(resp.rows, k) /\ sv[d][k] = 0})
    /\ UNCHANGED <<serverVer, epoch>>

(* Winners are merged; a register that IS the winner becomes clean; one    *)
(* edited since the push stays dirty.                                      *)
AckPush(d, resp) ==
    /\ Adopt(d, resp.rows, resp.vers,
             {k \in Keys : /\ Has(resp.rows, k)
                           /\ records[d][k] # NoRecord
                           /\ records[d][k].hlc = resp.rows[k].hlc
                           /\ sv[d][k] = 0})
    /\ UNCHANGED <<serverVer, epoch>>

ApplyRemote(d, resp) ==
    /\ Adopt(d, resp.rows, resp.vers, {})
    /\ serverVer' = [serverVer EXCEPT ![d] = IF resp.high > @ THEN resp.high ELSE @]
    /\ epoch' = [epoch EXCEPT ![d] = resp.epoch]

\* Mutant of ResetForEpoch: the pull high-water survives the reset.
ResetKeepsHighWater(d, newEpoch) ==
    /\ epoch' = [epoch EXCEPT ![d] = newEpoch]
    /\ sv' = [sv EXCEPT ![d] = [k \in Keys |-> 0]]
    /\ UNCHANGED <<serverVer, records>>

ResetForEpoch(d, newEpoch) ==
    /\ serverVer' = [serverVer EXCEPT ![d] = 0]
    /\ epoch' = [epoch EXCEPT ![d] = newEpoch]
    /\ sv' = [sv EXCEPT ![d] = [k \in Keys |-> 0]]
    /\ UNCHANGED records

-----------------------------------------------------------------------------
(* Initial states: every device was just installed, or upgraded from a v1  *)
(* file with some decisions; the relay starts for the first time.          *)

Init ==
    /\ records \in [Dev -> [Keys -> {NoRecord} \union
                        {Migrated(d, v) : d \in Upgraded, v \in Values \ {"clear"}}]]
    /\ \A d \in Dev, k \in Keys :
           records[d][k] = NoRecord \/ (d \in Upgraded /\ records[d][k].hlc.dev = d)
    /\ sv = [d \in Dev |-> [k \in Keys |-> 0]]
    /\ serverVer = [d \in Dev |-> 0]
    /\ epoch = [d \in Dev |-> 0]
    /\ call = [d \in Dev |-> Idle]
    /\ stray = {}
    /\ srv = OpenStore(NoFile, 1)
    /\ disk = srv
    /\ copy = srv
    /\ nextEpoch = 2
    /\ written = [k \in Keys |-> {records[d][k] : d \in Dev} \ {NoRecord}]

-----------------------------------------------------------------------------
(* The user decides, or clears, shot k on device d.                        *)

SetDecision(d, k) ==
    /\ Cardinality(written[k]) < MaxWritten
    /\ \E v \in Values, h \in Stamp(d) :
           LET r == [val |-> v, hlc |-> h, mig |-> FALSE]
           IN  /\ \A w \in written[k] : w.hlc # h
               /\ "clock" \in Faults \/ RecordWins(r, records[d][k])
               /\ records' = [records EXCEPT ![d][k] = r]
               /\ written' = [written EXCEPT ![k] = @ \union {r}]
    /\ sv' = [sv EXCEPT ![d][k] = 0]
    /\ UNCHANGED <<serverVer, epoch, call, stray, relayVars>>

-----------------------------------------------------------------------------
(* syncOnce: push the outbox if there is one, then pull.                   *)

Mismatch(d, resp) == epoch[d] # 0 /\ resp.epoch # epoch[d]

StartSync(d) ==
    LET out == Dirty(records[d], sv[d])
    IN  /\ call[d] = Idle
        /\ call' = [call EXCEPT ![d] =
                        IF out # EmptyBatch THEN PushCall(out) ELSE PullCall(serverVer[d])]
        /\ UNCHANGED <<deviceVars, stray, relayVars, written>>

PushReturns(d) ==
    LET resp == call[d]
    IN  /\ resp.kind = "pushed"
        /\ IF Mismatch(d, resp)
           THEN ResetForEpoch(d, resp.epoch) /\ call' = [call EXCEPT ![d] = Idle]
           ELSE AckPush(d, resp) /\ call' = [call EXCEPT ![d] = PullCall(serverVer[d])]
        /\ UNCHANGED <<stray, relayVars, written>>

PullReturns(d) ==
    LET resp == call[d]
    IN  /\ resp.kind = "pulled"
        /\ IF Mismatch(d, resp) \/ resp.high < serverVer[d]
           THEN ResetForEpoch(d, resp.epoch)
           ELSE ApplyRemote(d, resp)
        /\ call' = [call EXCEPT ![d] = Idle]
        /\ UNCHANGED <<stray, relayVars, written>>

(* The call fails, or the device's process dies: syncOnce returns early.   *)
(* A push may have left already (beyond MaxStray it is lost).              *)
GiveUp(d) ==
    /\ call[d] # Idle
    /\ stray' = stray \union (IF call[d].kind = "push" /\ Cardinality(stray) < MaxStray
                              THEN {call[d].rows} ELSE {})
    /\ call' = [call EXCEPT ![d] = Idle]
    /\ UNCHANGED <<deviceVars, relayVars, written>>

-----------------------------------------------------------------------------
(* The relay's handlers, each one transaction under its lock.              *)

(* save: the file is the new state, unless the write failed; whoever keeps *)
(* backups may copy it now.                                                *)
Save(st) ==
    /\ disk' \in {st} \union (IF "saveFail" \in Faults THEN {disk} ELSE {})
    /\ copy' \in {copy} \union (IF "restore" \in Faults THEN {disk'} ELSE {})

Push(batch) ==
    \E n \in 0 .. Cardinality(Keys) : \E f \in Numberings(Accepted(srv, batch), n) :
        /\ srv' = Pushed(srv, batch, f, n)
        /\ IF Accepted(srv, batch) # {} THEN Save(srv') ELSE UNCHANGED <<disk, copy>>
        /\ UNCHANGED nextEpoch

HandlePush(d) ==
    /\ call[d].kind = "push"
    /\ Push(call[d].rows)
    /\ call' = [call EXCEPT ![d] = PushAnswer(srv', call[d].rows)]
    /\ UNCHANGED <<deviceVars, stray, written>>

HandleStray(batch) ==
    /\ batch \in stray
    /\ stray' = stray \ {batch}
    /\ Push(batch)
    /\ UNCHANGED <<deviceVars, call, written>>

HandlePull(d) ==
    LET since == call[d].high
        seen == {since} \union {srv.vers[k] : k \in Above(srv, since)}
    IN  /\ call[d].kind = "pull"
        /\ \E high \in seen :
               /\ \A v \in seen : v <= high
               /\ call' = [call EXCEPT ![d] = PullAnswer(srv, since, high)]
        /\ UNCHANGED <<deviceVars, stray, relayVars, written>>

(* No device has been told its first push arrived before it has learnt the *)
(* relay's generation.                                                     *)
FirstSyncSettled ==
    \A d \in Dev : epoch[d] = 0 => call[d].kind # "pushed" /\ \A k \in Keys : sv[d][k] = 0

FilesFound ==
    {disk} \union
    (IF "restore" \in Faults THEN {copy} ELSE {}) \union
    (IF "wipe" \in Faults /\ ("firstSync" \in Faults \/ FirstSyncSettled) THEN {NoFile} ELSE {})

RelayRestarts ==
    /\ \E file \in FilesFound :
           LET opened == OpenStore(file, nextEpoch)
           IN  /\ opened.epoch <= MaxEpoch
               /\ srv' = opened
               /\ disk' = opened
               /\ nextEpoch' = IF opened = file THEN nextEpoch ELSE nextEpoch + 1
    /\ UNCHANGED <<deviceVars, call, stray, copy, written>>

-----------------------------------------------------------------------------

Next ==
    \/ \E d \in Dev, k \in Keys : SetDecision(d, k)
    \/ \E d \in Dev : StartSync(d)
    \/ \E d \in Dev : PushReturns(d)
    \/ \E d \in Dev : PullReturns(d)
    \/ \E d \in Dev : GiveUp(d)
    \/ \E d \in Dev : HandlePush(d)
    \/ \E batch \in stray : HandleStray(batch)
    \/ \E d \in Dev : HandlePull(d)
    \/ RelayRestarts

Spec == Init /\ [][Next]_vars

(***************************************************************************)
(* The syncer's loop always starts another cycle (30 s after a success,    *)
(* with a bounded backoff after a failure) and never caches a result.  The *)
(* network is only assumed to answer now and then: of infinitely many      *)
(* calls, infinitely many are handled, and of those answers infinitely     *)
(* many come back.                                                         *)
(***************************************************************************)
Fairness ==
    \A d \in Dev :
        /\ WF_vars(StartSync(d))
        /\ SF_vars(HandlePush(d)) /\ SF_vars(HandlePull(d))
        /\ SF_vars(PushReturns(d)) /\ SF_vars(PullReturns(d))

FairSpec == Spec /\ Fairness

-----------------------------------------------------------------------------
(* Properties.                                                             *)

TypeOK ==
    /\ records \in [Dev -> [Keys -> Register]]
    /\ sv \in [Dev -> [Keys -> Nat]]
    /\ serverVer \in [Dev -> Nat]
    /\ epoch \in [Dev -> Nat]
    /\ call \in [Dev -> Message]
    /\ stray \subseteq [Keys -> Register]
    /\ srv \in File /\ disk \in File /\ copy \in File
    /\ nextEpoch \in Nat
    /\ written \in [Keys -> SUBSET Record]

(* An acknowledged register is safe: while a device and the relay are in   *)
(* one generation (or the device has not learnt one yet), the relay holds  *)
(* every register the device counts as clean, or one that won over it.     *)
(* A clean register is never pushed again, so one that is not covered      *)
(* would never reach another device.                                       *)
AckedCovered ==
    \A d \in Dev, k \in Keys :
        sv[d][k] # 0 /\ epoch[d] \in {0, srv.epoch} => Covers(srv.rows[k], records[d][k])

(* The pull high-water never passes a row the device has not merged: of    *)
(* the rows up to it, the device holds each one or a winner over it, or    *)
(* has an edit of its own still to push.                                   *)
NothingSkipped ==
    \A d \in Dev, k \in Keys :
        epoch[d] = srv.epoch /\ Has(srv.rows, k) /\ srv.vers[k] <= serverVer[d]
            => /\ records[d][k] # NoRecord
               /\ sv[d][k] = 0 \/ Covers(records[d][k], srv.rows[k])

(* What a device can tell about being up to date: the relay's generation,  *)
(* nothing left to push, and a high-water no row is above.                 *)
InSync(d) ==
    /\ epoch[d] = srv.epoch
    /\ \A k \in Keys : records[d][k] # NoRecord => sv[d][k] # 0
    /\ Above(srv, serverVer[d]) = {}

(* A device that is in sync holds exactly the relay's registers, so any    *)
(* two such devices agree on every shot.                                   *)
InSyncAgrees == \A d \in Dev : InSync(d) => records[d] = srv.rows

(* No decision lives only on the relay: whatever the relay loses, every    *)
(* decision ever made is still held by a device, or was superseded by one  *)
(* that is.                                                                *)
NoDecisionLost ==
    \A k \in Keys : \A w \in written[k] : \E d \in Dev : Covers(records[d][k], w)

(* Devices only merge: see LWWReplicas.                                    *)
Replicas == INSTANCE LWWReplicas
    WITH local <- records, relay <- srv.rows, generation <- srv.epoch

(* Every step of the protocol is an edit, a merge that brings in a winner, *)
(* or the start of a new generation: no delayed, repeated or lost call     *)
(* replaces a register by one that does not win over it.                   *)
OnlyMerges == Replicas!Spec

(* When the user stops deciding, all devices and the relay end up with the *)
(* same registers and stay there.                                          *)
Convergence == <>[](\A d \in Dev : records[d] = srv.rows)

=============================================================================
