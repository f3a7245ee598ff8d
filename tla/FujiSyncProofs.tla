--------------------------- MODULE FujiSyncProofs ---------------------------
(***************************************************************************)
(* Proofs about FujiSync, for every set of devices, shots, stamps and      *)
(* every bound.                                                            *)
(***************************************************************************)
EXTENDS FujiSync, SyncCoreProofs, FiniteSetTheorems

-----------------------------------------------------------------------------
(* The inductive invariant.                                                *)

(* Every register in the system was written, and a stamp names one of the  *)
(* registers of a shot.                                                    *)
OnlyWritten ==
    \A k \in Keys :
        /\ \A d \in Dev : /\ records[d][k] \in written[k] \union {NoRecord}
                          /\ call[d].rows[k] \in written[k] \union {NoRecord}
        /\ \A batch \in stray : batch[k] \in written[k] \union {NoRecord}
        /\ srv.rows[k] \in written[k] \union {NoRecord}
        /\ disk.rows[k] \in written[k] \union {NoRecord}
        /\ copy.rows[k] \in written[k] \union {NoRecord}
        /\ \A a, b \in written[k] : a.hlc = b.hlc => a = b

(* With no fault but a lost file, the file is the store and its versions   *)
(* number the rows.                                                        *)
StoreNumbered ==
    /\ disk = srv
    /\ srv.high = srv.version
    /\ srv.epoch \in 1 .. nextEpoch - 1
    /\ \A k \in Keys : /\ srv.vers[k] <= srv.version
                       /\ Has(srv.rows, k) => srv.vers[k] > 0

(* What a device knows is not ahead of the relay.                          *)
NotAhead ==
    \A d \in Dev :
        /\ epoch[d] <= srv.epoch
        /\ call[d].epoch <= srv.epoch
        /\ call[d].kind \in {"pushed", "pulled"} => call[d].epoch > 0
        /\ epoch[d] = 0 => serverVer[d] = 0
        /\ epoch[d] = srv.epoch => serverVer[d] <= srv.version
        /\ epoch[d] = 0 /\ call[d].kind = "pushed" => call[d].epoch = srv.epoch
        /\ call[d].kind = "pull" => call[d].high = serverVer[d]

(* d will take its outstanding answer for one of the relay's generation.   *)
Current(d) == epoch[d] \in {0, srv.epoch} /\ call[d].epoch = srv.epoch

(* A row in an answer is the relay's row, or the relay has a later one.    *)
AnswerCovered(d) ==
    \A k \in Keys : Has(call[d].rows, k) =>
        /\ Covers(srv.rows[k], call[d].rows[k])
        /\ srv.rows[k] = call[d].rows[k] \/ srv.vers[k] > serverVer[d]

(* A pull's answer holds every row up to its high-water.                   *)
AnswerComplete(d) ==
    /\ call[d].high <= srv.version
    /\ \A k \in Keys : Has(srv.rows, k) /\ srv.vers[k] <= call[d].high =>
           srv.rows[k] = call[d].rows[k] \/ srv.vers[k] <= serverVer[d]
    /\ \A k \in Keys : Has(call[d].rows, k) => srv.vers[k] > serverVer[d]

Answers ==
    \A d \in Dev : Current(d) =>
        /\ call[d].kind \in {"pushed", "pulled"} => AnswerCovered(d)
        /\ call[d].kind = "pulled" => AnswerComplete(d)

SyncInv ==
    /\ TypeOK /\ OnlyWritten /\ StoreNumbered /\ NotAhead /\ Answers
    /\ AckedCovered /\ NothingSkipped

-----------------------------------------------------------------------------
(* Types.                                                                  *)

Batch == [Keys -> Register]

LEMMA RegisterFacts ==
  /\ NoRecord \in Register
  /\ NoRecord \notin Record
  /\ EmptyBatch \in Batch
  /\ NoVersions \in [Keys -> Nat]
  BY ValueAssumption DEF NoRecord, Register, Record, EmptyBatch, NoVersions, Batch

LEMMA RegisterIsReg == \A r \in Register : IsReg(r)
  BY NoRecordIsReg DEF Register, Record, IsReg

LEMMA MessageTypes ==
  /\ Idle \in Message
  /\ \A batch \in Batch : PushCall(batch) \in Message
  /\ \A since \in Nat : PullCall(since) \in Message
  BY RegisterFacts DEF Idle, PushCall, PullCall, Message, Batch

LEMMA OpenStoreType ==
  ASSUME NEW file \in File, NEW fresh \in Nat
  PROVE  OpenStore(file, fresh) \in File
  BY DEF OpenStore, File

LEMMA NoFileType == NoFile \in File
  BY RegisterFacts DEF NoFile, File, Batch

LEMMA AnswerTypes ==
  ASSUME NEW st \in File, NEW batch \in Batch, NEW since \in Nat, NEW high \in Nat
  PROVE  /\ PushAnswer(st, batch) \in Message
         /\ PullAnswer(st, since, high) \in Message
  BY RegisterFacts
  DEF PushAnswer, PullAnswer, Idle, Message, Batch, File

(* The number of rows a push accepts is a natural number.                  *)
LEMMA CountIsNat == \A n \in 0 .. Cardinality(Keys) : n \in Nat
  BY KeysAssumption, FS_CardinalityType

LEMMA PushedType ==
  ASSUME NEW st \in File, NEW batch \in Batch,
         NEW n \in Nat, NEW f \in Numberings(Accepted(st, batch), n)
  PROVE  Pushed(st, batch, f, n) \in File
  <1>1. f \in [Accepted(st, batch) -> 1 .. n]
    BY DEF Numberings
  <1> DEFINE rows == [k \in Keys |-> IF k \in DOMAIN f THEN batch[k] ELSE st.rows[k]]
             vers == [k \in Keys |-> IF k \in DOMAIN f THEN st.version + f[k]
                                     ELSE st.vers[k]]
             high == IF st.version + n > st.high THEN st.version + n ELSE st.high
  <1>2. rows \in [Keys -> Register]
    BY DEF File, Batch
  <1>3. vers \in [Keys -> Nat]
    BY <1>1 DEF File
  <1>4. high \in Nat /\ st.version + n \in Nat
    BY DEF File
  <1>5. Pushed(st, batch, f, n) =
          [st EXCEPT !.version = st.version + n, !.high = high, !.rows = rows, !.vers = vers]
    BY DEF Pushed
  <1> HIDE DEF rows, vers, high
  <1> QED
    BY <1>2, <1>3, <1>4, <1>5 DEF File

LEMMA DirtyType ==
  ASSUME NEW regs \in Batch, NEW acks
  PROVE  Dirty(regs, acks) \in Batch
  BY RegisterFacts DEF Dirty, Batch

LEMMA AdoptType ==
  ASSUME TypeOK, NEW d \in Dev, NEW rows \in Batch, NEW vers \in [Keys -> Nat], NEW also,
         Adopt(d, rows, vers, also)
  PROVE  /\ records' \in [Dev -> Batch]
         /\ sv' \in [Dev -> [Keys -> Nat]]
  BY DEF TypeOK, Adopt, Batch

LEMMA InitType == Init => TypeOK
  <1> SUFFICES ASSUME Init PROVE TypeOK
    OBVIOUS
  <1>1. \A d \in Upgraded, v \in Values : Migrated(d, v) \in Record
    BY FaultAssumption, DevAssumption DEF Migrated, Record, HLC
  <1>2. records \in [Dev -> Batch]
    BY <1>1, RegisterFacts DEF Init, Register, Batch
  <1>3. written \in [Keys -> SUBSET Record]
    BY <1>2 DEF Init, Register, Batch
  <1>4. srv \in File
    BY NoFileType, OpenStoreType DEF Init
  <1> QED
    BY <1>2, <1>3, <1>4, MessageTypes, RegisterFacts DEF Init, TypeOK, Batch

(* A push, whoever sends it, leaves the relay well typed.                  *)
LEMMA PushType ==
  ASSUME TypeOK, NEW batch \in Batch, Push(batch)
  PROVE  srv' \in File /\ disk' \in File /\ copy' \in File /\ nextEpoch' \in Nat
  <1>1. PICK n \in 0 .. Cardinality(Keys) :
          \E f \in Numberings(Accepted(srv, batch), n) :
            /\ srv' = Pushed(srv, batch, f, n)
            /\ IF Accepted(srv, batch) # {} THEN Save(srv') ELSE UNCHANGED <<disk, copy>>
            /\ UNCHANGED nextEpoch
    BY DEF Push
  <1>2. n \in Nat
    BY CountIsNat
  <1>3. srv' \in File
    BY <1>1, <1>2, PushedType DEF TypeOK
  <1> QED
    BY <1>1, <1>3 DEF TypeOK, Save

LEMMA SetDecisionType ==
  ASSUME TypeOK, NEW d \in Dev, NEW k \in Keys, SetDecision(d, k)
  PROVE  TypeOK'
  <1>1. PICK v \in Values, h \in Stamp(d) :
          /\ records' = [records EXCEPT ![d][k] = [val |-> v, hlc |-> h, mig |-> FALSE]]
          /\ written' = [written EXCEPT ![k] = @ \union {[val |-> v, hlc |-> h, mig |-> FALSE]}]
    BY DEF SetDecision
  <1>2. h \in HLC
    BY StampAssumption, DevAssumption DEF Stamp, HLC
  <1>3. [val |-> v, hlc |-> h, mig |-> FALSE] \in Record
    BY <1>2 DEF Record
  <1>4. records' \in [Dev -> [Keys -> Register]]
    BY <1>1, <1>3 DEF TypeOK, Register
  <1>5. written' \in [Keys -> SUBSET Record]
    BY <1>1, <1>3 DEF TypeOK
  <1>6. sv' \in [Dev -> [Keys -> Nat]]
    BY DEF SetDecision, TypeOK
  <1> QED
    BY <1>4, <1>5, <1>6 DEF SetDecision, TypeOK, relayVars

LEMMA TypeStep == TypeOK /\ [Next]_vars => TypeOK'
  <1> SUFFICES ASSUME TypeOK, [Next]_vars PROVE TypeOK'
    OBVIOUS
  <1>1. ASSUME NEW d \in Dev, NEW k \in Keys, SetDecision(d, k) PROVE TypeOK'
    BY <1>1, SetDecisionType
  <1>2. ASSUME NEW d \in Dev, StartSync(d) PROVE TypeOK'
    <2>1. Dirty(records[d], sv[d]) \in Batch
      BY DirtyType DEF TypeOK, Batch
    <2>2. call' \in [Dev -> Message]
      BY <1>2, <2>1, MessageTypes DEF StartSync, TypeOK
    <2> QED
      BY <1>2, <2>2 DEF StartSync, TypeOK, deviceVars, relayVars
  <1>3. ASSUME NEW d \in Dev, PushReturns(d) PROVE TypeOK'
    <2>1. call[d] \in Message
      BY DEF TypeOK
    <2>0. call[d].epoch \in Nat /\ call[d].high \in Nat
      BY <2>1 DEF Message
    <2>2. records' \in [Dev -> Batch] /\ sv' \in [Dev -> [Keys -> Nat]]
      <3>1. CASE Mismatch(d, call[d])
        <4>1. UNCHANGED records /\ sv' = [sv EXCEPT ![d] = [k \in Keys |-> 0]]
          BY <1>3, <3>1 DEF PushReturns, ResetForEpoch
        <4> QED
          BY <4>1 DEF TypeOK, Batch
      <3>2. CASE ~Mismatch(d, call[d])
        BY <1>3, <3>2, <2>1, AdoptType DEF PushReturns, AckPush, Message, Batch
      <3> QED
        BY <3>1, <3>2
    <2>3. epoch' \in [Dev -> Nat] /\ serverVer' \in [Dev -> Nat]
      <3>1. CASE Mismatch(d, call[d])
        <4>1. /\ epoch' = [epoch EXCEPT ![d] = call[d].epoch]
              /\ serverVer' = [serverVer EXCEPT ![d] = 0]
          BY <1>3, <3>1 DEF PushReturns, ResetForEpoch
        <4> QED
          BY <4>1, <2>0 DEF TypeOK
      <3>2. CASE ~Mismatch(d, call[d])
        BY <1>3, <3>2 DEF PushReturns, AckPush, TypeOK
      <3> QED
        BY <3>1, <3>2
    <2>4. call' \in [Dev -> Message]
      BY <1>3, MessageTypes DEF PushReturns, TypeOK
    <2> QED
      BY <1>3, <2>2, <2>3, <2>4 DEF PushReturns, TypeOK, relayVars, Batch
  <1>4. ASSUME NEW d \in Dev, PullReturns(d) PROVE TypeOK'
    <2>1. call[d] \in Message
      BY DEF TypeOK
    <2>0. call[d].epoch \in Nat /\ call[d].high \in Nat
      BY <2>1 DEF Message
    <2>2. records' \in [Dev -> Batch] /\ sv' \in [Dev -> [Keys -> Nat]]
      <3>1. CASE Mismatch(d, call[d]) \/ call[d].high < serverVer[d]
        <4>1. UNCHANGED records /\ sv' = [sv EXCEPT ![d] = [k \in Keys |-> 0]]
          BY <1>4, <3>1 DEF PullReturns, ResetForEpoch
        <4> QED
          BY <4>1 DEF TypeOK, Batch
      <3>2. CASE ~(Mismatch(d, call[d]) \/ call[d].high < serverVer[d])
        BY <1>4, <3>2, <2>1, AdoptType DEF PullReturns, ApplyRemote, Message, Batch
      <3> QED
        BY <3>1, <3>2
    <2>3. epoch' \in [Dev -> Nat] /\ serverVer' \in [Dev -> Nat]
      <3>1. CASE Mismatch(d, call[d]) \/ call[d].high < serverVer[d]
        <4>1. /\ epoch' = [epoch EXCEPT ![d] = call[d].epoch]
              /\ serverVer' = [serverVer EXCEPT ![d] = 0]
          BY <1>4, <3>1 DEF PullReturns, ResetForEpoch
        <4> QED
          BY <4>1, <2>0 DEF TypeOK
      <3>2. CASE ~(Mismatch(d, call[d]) \/ call[d].high < serverVer[d])
        BY <1>4, <3>2, <2>0 DEF PullReturns, ApplyRemote, TypeOK
      <3> QED
        BY <3>1, <3>2
    <2>4. call' \in [Dev -> Message]
      BY <1>4, MessageTypes DEF PullReturns, TypeOK
    <2> QED
      BY <1>4, <2>2, <2>3, <2>4 DEF PullReturns, TypeOK, relayVars, Batch
  <1>5. ASSUME NEW d \in Dev, GiveUp(d) PROVE TypeOK'
    <2>1. call[d].rows \in Batch
      BY DEF TypeOK, Message, Batch
    <2> QED
      BY <1>5, <2>1, MessageTypes DEF GiveUp, TypeOK, deviceVars, relayVars, Batch
  <1>6. ASSUME NEW d \in Dev, HandlePush(d) PROVE TypeOK'
    <2>1. call[d].rows \in Batch
      BY DEF TypeOK, Message, Batch
    <2>2. srv' \in File /\ disk' \in File /\ copy' \in File /\ nextEpoch' \in Nat
      BY <1>6, <2>1, PushType DEF HandlePush
    <2>3. call' \in [Dev -> Message]
      BY <1>6, <2>1, <2>2, AnswerTypes DEF HandlePush, TypeOK
    <2> QED
      BY <1>6, <2>2, <2>3 DEF HandlePush, TypeOK, deviceVars
  <1>7. ASSUME NEW batch \in stray, HandleStray(batch) PROVE TypeOK'
    <2>1. batch \in Batch
      BY DEF TypeOK, Batch
    <2>2. srv' \in File /\ disk' \in File /\ copy' \in File /\ nextEpoch' \in Nat
      BY <1>7, <2>1, PushType DEF HandleStray
    <2> QED
      BY <1>7, <2>2 DEF HandleStray, TypeOK, deviceVars
  <1>8. ASSUME NEW d \in Dev, HandlePull(d) PROVE TypeOK'
    <2>1. call[d].high \in Nat
      BY DEF TypeOK, Message
    <2>2. PICK high \in {call[d].high} \union
                          {srv.vers[k] : k \in Above(srv, call[d].high)} :
            call' = [call EXCEPT ![d] = PullAnswer(srv, call[d].high, high)]
      BY <1>8 DEF HandlePull
    <2>3. high \in Nat
      BY <2>1 DEF TypeOK, File, Above
    <2>4. call' \in [Dev -> Message]
      BY <2>1, <2>2, <2>3, AnswerTypes, RegisterFacts DEF TypeOK
    <2> QED
      BY <1>8, <2>4 DEF HandlePull, TypeOK, deviceVars, relayVars
  <1>9. ASSUME RelayRestarts PROVE TypeOK'
    <2>1. PICK file \in FilesFound :
            /\ srv' = OpenStore(file, nextEpoch)
            /\ disk' = OpenStore(file, nextEpoch)
            /\ nextEpoch' = IF OpenStore(file, nextEpoch) = file
                            THEN nextEpoch ELSE nextEpoch + 1
      BY <1>9 DEF RelayRestarts
    <2>2. file \in File
      BY NoFileType DEF FilesFound, TypeOK
    <2>3. srv' \in File /\ disk' \in File /\ nextEpoch' \in Nat
      BY <2>1, <2>2, OpenStoreType DEF TypeOK
    <2> QED
      BY <1>9, <2>3 DEF RelayRestarts, TypeOK, deviceVars
  <1>10. ASSUME UNCHANGED vars PROVE TypeOK'
    BY <1>10 DEF TypeOK, vars, deviceVars, relayVars
  <1> QED
    BY <1>1, <1>2, <1>3, <1>4, <1>5, <1>6, <1>7, <1>8, <1>9, <1>10 DEF Next

(* Registers, versions, generations, calls and files keep their types, for *)
(* any set of devices and shots and with every fault.                      *)
THEOREM TypeCorrect == Spec => []TypeOK
  BY InitType, TypeStep, PTL DEF Spec

-----------------------------------------------------------------------------
(* What the two writers do to registers: a push at the relay, a merge at a *)
(* device.                                                                 *)

(* store.push: a row either stays as it is, or the batch's row beat it and *)
(* got a version above the store's old one.                                *)
LEMMA PushEffect ==
  ASSUME TypeOK, NEW batch \in Batch, Push(batch)
  PROVE  /\ srv'.epoch = srv.epoch /\ nextEpoch' = nextEpoch
         /\ srv'.version >= srv.version
         /\ srv.high = srv.version => srv'.high = srv'.version
         /\ \A k \in Keys :
              \/ srv'.rows[k] = srv.rows[k] /\ srv'.vers[k] = srv.vers[k]
              \/ /\ Has(batch, k) /\ RecordWins(batch[k], srv.rows[k])
                 /\ srv'.rows[k] = batch[k]
                 /\ srv'.vers[k] > srv.version /\ srv'.vers[k] <= srv'.version
         /\ \A k \in Keys : Has(batch, k) => Has(srv'.rows, k)
         /\ disk' \in {disk, srv'} /\ copy' \in {copy, disk, srv'}
         /\ disk = srv /\ srv.high = srv.version /\ "saveFail" \notin Faults
              => disk' = srv'
  <1>0. PICK n \in 0 .. Cardinality(Keys) :
          \E f \in Numberings(Accepted(srv, batch), n) :
            /\ srv' = Pushed(srv, batch, f, n)
            /\ IF Accepted(srv, batch) # {} THEN Save(srv') ELSE UNCHANGED <<disk, copy>>
            /\ UNCHANGED nextEpoch
    BY DEF Push
  <1>1. PICK f \in Numberings(Accepted(srv, batch), n) :
            /\ srv' = Pushed(srv, batch, f, n)
            /\ IF Accepted(srv, batch) # {} THEN Save(srv') ELSE UNCHANGED <<disk, copy>>
            /\ UNCHANGED nextEpoch
    BY <1>0
  <1>2. n \in Nat
    BY CountIsNat
  <1>3. f \in [Accepted(srv, batch) -> 1 .. n]
    BY DEF Numberings
  <1>4. srv \in File /\ batch \in [Keys -> Register]
    BY DEF TypeOK, Batch
  <1>5. /\ srv.epoch \in Nat /\ srv.version \in Nat /\ srv.high \in Nat
        /\ srv.rows \in [Keys -> Register] /\ srv.vers \in [Keys -> Nat]
        /\ srv = [epoch |-> srv.epoch, high |-> srv.high, version |-> srv.version,
                  rows |-> srv.rows, vers |-> srv.vers]
    BY <1>4 DEF File
  <1>6. /\ srv'.epoch = srv.epoch
        /\ srv'.version = srv.version + n
        /\ srv'.high = IF srv.version + n > srv.high THEN srv.version + n ELSE srv.high
        /\ srv'.rows = [k \in Keys |-> IF k \in DOMAIN f THEN batch[k] ELSE srv.rows[k]]
        /\ srv'.vers = [k \in Keys |-> IF k \in DOMAIN f THEN srv.version + f[k]
                                       ELSE srv.vers[k]]
    BY <1>1, <1>5 DEF Pushed
  <1>7. \A k \in Keys :
              \/ srv'.rows[k] = srv.rows[k] /\ srv'.vers[k] = srv.vers[k]
              \/ /\ Has(batch, k) /\ RecordWins(batch[k], srv.rows[k])
                 /\ srv'.rows[k] = batch[k]
                 /\ srv'.vers[k] > srv.version /\ srv'.vers[k] <= srv'.version
    <2> TAKE k \in Keys
    <2>1. CASE k \in DOMAIN f
      <3>1. k \in Accepted(srv, batch) /\ f[k] \in 1 .. n
        BY <2>1, <1>3
      <3> QED
        BY <3>1, <2>1, <1>2, <1>5, <1>6 DEF Accepted
    <2>2. CASE k \notin DOMAIN f
      BY <2>2, <1>6
    <2> QED
      BY <2>1, <2>2
  <1>8. \A k \in Keys : Has(batch, k) => Has(srv'.rows, k)
    <2> SUFFICES ASSUME NEW k \in Keys, Has(batch, k) PROVE Has(srv'.rows, k)
      OBVIOUS
    <2>1. k \in DOMAIN f => srv'.rows[k] = batch[k]
      BY <1>6
    <2>2. k \notin DOMAIN f => srv'.rows[k] = srv.rows[k] /\ ~RecordWins(batch[k], srv.rows[k])
      BY <1>6, <1>3 DEF Accepted
    <2> QED
      BY <2>1, <2>2 DEF Has, RecordWins, Wins
  <1>9. disk' \in {disk, srv'} /\ copy' \in {copy, disk, srv'}
    BY <1>1 DEF Save
  <1>10. ASSUME disk = srv, srv.high = srv.version, "saveFail" \notin Faults
         PROVE  disk' = srv'
    <2>1. CASE Accepted(srv, batch) # {}
      BY <2>1, <1>1, <1>10 DEF Save
    <2>2. CASE Accepted(srv, batch) = {}
      <3>1. n = 0
        BY <2>2, <1>2 DEF Numberings
      <3>2. DOMAIN f = {}
        BY <2>2, <1>3
      <3>3. srv'.rows = srv.rows /\ srv'.vers = srv.vers
        BY <3>2, <1>5, <1>6
      <3>4. srv'.version = srv.version /\ srv'.high = srv.high /\ srv'.epoch = srv.epoch
        BY <3>1, <1>5, <1>6, <1>10
      <3>5. srv' = [epoch |-> srv'.epoch, high |-> srv'.high, version |-> srv'.version,
                    rows |-> srv'.rows, vers |-> srv'.vers]
        BY <1>1, <1>2, <1>4, PushedType DEF File, Batch
      <3> QED
        BY <3>3, <3>4, <3>5, <1>5, <1>1, <2>2, <1>10
    <2> QED
      BY <2>1, <2>2
  <1> QED
    BY <1>1, <1>2, <1>5, <1>6, <1>7, <1>8, <1>9, <1>10

(* Session.AckPush and ApplyRemote: a register either stays as it is, or a *)
(* row beat it and brought its version.                                    *)
LEMMA AdoptEffect ==
  ASSUME TypeOK, NEW d \in Dev, NEW rows, NEW vers, NEW also,
         Adopt(d, rows, vers, also)
  PROVE  /\ \A e \in Dev : e # d => records'[e] = records[e] /\ sv'[e] = sv[e]
         /\ \A k \in Keys :
              \/ /\ Has(rows, k) /\ RecordWins(rows[k], records[d][k])
                 /\ records'[d][k] = rows[k] /\ sv'[d][k] = vers[k]
              \/ /\ ~(Has(rows, k) /\ RecordWins(rows[k], records[d][k]))
                 /\ records'[d][k] = records[d][k]
                 /\ k \in also /\ sv'[d][k] = vers[k]
              \/ /\ ~(Has(rows, k) /\ RecordWins(rows[k], records[d][k]))
                 /\ records'[d][k] = records[d][k]
                 /\ k \notin also /\ sv'[d][k] = sv[d][k]
  <1> DEFINE won == Beaten(records[d], rows)
             newRegs == [k \in Keys |-> IF k \in won THEN rows[k] ELSE records[d][k]]
             newAcks == [k \in Keys |-> IF k \in won \union also THEN vers[k] ELSE sv[d][k]]
  <1>1. records' = [records EXCEPT ![d] = newRegs] /\ sv' = [sv EXCEPT ![d] = newAcks]
    BY DEF Adopt
  <1>2. \A k \in Keys : k \in won <=> Has(rows, k) /\ RecordWins(rows[k], records[d][k])
    BY DEF Beaten
  <1>3. records'[d] = newRegs /\ sv'[d] = newAcks
    BY <1>1 DEF TypeOK
  <1>4. \A e \in Dev : e # d => records'[e] = records[e] /\ sv'[e] = sv[e]
    BY <1>1 DEF TypeOK
  <1> HIDE DEF won
  <1> QED
    BY <1>2, <1>3, <1>4

-----------------------------------------------------------------------------
(* Registers come from somewhere, and stamps are not shared (any faults).  *)

WellFormed == TypeOK /\ OnlyWritten

LEMMA InitWritten == Init => OnlyWritten
  <1> SUFFICES ASSUME Init, NEW k \in Keys
      PROVE  /\ \A d \in Dev : /\ records[d][k] \in written[k] \union {NoRecord}
                               /\ call[d].rows[k] \in written[k] \union {NoRecord}
             /\ \A batch \in stray : batch[k] \in written[k] \union {NoRecord}
             /\ srv.rows[k] \in written[k] \union {NoRecord}
             /\ disk.rows[k] \in written[k] \union {NoRecord}
             /\ copy.rows[k] \in written[k] \union {NoRecord}
             /\ \A a, b \in written[k] : a.hlc = b.hlc => a = b
    BY DEF OnlyWritten
  <1>1. written[k] = {records[d][k] : d \in Dev} \ {NoRecord}
    BY DEF Init
  <1>2. srv.rows[k] = NoRecord
    BY DEF Init, OpenStore, NoFile, EmptyBatch
  <1>3. \A d \in Dev : call[d].rows[k] = NoRecord
    BY DEF Init, Idle, EmptyBatch
  <1>4. \A d \in Dev : records[d][k] = NoRecord \/ records[d][k].hlc.dev = d
    BY DEF Init
  <1>5. \A a, b \in written[k] : a.hlc = b.hlc => a = b
    <2> SUFFICES ASSUME NEW a \in written[k], NEW b \in written[k], a.hlc = b.hlc
                 PROVE  a = b
      OBVIOUS
    <2>1. PICK d \in Dev : a = records[d][k] /\ a # NoRecord
      BY <1>1
    <2>2. PICK e \in Dev : b = records[e][k] /\ b # NoRecord
      BY <1>1
    <2> QED
      BY <2>1, <2>2, <1>4
  <1> QED
    BY <1>1, <1>2, <1>3, <1>5 DEF Init

LEMMA PushWritten ==
  ASSUME WellFormed, NEW batch \in Batch, Push(batch), NEW k \in Keys,
         batch[k] \in written[k] \union {NoRecord}
  PROVE  /\ srv'.rows[k] \in written[k] \union {NoRecord}
         /\ disk'.rows[k] \in written[k] \union {NoRecord}
         /\ copy'.rows[k] \in written[k] \union {NoRecord}
  <1>1. srv'.rows[k] \in {srv.rows[k], batch[k]}
    BY PushEffect DEF WellFormed
  <1>2. disk' \in {disk, srv'} /\ copy' \in {copy, disk, srv'}
    BY PushEffect DEF WellFormed
  <1> QED
    BY <1>1, <1>2 DEF WellFormed, OnlyWritten

LEMMA AdoptWritten ==
  ASSUME WellFormed, NEW d \in Dev, NEW vers, NEW also,
         Adopt(d, call[d].rows, vers, also), NEW k \in Keys, NEW e \in Dev
  PROVE  records'[e][k] \in written[k] \union {NoRecord}
  <1>1. e # d => records'[e] = records[e]
    BY AdoptEffect DEF WellFormed
  <1>2. records'[d][k] \in {records[d][k], call[d].rows[k]}
    BY AdoptEffect DEF WellFormed
  <1> QED
    BY <1>1, <1>2 DEF WellFormed, OnlyWritten

LEMMA WrittenStep == WellFormed /\ [Next]_vars => OnlyWritten'
  <1> SUFFICES ASSUME WellFormed, [Next]_vars, NEW k \in Keys
      PROVE  /\ \A d \in Dev : /\ records'[d][k] \in written'[k] \union {NoRecord}
                               /\ call'[d].rows[k] \in written'[k] \union {NoRecord}
             /\ \A batch \in stray' : batch[k] \in written'[k] \union {NoRecord}
             /\ srv'.rows[k] \in written'[k] \union {NoRecord}
             /\ disk'.rows[k] \in written'[k] \union {NoRecord}
             /\ copy'.rows[k] \in written'[k] \union {NoRecord}
             /\ \A a, b \in written'[k] : a.hlc = b.hlc => a = b
    BY DEF OnlyWritten
  <1> DEFINE Goal == /\ \A d \in Dev : /\ records'[d][k] \in written'[k] \union {NoRecord}
                                       /\ call'[d].rows[k] \in written'[k] \union {NoRecord}
                     /\ \A batch \in stray' : batch[k] \in written'[k] \union {NoRecord}
                     /\ srv'.rows[k] \in written'[k] \union {NoRecord}
                     /\ disk'.rows[k] \in written'[k] \union {NoRecord}
                     /\ copy'.rows[k] \in written'[k] \union {NoRecord}
                     /\ \A a, b \in written'[k] : a.hlc = b.hlc => a = b
             W == written[k] \union {NoRecord}
  <1>0. /\ \A d \in Dev : records[d][k] \in W /\ call[d].rows[k] \in W
        /\ \A batch \in stray : batch[k] \in W
        /\ srv.rows[k] \in W /\ disk.rows[k] \in W /\ copy.rows[k] \in W
        /\ \A a, b \in written[k] : a.hlc = b.hlc => a = b
    BY DEF WellFormed, OnlyWritten
  <1>1. ASSUME NEW d \in Dev, NEW m \in Keys, SetDecision(d, m) PROVE Goal
    <2>1. PICK r : /\ \A w \in written[m] : w.hlc # r.hlc
                   /\ records' = [records EXCEPT ![d][m] = r]
                   /\ written' = [written EXCEPT ![m] = @ \union {r}]
      <3>1. PICK v \in Values, h \in Stamp(d) :
               LET q == [val |-> v, hlc |-> h, mig |-> FALSE]
               IN  /\ \A w \in written[m] : w.hlc # h
                   /\ records' = [records EXCEPT ![d][m] = q]
                   /\ written' = [written EXCEPT ![m] = @ \union {q}]
        BY <1>1 DEF SetDecision
      <3> WITNESS [val |-> v, hlc |-> h, mig |-> FALSE]
      <3> QED
        BY <3>1
    <2>2. written[k] \subseteq written'[k] /\ (m = k => r \in written'[k])
      BY <2>1 DEF WellFormed, TypeOK
    <2>3. \A e \in Dev : records'[e][k] = IF e = d /\ m = k THEN r ELSE records[e][k]
      BY <2>1 DEF WellFormed, TypeOK
    <2>4. \A a, b \in written'[k] : a.hlc = b.hlc => a = b
      <3>1. CASE m = k
        <4>1. written'[k] = written[k] \union {r}
          BY <3>1, <2>1 DEF WellFormed, TypeOK
        <4> QED
          BY <4>1, <3>1, <2>1, <1>0
      <3>2. CASE m # k
        BY <3>2, <2>1, <1>0 DEF WellFormed, TypeOK
      <3> QED
        BY <3>1, <3>2
    <2>5. call' = call /\ stray' = stray /\ srv' = srv /\ disk' = disk /\ copy' = copy
      BY <1>1 DEF SetDecision, relayVars
    <2> QED
      BY <1>0, <2>2, <2>3, <2>4, <2>5
  <1>2. ASSUME NEW d \in Dev, StartSync(d) PROVE Goal
    <2>1. /\ Dirty(records[d], sv[d])[k] \in W
          /\ PushCall(Dirty(records[d], sv[d])).rows = Dirty(records[d], sv[d])
          /\ PullCall(serverVer[d]).rows[k] = NoRecord
      BY <1>0 DEF Dirty, PushCall, PullCall, Idle, EmptyBatch
    <2>2. \A e \in Dev : call'[e].rows[k] \in W
      BY <1>0, <1>2, <2>1 DEF StartSync, WellFormed, TypeOK
    <2> QED
      BY <1>0, <1>2, <2>2 DEF StartSync, deviceVars, relayVars
  <1>3. ASSUME NEW d \in Dev, PushReturns(d) PROVE Goal
    <2>1. \A e \in Dev : records'[e][k] \in W
      <3>1. CASE Mismatch(d, call[d])
        BY <1>0, <1>3, <3>1 DEF PushReturns, ResetForEpoch
      <3>2. CASE ~Mismatch(d, call[d])
        BY <1>3, <3>2, AdoptWritten DEF PushReturns, AckPush
      <3> QED
        BY <3>1, <3>2
    <2>2. Idle.rows[k] = NoRecord /\ PullCall(serverVer[d]).rows[k] = NoRecord
      BY DEF PullCall, Idle, EmptyBatch
    <2>3. \A e \in Dev : call'[e].rows[k] \in W
      BY <1>0, <1>3, <2>2 DEF PushReturns, WellFormed, TypeOK
    <2> QED
      BY <1>0, <1>3, <2>1, <2>3 DEF PushReturns, relayVars
  <1>4. ASSUME NEW d \in Dev, PullReturns(d) PROVE Goal
    <2>1. \A e \in Dev : records'[e][k] \in W
      <3>1. CASE Mismatch(d, call[d]) \/ call[d].high < serverVer[d]
        BY <1>0, <1>4, <3>1 DEF PullReturns, ResetForEpoch
      <3>2. CASE ~(Mismatch(d, call[d]) \/ call[d].high < serverVer[d])
        BY <1>4, <3>2, AdoptWritten DEF PullReturns, ApplyRemote
      <3> QED
        BY <3>1, <3>2
    <2>2. Idle.rows[k] = NoRecord
      BY DEF Idle, EmptyBatch
    <2>3. \A e \in Dev : call'[e].rows[k] \in W
      BY <1>0, <1>4, <2>2 DEF PullReturns, WellFormed, TypeOK
    <2> QED
      BY <1>0, <1>4, <2>1, <2>3 DEF PullReturns, relayVars
  <1>5. ASSUME NEW d \in Dev, GiveUp(d) PROVE Goal
    <2>1. Idle.rows[k] = NoRecord
      BY DEF Idle, EmptyBatch
    <2>2. \A e \in Dev : call'[e].rows[k] \in W
      BY <1>0, <1>5, <2>1 DEF GiveUp, WellFormed, TypeOK
    <2>3. stray' \subseteq stray \union {call[d].rows}
      BY <1>5 DEF GiveUp
    <2> QED
      BY <1>0, <1>5, <2>2, <2>3 DEF GiveUp, deviceVars, relayVars
  <1>6. ASSUME NEW d \in Dev, HandlePush(d) PROVE Goal
    <2>1. call[d].rows \in Batch /\ Push(call[d].rows)
      BY <1>6 DEF HandlePush, WellFormed, TypeOK, Message, Batch
    <2>2. srv'.rows[k] \in W /\ disk'.rows[k] \in W /\ copy'.rows[k] \in W
      BY <2>1, <1>0, PushWritten
    <2>3. PushAnswer(srv', call[d].rows).rows[k] \in W
      BY <2>2 DEF PushAnswer, Idle
    <2>4. \A e \in Dev : call'[e].rows[k] \in W
      BY <1>0, <1>6, <2>3 DEF HandlePush, WellFormed, TypeOK
    <2> QED
      BY <1>0, <1>6, <2>2, <2>4 DEF HandlePush, deviceVars
  <1>7. ASSUME NEW batch \in stray, HandleStray(batch) PROVE Goal
    <2>1. batch \in Batch /\ Push(batch)
      BY <1>7 DEF HandleStray, WellFormed, TypeOK, Batch
    <2>2. srv'.rows[k] \in W /\ disk'.rows[k] \in W /\ copy'.rows[k] \in W
      BY <2>1, <1>0, PushWritten
    <2> QED
      BY <1>0, <1>7, <2>2 DEF HandleStray, deviceVars
  <1>8. ASSUME NEW d \in Dev, HandlePull(d) PROVE Goal
    <2>1. PICK high : call' = [call EXCEPT ![d] = PullAnswer(srv, call[d].high, high)]
      BY <1>8 DEF HandlePull
    <2>2. PullAnswer(srv, call[d].high, high).rows[k] \in W
      BY <1>0 DEF PullAnswer, Idle
    <2>3. \A e \in Dev : call'[e].rows[k] \in W
      BY <1>0, <2>1, <2>2 DEF WellFormed, TypeOK
    <2> QED
      BY <1>0, <1>8, <2>3 DEF HandlePull, deviceVars, relayVars
  <1>9. ASSUME RelayRestarts PROVE Goal
    <2>1. PICK file \in FilesFound :
            srv' = OpenStore(file, nextEpoch) /\ disk' = OpenStore(file, nextEpoch)
      BY <1>9 DEF RelayRestarts
    <2>2. file \in {disk, copy, NoFile} /\ file \in File
      BY <2>1, NoFileType DEF FilesFound, WellFormed, TypeOK
    <2>3. OpenStore(file, nextEpoch).rows = file.rows
      BY <2>2 DEF OpenStore, File
    <2>4. NoFile.rows[k] = NoRecord
      BY DEF NoFile, EmptyBatch
    <2>5. srv'.rows[k] \in W /\ disk'.rows[k] \in W
      BY <2>1, <2>2, <2>3, <2>4, <1>0
    <2> QED
      BY <1>0, <1>9, <2>5 DEF RelayRestarts, deviceVars
  <1>10. ASSUME UNCHANGED vars PROVE Goal
    BY <1>0, <1>10 DEF vars, deviceVars, relayVars
  <1> QED
    BY <1>1, <1>2, <1>3, <1>4, <1>5, <1>6, <1>7, <1>8, <1>9, <1>10 DEF Next

-----------------------------------------------------------------------------
(* No decision is lost.                                                    *)

LEMMA Regs ==
  ASSUME TypeOK
  PROVE  /\ \A d \in Dev, k \in Keys : IsReg(records[d][k]) /\ IsReg(call[d].rows[k])
         /\ \A k \in Keys : IsReg(srv.rows[k])
         /\ \A k \in Keys : \A w \in written[k] : IsReg(w) /\ w # NoRecord
  <1>1. \A d \in Dev : call[d].rows \in Batch
    BY DEF TypeOK, Message, Batch
  <1>2. srv.rows \in Batch
    BY DEF TypeOK, File, Batch
  <1>3. \A k \in Keys : written[k] \subseteq Record
    BY DEF TypeOK
  <1> QED
    BY <1>1, <1>2, <1>3, RegisterIsReg, RegisterFacts DEF TypeOK, Batch, Register

(* A device's registers only ever grow in the merge order.                 *)
Grows(d, k) == records[d][k] # NoRecord => Covers(records'[d][k], records[d][k])

LEMMA AdoptGrows ==
  ASSUME TypeOK, NEW d \in Dev, NEW rows, NEW vers, NEW also,
         Adopt(d, rows, vers, also), NEW e \in Dev, NEW k \in Keys
  PROVE  Grows(e, k)
  <1>1. e # d => records'[e] = records[e]
    BY AdoptEffect
  <1>2. \/ records'[d][k] = records[d][k]
        \/ Has(rows, k) /\ RecordWins(rows[k], records[d][k]) /\ records'[d][k] = rows[k]
    BY AdoptEffect
  <1> QED
    BY <1>1, <1>2 DEF Grows, Covers, Has

LEMMA RegistersGrow ==
  ASSUME TypeOK, [Next]_vars, "clock" \notin Faults, NEW e \in Dev, NEW k \in Keys
  PROVE  Grows(e, k)
  <1>1. CASE records' = records
    BY <1>1 DEF Grows, Covers
  <1>2. ASSUME NEW d \in Dev, NEW m \in Keys, SetDecision(d, m) PROVE Grows(e, k)
    <2>1. PICK r : records' = [records EXCEPT ![d][m] = r] /\ RecordWins(r, records[d][m])
                   /\ r # NoRecord
      BY <1>2, ValueAssumption DEF SetDecision, NoRecord
    <2> QED
      BY <2>1 DEF Grows, Covers, TypeOK
  <1>3. ASSUME NEW d \in Dev, PushReturns(d) PROVE Grows(e, k)
    <2>1. CASE Mismatch(d, call[d])
      BY <1>3, <2>1, <1>1 DEF PushReturns, ResetForEpoch
    <2>2. CASE ~Mismatch(d, call[d])
      BY <1>3, <2>2, AdoptGrows DEF PushReturns, AckPush
    <2> QED
      BY <2>1, <2>2
  <1>4. ASSUME NEW d \in Dev, PullReturns(d) PROVE Grows(e, k)
    <2>1. CASE Mismatch(d, call[d]) \/ call[d].high < serverVer[d]
      BY <1>4, <2>1, <1>1 DEF PullReturns, ResetForEpoch
    <2>2. CASE ~(Mismatch(d, call[d]) \/ call[d].high < serverVer[d])
      BY <1>4, <2>2, AdoptGrows DEF PullReturns, ApplyRemote
    <2> QED
      BY <2>1, <2>2
  <1> QED
    BY <1>1, <1>2, <1>3, <1>4
    DEF Next, StartSync, GiveUp, HandlePush, HandleStray, HandlePull, RelayRestarts,
        vars, deviceVars

LEMMA WrittenGrows ==
  ASSUME TypeOK, [Next]_vars, NEW k \in Keys, NEW w \in written'[k]
  PROVE  w \in written[k] \/ \E d \in Dev : records'[d][k] = w
  <1>1. CASE written' = written
    BY <1>1
  <1>2. ASSUME NEW d \in Dev, NEW m \in Keys, SetDecision(d, m)
        PROVE  w \in written[k] \/ records'[d][k] = w
    <2>1. PICK r : /\ records' = [records EXCEPT ![d][m] = r]
                   /\ written' = [written EXCEPT ![m] = @ \union {r}]
      BY <1>2 DEF SetDecision
    <2>2. records'[d][m] = r
      BY <2>1 DEF TypeOK
    <2>3. written'[k] = IF m = k THEN written[k] \union {r} ELSE written[k]
      BY <2>1 DEF TypeOK
    <2> QED
      BY <2>2, <2>3
  <1> QED
    BY <1>1, <1>2
    DEF Next, StartSync, PushReturns, PullReturns, GiveUp, HandlePush, HandleStray,
        HandlePull, RelayRestarts, vars

LEMMA DecisionStep ==
  ASSUME WellFormed, WellFormed', [Next]_vars, "clock" \notin Faults, NoDecisionLost
  PROVE  NoDecisionLost'
  <1> SUFFICES ASSUME NEW k \in Keys, NEW w \in written'[k]
               PROVE  \E d \in Dev : Covers(records'[d][k], w)
    BY DEF NoDecisionLost
  <1>0. IsReg(w) /\ w # NoRecord
    <2>1. w \in Record
      BY DEF WellFormed, TypeOK
    <2> QED
      BY <2>1, RegisterFacts, RegisterIsReg DEF Register
  <1>1. CASE w \in written[k]
    <2>1. PICK d \in Dev : Covers(records[d][k], w)
      BY <1>1 DEF NoDecisionLost
    <2>2. Covers(records'[d][k], records[d][k])
      BY <2>1, RegistersGrow DEF Grows, Covers, WellFormed
    <2>3. IsReg(records[d][k]) /\ IsReg(records'[d][k])
      BY RegisterIsReg DEF WellFormed, TypeOK
    <2>4. Covers(records'[d][k], w)
      BY <2>1, <2>2, <2>3, <1>0, CoversTransitive
    <2> QED
      BY <2>4
  <1>2. CASE w \notin written[k]
    BY <1>2, <1>0, WrittenGrows DEF WellFormed, Covers
  <1> QED
    BY <1>1, <1>2

LEMMA InitDecisions == Init => NoDecisionLost
  BY DEF Init, NoDecisionLost, Covers

(* As long as an edit's stamp sorts above the register it replaces, every  *)
(* decision ever made stays on a device, itself or a winner over it - for  *)
(* any devices and shots, and whatever the relay and the network do: files *)
(* lost, restored or not saved, answers late, lost or of an old generation.*)
THEOREM DecisionsOutliveTheRelay ==
  ASSUME "clock" \notin Faults
  PROVE  Spec => []NoDecisionLost
  <1>1. Init => WellFormed /\ NoDecisionLost
    BY InitType, InitWritten, InitDecisions DEF WellFormed
  <1>2. WellFormed /\ NoDecisionLost /\ [Next]_vars => (WellFormed /\ NoDecisionLost)'
    BY TypeStep, WrittenStep, DecisionStep DEF WellFormed
  <1> QED
    BY <1>1, <1>2, PTL DEF Spec

-----------------------------------------------------------------------------
(* The protocol invariant, step by step.  Part is SyncInv without what is  *)
(* proved above.                                                           *)

Part == StoreNumbered /\ NotAhead /\ Answers /\ AckedCovered /\ NothingSkipped

LEMMA Numbers ==
  ASSUME TypeOK
  PROVE  /\ \A d \in Dev : /\ epoch[d] \in Nat /\ serverVer[d] \in Nat
                           /\ call[d].epoch \in Nat /\ call[d].high \in Nat
                           /\ call[d].rows \in Batch /\ call[d].vers \in [Keys -> Nat]
         /\ srv.epoch \in Nat /\ srv.version \in Nat /\ srv.high \in Nat
         /\ \A k \in Keys : srv.vers[k] \in Nat
         /\ \A d \in Dev, k \in Keys : sv[d][k] \in Nat
  <1>1. \A d \in Dev : call[d] \in Message
    BY DEF TypeOK
  <1> QED
    BY <1>1 DEF TypeOK, Message, File, Batch

LEMMA PartInit == Init => Part
  <1> SUFFICES ASSUME Init PROVE Part
    OBVIOUS
  <1>1. /\ srv.epoch = 1 /\ srv.high = 0 /\ srv.version = 0
        /\ \A k \in Keys : srv.vers[k] = 0 /\ srv.rows[k] = NoRecord
    BY DEF Init, OpenStore, NoFile, EmptyBatch, NoVersions
  <1>2. \A d \in Dev : /\ epoch[d] = 0 /\ serverVer[d] = 0
                       /\ call[d].kind = "idle" /\ call[d].epoch = 0
                       /\ \A k \in Keys : sv[d][k] = 0
    BY DEF Init, Idle
  <1>3. StoreNumbered
    BY <1>1 DEF Init, StoreNumbered, Has
  <1>4. NotAhead
    BY <1>1, <1>2 DEF NotAhead
  <1>5. Answers
    BY <1>1, <1>2 DEF Answers
  <1> QED
    BY <1>1, <1>2, <1>3, <1>4, <1>5 DEF Part, AckedCovered, NothingSkipped, Has

LEMMA PartEdit ==
  ASSUME TypeOK, Part, NEW d \in Dev, NEW m \in Keys, SetDecision(d, m)
  PROVE  Part'
  <1>1. /\ UNCHANGED <<serverVer, epoch, call, stray, srv, disk, copy, nextEpoch>>
        /\ sv' = [sv EXCEPT ![d][m] = 0]
    BY DEF SetDecision, relayVars
  <1>0. PICK r : records' = [records EXCEPT ![d][m] = r] /\ r # NoRecord
    <2>1. PICK v \in Values, h \in Stamp(d) :
            records' = [records EXCEPT ![d][m] = [val |-> v, hlc |-> h, mig |-> FALSE]]
      BY DEF SetDecision
    <2>2. [val |-> v, hlc |-> h, mig |-> FALSE] # NoRecord
      BY ValueAssumption DEF NoRecord
    <2> QED
      BY <2>1, <2>2
  <1>2. \A e \in Dev, k \in Keys :
          \/ records'[e][k] = records[e][k] /\ sv'[e][k] = sv[e][k]
          \/ records'[e][k] # NoRecord /\ sv'[e][k] = 0
    BY <1>0, <1>1 DEF TypeOK
  <1>3. StoreNumbered' /\ NotAhead' /\ Answers'
    BY <1>1 DEF Part, StoreNumbered, NotAhead, Answers, Current, AnswerCovered,
                AnswerComplete
  <1>4. AckedCovered'
    BY <1>1, <1>2 DEF Part, AckedCovered
  <1>5. NothingSkipped'
    BY <1>1, <1>2 DEF Part, NothingSkipped
  <1> QED
    BY <1>3, <1>4, <1>5 DEF Part

(* A call that carries no answer asks nothing of the invariant, except that *)
(* a pull names the device's own high-water.                               *)
LEMMA PartCall ==
  ASSUME TypeOK, Part, NEW d \in Dev, NEW c,
         UNCHANGED <<deviceVars, relayVars>>,
         call' = [call EXCEPT ![d] = c],
         c.kind \in {"idle", "push", "pull"}, c.epoch = 0,
         c.kind = "pull" => c.high = serverVer[d]
  PROVE  Part'
  <1>1. \A e \in Dev : call'[e] = IF e = d THEN c ELSE call[e]
    BY DEF TypeOK
  <1>2. StoreNumbered' /\ AckedCovered' /\ NothingSkipped'
    BY DEF Part, StoreNumbered, AckedCovered, NothingSkipped, deviceVars, relayVars
  <1>3. NotAhead'
    BY <1>1, Numbers DEF Part, NotAhead, deviceVars, relayVars
  <1>4. Answers'
    BY <1>1 DEF Part, Answers, Current, AnswerCovered, AnswerComplete, deviceVars, relayVars
  <1> QED
    BY <1>2, <1>3, <1>4 DEF Part

LEMMA CallShapes ==
  /\ Idle.kind = "idle" /\ Idle.epoch = 0
  /\ \A b : PushCall(b).kind = "push" /\ PushCall(b).epoch = 0
  /\ \A n : PullCall(n).kind = "pull" /\ PullCall(n).epoch = 0 /\ PullCall(n).high = n
  BY DEF Idle, PushCall, PullCall

(* The device forgets what it knew of an old generation.                   *)
LEMMA PartReset ==
  ASSUME TypeOK, Part, NEW d \in Dev, ResetForEpoch(d, call[d].epoch),
         call[d].kind \in {"pushed", "pulled"},
         call' = [call EXCEPT ![d] = Idle], UNCHANGED relayVars
  PROVE  Part'
  <1>1. /\ \A e \in Dev : call'[e] = IF e = d THEN Idle ELSE call[e]
        /\ \A e \in Dev : epoch'[e] = IF e = d THEN call[d].epoch ELSE epoch[e]
        /\ \A e \in Dev : serverVer'[e] = IF e = d THEN 0 ELSE serverVer[e]
        /\ \A e \in Dev, k \in Keys : sv'[e][k] = IF e = d THEN 0 ELSE sv[e][k]
        /\ records' = records
    BY DEF ResetForEpoch, TypeOK
  <1>2. srv' = srv /\ disk' = disk /\ nextEpoch' = nextEpoch
    BY DEF relayVars
  <1>3. StoreNumbered'
    BY <1>2 DEF Part, StoreNumbered
  <1>4. NotAhead'
    BY <1>1, <1>2, CallShapes, Numbers DEF Part, NotAhead
  <1>5. Answers'
    BY <1>1, <1>2, CallShapes
    DEF Part, Answers, Current, AnswerCovered, AnswerComplete
  <1>6. AckedCovered'
    BY <1>1, <1>2 DEF Part, AckedCovered
  <1>7. NothingSkipped'
    BY <1>1, <1>2, Numbers DEF Part, NothingSkipped, StoreNumbered
  <1> QED
    BY <1>3, <1>4, <1>5, <1>6, <1>7 DEF Part

LEMMA PartAck ==
  ASSUME WellFormed, Part, NEW d \in Dev, call[d].kind = "pushed",
         ~Mismatch(d, call[d]), AckPush(d, call[d]),
         call' = [call EXCEPT ![d] = PullCall(serverVer[d])], UNCHANGED relayVars
  PROVE  Part'
  <1> DEFINE rows == call[d].rows
             also == {k \in Keys : /\ Has(rows, k)
                                   /\ records[d][k] # NoRecord
                                   /\ records[d][k].hlc = rows[k].hlc
                                   /\ sv[d][k] = 0}
  <1> USE DEF WellFormed
  <1>1. /\ \A e \in Dev : call'[e] = IF e = d THEN PullCall(serverVer[d]) ELSE call[e]
        /\ epoch' = epoch /\ serverVer' = serverVer
        /\ srv' = srv /\ disk' = disk /\ nextEpoch' = nextEpoch
    BY DEF AckPush, relayVars, TypeOK
  <1>2. Adopt(d, rows, call[d].vers, also)
    BY DEF AckPush
  <1>3. /\ \A e \in Dev : e # d => records'[e] = records[e] /\ sv'[e] = sv[e]
        /\ \A k \in Keys :
              \/ Has(rows, k) /\ records'[d][k] = rows[k]
              \/ records'[d][k] = records[d][k] /\ sv'[d][k] = sv[d][k]
    <2>1. \A k \in also : records[d][k] = rows[k]
      BY DEF OnlyWritten, Has
    <2> QED
      BY <1>2, <2>1, AdoptEffect
  <1>4. epoch[d] \in {0, srv.epoch} => Current(d)
    BY Numbers DEF Part, NotAhead, Current, Mismatch
  <1>5. epoch[d] \in {0, srv.epoch} => AnswerCovered(d)
    BY <1>4 DEF Part, Answers
  <1>6. StoreNumbered' /\ NotAhead'
    BY <1>1, CallShapes, Numbers DEF Part, StoreNumbered, NotAhead
  <1>7. Answers'
    BY <1>1, CallShapes DEF Part, Answers, Current, AnswerCovered, AnswerComplete
  <1>8. AckedCovered'
    <2> SUFFICES ASSUME NEW e \in Dev, NEW k \in Keys, sv'[e][k] # 0,
                        epoch[e] \in {0, srv.epoch}
                 PROVE  Covers(srv.rows[k], records'[e][k])
      BY <1>1 DEF AckedCovered
    <2>1. CASE records'[e][k] = records[e][k] /\ sv'[e][k] = sv[e][k]
      BY <2>1 DEF Part, AckedCovered
    <2>2. CASE e = d /\ Has(rows, k) /\ records'[d][k] = rows[k]
      BY <2>2, <1>5 DEF AnswerCovered
    <2> QED
      BY <1>3, <2>1, <2>2
  <1>9. NothingSkipped'
    <2> SUFFICES ASSUME NEW e \in Dev, NEW k \in Keys, epoch[e] = srv.epoch,
                        Has(srv.rows, k), srv.vers[k] <= serverVer[e]
                 PROVE  /\ records'[e][k] # NoRecord
                        /\ sv'[e][k] = 0 \/ Covers(records'[e][k], srv.rows[k])
      BY <1>1 DEF NothingSkipped
    <2>1. CASE records'[e][k] = records[e][k] /\ sv'[e][k] = sv[e][k]
      BY <2>1 DEF Part, NothingSkipped
    <2>2. CASE e = d /\ Has(rows, k) /\ records'[d][k] = rows[k]
      <3>1. srv.rows[k] = rows[k]
        BY <2>2, <1>5, Numbers DEF AnswerCovered
      <3> QED
        BY <2>2, <3>1 DEF Covers, Has
    <2> QED
      BY <1>3, <2>1, <2>2
  <1> QED
    BY <1>6, <1>7, <1>8, <1>9 DEF Part

LEMMA PartApply ==
  ASSUME WellFormed, Part, NEW d \in Dev, call[d].kind = "pulled",
         ~Mismatch(d, call[d]), ApplyRemote(d, call[d]),
         call' = [call EXCEPT ![d] = Idle], UNCHANGED relayVars
  PROVE  Part'
  <1> DEFINE rows == call[d].rows
             resp == call[d]
  <1> USE DEF WellFormed
  <1>1. /\ \A e \in Dev : call'[e] = IF e = d THEN Idle ELSE call[e]
        /\ \A e \in Dev : epoch'[e] = IF e = d THEN resp.epoch ELSE epoch[e]
        /\ \A e \in Dev : serverVer'[e] = IF e = d /\ resp.high > serverVer[d]
                                          THEN resp.high ELSE serverVer[e]
        /\ srv' = srv /\ disk' = disk /\ nextEpoch' = nextEpoch
    BY DEF ApplyRemote, relayVars, TypeOK
  <1>2. Adopt(d, rows, call[d].vers, {})
    BY DEF ApplyRemote
  <1>3. /\ \A e \in Dev : e # d => records'[e] = records[e] /\ sv'[e] = sv[e]
        /\ \A k \in Keys :
              \/ Has(rows, k) /\ RecordWins(rows[k], records[d][k])
                 /\ records'[d][k] = rows[k]
              \/ /\ ~(Has(rows, k) /\ RecordWins(rows[k], records[d][k]))
                 /\ records'[d][k] = records[d][k] /\ sv'[d][k] = sv[d][k]
    BY <1>2, AdoptEffect
  <1>4. resp.epoch > 0 /\ resp.epoch <= srv.epoch
    BY DEF Part, NotAhead
  <1>5. resp.epoch = srv.epoch =>
          /\ epoch[d] \in {0, srv.epoch} /\ AnswerCovered(d) /\ AnswerComplete(d)
    BY Numbers DEF Part, Answers, Current, Mismatch
  <1>6. StoreNumbered'
    BY <1>1 DEF Part, StoreNumbered
  <1>7. NotAhead'
    BY <1>1, <1>4, <1>5, CallShapes, Numbers DEF Part, NotAhead, AnswerComplete
  <1>8. Answers'
    BY <1>1, CallShapes DEF Part, Answers, Current, AnswerCovered, AnswerComplete
  <1>9. AckedCovered'
    <2> SUFFICES ASSUME NEW e \in Dev, NEW k \in Keys, sv'[e][k] # 0,
                        epoch'[e] \in {0, srv.epoch}
                 PROVE  Covers(srv.rows[k], records'[e][k])
      BY <1>1 DEF AckedCovered
    <2>1. CASE e # d
      BY <2>1, <1>1, <1>3 DEF Part, AckedCovered
    <2>2. CASE e = d
      <3>1. resp.epoch = srv.epoch
        BY <2>2, <1>1, <1>4, Numbers
      <3> QED
        BY <2>2, <3>1, <1>3, <1>5 DEF AnswerCovered, Part, AckedCovered
    <2> QED
      BY <2>1, <2>2
  <1>10. NothingSkipped'
    <2> SUFFICES ASSUME NEW e \in Dev, NEW k \in Keys, epoch'[e] = srv.epoch,
                        Has(srv.rows, k), srv.vers[k] <= serverVer'[e]
                 PROVE  /\ records'[e][k] # NoRecord
                        /\ sv'[e][k] = 0 \/ Covers(records'[e][k], srv.rows[k])
      BY <1>1 DEF NothingSkipped
    <2>1. CASE e # d
      BY <2>1, <1>1, <1>3 DEF Part, NothingSkipped
    <2>2. CASE e = d
      <3>1. resp.epoch = srv.epoch
        BY <2>2, <1>1
      <3>2. CASE srv.vers[k] <= serverVer[d]
        <4>1. epoch[d] = srv.epoch
          BY <3>1, <3>2, <1>5, Numbers DEF Part, NotAhead, StoreNumbered
        <4>2. ~Has(rows, k)
          BY <3>1, <3>2, <1>5, Numbers DEF AnswerComplete
        <4> QED
          BY <2>2, <3>2, <4>1, <4>2, <1>3 DEF Part, NothingSkipped
      <3>3. CASE ~(srv.vers[k] <= serverVer[d])
        <4>1. srv.vers[k] <= resp.high
          BY <2>2, <3>3, <1>1
        <4>2. srv.rows[k] = rows[k]
          BY <3>1, <3>3, <4>1, <1>5 DEF AnswerComplete
        <4>3. CASE records'[d][k] = rows[k]
          BY <2>2, <4>2, <4>3 DEF Covers, Has
        <4>4. CASE ~RecordWins(rows[k], records[d][k]) /\ records'[d][k] = records[d][k]
          <5>1. records[d][k] # NoRecord
            BY <4>4 DEF RecordWins, Wins
          <5>2. IsReg(rows[k]) /\ IsReg(records[d][k])
            BY Regs
          <5>3. rows[k].hlc = records[d][k].hlc => rows[k] = records[d][k]
            BY <5>1, <4>2 DEF OnlyWritten, Has
          <5>4. Covers(records[d][k], rows[k])
            BY <4>4, <5>1, <5>2, <5>3, LoserIsCovered
          <5> QED
            BY <2>2, <4>2, <4>4, <5>1, <5>4
        <4> QED
          BY <4>2, <4>3, <4>4, <1>3 DEF Has
      <3> QED
        BY <3>2, <3>3
    <2> QED
      BY <2>1, <2>2
  <1> QED
    BY <1>6, <1>7, <1>8, <1>9, <1>10 DEF Part

(* A push that reaches the relay, on time or not: nothing it stores is     *)
(* below any high-water, and no row gets worse.                            *)
LEMMA PartPush ==
  ASSUME TypeOK, TypeOK', Part, Faults \subseteq {"wipe", "clock"},
         NEW batch \in Batch, Push(batch), UNCHANGED deviceVars,
         \A d \in Dev : \/ call'[d] = call[d]
                        \/ /\ call[d].kind = "push" /\ call[d].rows = batch
                           /\ call'[d] = PushAnswer(srv', batch)
  PROVE  Part'
  <1>1. /\ srv'.epoch = srv.epoch /\ nextEpoch' = nextEpoch
        /\ srv'.version >= srv.version /\ srv'.high = srv'.version
        /\ disk' = srv'
    BY PushEffect DEF Part, StoreNumbered
  <1>2. \A k \in Keys :
              \/ srv'.rows[k] = srv.rows[k] /\ srv'.vers[k] = srv.vers[k]
              \/ /\ Has(batch, k) /\ RecordWins(batch[k], srv.rows[k])
                 /\ srv'.rows[k] = batch[k]
                 /\ srv'.vers[k] > srv.version /\ srv'.vers[k] <= srv'.version
    BY PushEffect
  <1>3. /\ records' = records /\ sv' = sv /\ serverVer' = serverVer /\ epoch' = epoch
    BY DEF deviceVars
  <1>4. srv'.version \in Nat /\ \A k \in Keys : srv'.vers[k] \in Nat
    BY DEF TypeOK, File
  <1>5. StoreNumbered'
    BY <1>1, <1>2, <1>4, Numbers DEF Part, StoreNumbered, Has
  <1>6. /\ PushAnswer(srv', batch).epoch = srv.epoch
        /\ PushAnswer(srv', batch).kind = "pushed"
        /\ \A k \in Keys : PushAnswer(srv', batch).rows[k] \in {srv'.rows[k], NoRecord}
    BY <1>1 DEF PushAnswer, Idle
  <1>7. NotAhead'
    BY <1>1, <1>3, <1>4, <1>6, Numbers DEF Part, NotAhead, StoreNumbered
  <1>8. ASSUME NEW k \in Keys, NEW r, IsReg(r), Covers(srv.rows[k], r)
        PROVE  Covers(srv'.rows[k], r)
    <2>1. IsReg(srv.rows[k]) /\ IsReg(srv'.rows[k])
      BY RegisterIsReg DEF TypeOK, File
    <2>2. Covers(srv'.rows[k], srv.rows[k])
      BY <1>2, <1>8 DEF Covers, Has
    <2> QED
      BY <2>1, <2>2, <1>8, CoversTransitive
  <1>9. ASSUME NEW d \in Dev, Current(d), NEW k \in Keys
        PROVE  \/ srv'.rows[k] = srv.rows[k] /\ srv'.vers[k] = srv.vers[k]
               \/ srv'.vers[k] > srv.version /\ srv'.vers[k] > serverVer[d]
    <2>1. serverVer[d] <= srv.version
      BY <1>9, Numbers DEF Part, NotAhead, Current
    <2> QED
      BY <2>1, <1>2, <1>4, Numbers
  <1>10. Answers'
    <2> SUFFICES ASSUME NEW d \in Dev, Current(d)'
                 PROVE  /\ call'[d].kind \in {"pushed", "pulled"} => AnswerCovered(d)'
                        /\ call'[d].kind = "pulled" => AnswerComplete(d)'
      BY DEF Answers
    <2>1. CASE call'[d] = call[d]
      <3>1. Current(d)
        BY <2>1, <1>1, <1>3 DEF Current
      <3>2. ASSUME call[d].kind \in {"pushed", "pulled"} PROVE AnswerCovered(d)'
        <4> SUFFICES ASSUME NEW k \in Keys, Has(call[d].rows, k)
                     PROVE  /\ Covers(srv'.rows[k], call[d].rows[k])
                            /\ srv'.rows[k] = call[d].rows[k] \/ srv'.vers[k] > serverVer[d]
          BY <2>1, <1>3 DEF AnswerCovered
        <4>1. /\ Covers(srv.rows[k], call[d].rows[k])
              /\ srv.rows[k] = call[d].rows[k] \/ srv.vers[k] > serverVer[d]
          BY <3>1, <3>2 DEF Part, Answers, AnswerCovered
        <4>2. IsReg(call[d].rows[k])
          BY Regs
        <4>3. Covers(srv'.rows[k], call[d].rows[k])
          BY <4>1, <4>2, <1>8
        <4>4. srv'.rows[k] = call[d].rows[k] \/ srv'.vers[k] > serverVer[d]
          BY <4>1, <3>1, <1>9
        <4> QED
          BY <4>3, <4>4
      <3>3. ASSUME call[d].kind = "pulled" PROVE AnswerComplete(d)'
        <4>1. AnswerComplete(d)
          BY <3>1, <3>3 DEF Part, Answers
        <4>2. call[d].high <= srv'.version
          BY <4>1, <1>1, <1>4, Numbers DEF AnswerComplete
        <4>3. ASSUME NEW k \in Keys, Has(srv'.rows, k), srv'.vers[k] <= call[d].high
              PROVE  srv'.rows[k] = call[d].rows[k] \/ srv'.vers[k] <= serverVer[d]
          <5>1. srv'.rows[k] = srv.rows[k] /\ srv'.vers[k] = srv.vers[k]
            BY <4>1, <4>3, <3>1, <1>9, <1>4, Numbers DEF AnswerComplete
          <5> QED
            BY <4>1, <4>3, <5>1 DEF AnswerComplete, Has
        <4>4. ASSUME NEW k \in Keys, Has(call[d].rows, k)
              PROVE  srv'.vers[k] > serverVer[d]
          BY <4>1, <4>4, <3>1, <1>9 DEF AnswerComplete
        <4> QED
          BY <2>1, <1>3, <4>2, <4>3, <4>4 DEF AnswerComplete
      <3> QED
        BY <2>1, <3>2, <3>3
    <2>2. CASE call'[d] = PushAnswer(srv', batch)
      <3>1. AnswerCovered(d)'
        BY <2>2, <1>6 DEF AnswerCovered, Covers, Has
      <3> QED
        BY <2>2, <3>1, <1>6
    <2> QED
      BY <2>1, <2>2
  <1>11. AckedCovered'
    <2> SUFFICES ASSUME NEW d \in Dev, NEW k \in Keys, sv[d][k] # 0,
                        epoch[d] \in {0, srv.epoch}
                 PROVE  Covers(srv'.rows[k], records[d][k])
      BY <1>1, <1>3 DEF AckedCovered
    <2>1. Covers(srv.rows[k], records[d][k]) /\ IsReg(records[d][k])
      BY Regs DEF Part, AckedCovered
    <2> QED
      BY <2>1, <1>8
  <1>12. NothingSkipped'
    <2> SUFFICES ASSUME NEW d \in Dev, NEW k \in Keys, epoch[d] = srv.epoch,
                        Has(srv'.rows, k), srv'.vers[k] <= serverVer[d]
                 PROVE  /\ records[d][k] # NoRecord
                        /\ sv[d][k] = 0 \/ Covers(records[d][k], srv'.rows[k])
      BY <1>1, <1>3 DEF NothingSkipped
    <2>1. serverVer[d] <= srv.version
      BY DEF Part, NotAhead
    <2>2. srv'.rows[k] = srv.rows[k] /\ srv'.vers[k] = srv.vers[k]
      BY <2>1, <1>2, <1>4, Numbers
    <2> QED
      BY <2>2 DEF Part, NothingSkipped, Has
  <1> QED
    BY <1>5, <1>7, <1>10, <1>11, <1>12 DEF Part

LEMMA PartPull ==
  ASSUME TypeOK, Part, NEW d \in Dev, HandlePull(d)
  PROVE  Part'
  <1> DEFINE since == call[d].high
  <1>1. PICK high \in {since} \union {srv.vers[k] : k \in Above(srv, since)} :
          call' = [call EXCEPT ![d] = PullAnswer(srv, since, high)]
    BY DEF HandlePull
  <1>2. UNCHANGED deviceVars /\ UNCHANGED relayVars /\ since = serverVer[d]
    BY DEF HandlePull, Part, NotAhead
  <1>3. \A e \in Dev : call'[e] = IF e = d THEN PullAnswer(srv, since, high) ELSE call[e]
    BY <1>1 DEF TypeOK
  <1>4. /\ PullAnswer(srv, since, high).kind = "pulled"
        /\ PullAnswer(srv, since, high).epoch = srv.epoch
        /\ PullAnswer(srv, since, high).high = high
        /\ \A k \in Keys : PullAnswer(srv, since, high).rows[k] =
                             IF Has(srv.rows, k) /\ srv.vers[k] > since
                             THEN srv.rows[k] ELSE NoRecord
    BY DEF PullAnswer, Idle, Above
  <1>5. StoreNumbered' /\ AckedCovered' /\ NothingSkipped'
    BY <1>2 DEF Part, StoreNumbered, AckedCovered, NothingSkipped, deviceVars, relayVars
  <1>6. NotAhead'
    BY <1>2, <1>3, <1>4, Numbers
    DEF Part, NotAhead, StoreNumbered, deviceVars, relayVars
  <1>7. ASSUME Current(d)' PROVE AnswerCovered(d)' /\ AnswerComplete(d)'
    <2>1. since <= srv.version
      BY <1>7, <1>2, Numbers DEF Part, NotAhead, Current, deviceVars, relayVars
    <2>2. high <= srv.version
      BY <2>1, <1>1 DEF Above, Part, StoreNumbered
    <2> QED
      BY <2>2, <1>2, <1>3, <1>4, Numbers
      DEF AnswerCovered, AnswerComplete, Covers, Has, deviceVars, relayVars
  <1>8. Answers'
    BY <1>2, <1>3, <1>7
    DEF Part, Answers, Current, AnswerCovered, AnswerComplete, deviceVars, relayVars
  <1> QED
    BY <1>5, <1>6, <1>8 DEF Part

(* The relay starts again: from its file, or without one and then with a   *)
(* generation nobody has seen.                                             *)
LEMMA PartRestart ==
  ASSUME TypeOK, Part, Faults \subseteq {"wipe", "clock"}, RelayRestarts
  PROVE  Part'
  <1>1. PICK file \in FilesFound :
          /\ srv' = OpenStore(file, nextEpoch)
          /\ disk' = OpenStore(file, nextEpoch)
          /\ nextEpoch' = IF OpenStore(file, nextEpoch) = file
                          THEN nextEpoch ELSE nextEpoch + 1
    BY DEF RelayRestarts
  <1>2. UNCHANGED <<deviceVars, call>>
    BY DEF RelayRestarts
  <1>3. nextEpoch \in Nat /\ nextEpoch > srv.epoch /\ srv.epoch > 0
    BY Numbers DEF Part, StoreNumbered, TypeOK
  <1>4. file = srv \/ (file = NoFile /\ FirstSyncSettled)
    BY <1>1 DEF FilesFound, Part, StoreNumbered
  <1>5. CASE file = srv
    <2>1. OpenStore(srv, nextEpoch) = srv
      BY <1>3, Numbers DEF OpenStore, Part, StoreNumbered
    <2>2. srv' = srv /\ disk' = srv /\ nextEpoch' = nextEpoch
      BY <1>1, <1>5, <2>1
    <2> QED
      BY <2>2, <1>2
      DEF Part, StoreNumbered, NotAhead, Answers, Current, AnswerCovered, AnswerComplete,
          AckedCovered, NothingSkipped, deviceVars
  <1>6. CASE file = NoFile /\ FirstSyncSettled
    <2>1. /\ srv'.epoch = nextEpoch /\ srv'.version = 0 /\ srv'.high = 0
          /\ \A k \in Keys : srv'.rows[k] = NoRecord /\ srv'.vers[k] = 0
      BY <1>1, <1>6 DEF OpenStore, NoFile, EmptyBatch, NoVersions
    <2>2. OpenStore(NoFile, nextEpoch).epoch # NoFile.epoch
      BY <1>1, <1>6, <2>1, <1>3, Numbers DEF NoFile
    <2>3. nextEpoch' = nextEpoch + 1
      BY <1>1, <1>6, <2>2
    <2>4. \A d \in Dev : epoch[d] < srv'.epoch /\ call[d].epoch < srv'.epoch
      BY <1>3, <2>1, Numbers DEF Part, NotAhead
    <2>5. \A d \in Dev : epoch[d] = 0 =>
                           call[d].kind # "pushed" /\ \A k \in Keys : sv[d][k] = 0
      BY <1>6 DEF FirstSyncSettled
    <2>6. StoreNumbered'
      BY <1>1, <1>3, <2>1, <2>3, Numbers DEF StoreNumbered, Has
    <2>7. NotAhead'
      BY <1>2, <1>3, <2>4, <2>5, <2>1, Numbers DEF Part, NotAhead, deviceVars
    <2>8. Answers'
      BY <1>2, <2>4, Numbers, <2>1, <1>3 DEF Answers, Current, deviceVars
    <2>9. AckedCovered'
      BY <1>2, <2>4, <2>5, Numbers, <2>1 DEF AckedCovered, deviceVars
    <2>10. NothingSkipped'
      BY <1>2, <2>1 DEF NothingSkipped, Has, deviceVars
    <2> QED
      BY <2>6, <2>7, <2>8, <2>9, <2>10 DEF Part
  <1> QED
    BY <1>4, <1>5, <1>6

LEMMA PartStep ==
  ASSUME WellFormed, TypeOK', Part, Faults \subseteq {"wipe", "clock"}, [Next]_vars
  PROVE  Part'
  <1> USE DEF WellFormed
  <1>1. ASSUME NEW d \in Dev, NEW k \in Keys, SetDecision(d, k) PROVE Part'
    BY <1>1, PartEdit
  <1>2. ASSUME NEW d \in Dev, StartSync(d) PROVE Part'
    <2> DEFINE out == Dirty(records[d], sv[d])
               c == IF out # EmptyBatch THEN PushCall(out) ELSE PullCall(serverVer[d])
    <2>1. call' = [call EXCEPT ![d] = c] /\ UNCHANGED <<deviceVars, relayVars>>
      BY <1>2 DEF StartSync
    <2>2. /\ c.kind \in {"idle", "push", "pull"} /\ c.epoch = 0
          /\ c.kind = "pull" => c.high = serverVer[d]
      BY CallShapes
    <2> HIDE DEF c
    <2> QED
      BY <2>1, <2>2, PartCall
  <1>3. ASSUME NEW d \in Dev, PushReturns(d) PROVE Part'
    <2>1. CASE Mismatch(d, call[d])
      BY <1>3, <2>1, PartReset DEF PushReturns
    <2>2. CASE ~Mismatch(d, call[d])
      BY <1>3, <2>2, PartAck DEF PushReturns
    <2> QED
      BY <2>1, <2>2
  <1>4. ASSUME NEW d \in Dev, PullReturns(d) PROVE Part'
    <2>1. CASE Mismatch(d, call[d]) \/ call[d].high < serverVer[d]
      BY <1>4, <2>1, PartReset DEF PullReturns
    <2>2. CASE ~(Mismatch(d, call[d]) \/ call[d].high < serverVer[d])
      BY <1>4, <2>2, PartApply DEF PullReturns
    <2> QED
      BY <2>1, <2>2
  <1>5. ASSUME NEW d \in Dev, GiveUp(d) PROVE Part'
    BY <1>5, PartCall, CallShapes DEF GiveUp
  <1>6. ASSUME NEW d \in Dev, HandlePush(d) PROVE Part'
    <2>1. call[d].rows \in Batch
      BY Numbers
    <2>2. \A e \in Dev : \/ call'[e] = call[e]
                         \/ /\ call[e].kind = "push" /\ call[e].rows = call[d].rows
                            /\ call'[e] = PushAnswer(srv', call[d].rows)
      BY <1>6 DEF HandlePush, TypeOK
    <2> QED
      BY <1>6, <2>1, <2>2, PartPush DEF HandlePush
  <1>7. ASSUME NEW batch \in stray, HandleStray(batch) PROVE Part'
    <2>1. batch \in Batch
      BY DEF TypeOK, Batch
    <2> QED
      BY <1>7, <2>1, PartPush DEF HandleStray
  <1>8. ASSUME NEW d \in Dev, HandlePull(d) PROVE Part'
    BY <1>8, PartPull
  <1>9. ASSUME RelayRestarts PROVE Part'
    BY <1>9, PartRestart
  <1>10. ASSUME UNCHANGED vars PROVE Part'
    BY <1>10
    DEF Part, StoreNumbered, NotAhead, Answers, Current, AnswerCovered, AnswerComplete,
        AckedCovered, NothingSkipped, vars, deviceVars, relayVars
  <1> QED
    BY <1>1, <1>2, <1>3, <1>4, <1>5, <1>6, <1>7, <1>8, <1>9, <1>10 DEF Next

LEMMA SyncInvInit == Init => SyncInv
  BY InitType, InitWritten, PartInit DEF SyncInv, Part

LEMMA SyncInvStep ==
  ASSUME Faults \subseteq {"wipe", "clock"}, SyncInv, [Next]_vars
  PROVE  SyncInv'
  <1>1. WellFormed /\ Part
    BY DEF SyncInv, WellFormed, Part
  <1>2. TypeOK' /\ OnlyWritten'
    BY <1>1, TypeStep, WrittenStep DEF WellFormed
  <1>3. Part'
    BY <1>1, <1>2, PartStep
  <1> QED
    BY <1>2, <1>3 DEF SyncInv, Part

(* A relay that loses its file whole, or never, keeps SyncInv.             *)
THEOREM SyncInvariant ==
  ASSUME Faults \subseteq {"wipe", "clock"}
  PROVE  Spec => []SyncInv
  BY SyncInvInit, SyncInvStep, PTL DEF Spec

(* A register a device counts as acknowledged is on the relay, itself or a *)
(* winner over it, for any number of devices, shots, wipes and abandoned   *)
(* pushes.                                                                 *)
THEOREM AcksAreSafe ==
  ASSUME Faults \subseteq {"wipe", "clock"}
  PROVE  Spec => []AckedCovered
  <1>1. SyncInv => AckedCovered
    BY DEF SyncInv
  <1> QED
    BY <1>1, SyncInvariant, PTL

(* A device's pull high-water never passes a row it has not merged.        *)
THEOREM PullsSkipNothing ==
  ASSUME Faults \subseteq {"wipe", "clock"}
  PROVE  Spec => []NothingSkipped
  <1>1. SyncInv => NothingSkipped
    BY DEF SyncInv
  <1> QED
    BY <1>1, SyncInvariant, PTL

LEMMA InSyncEqual == SyncInv => InSyncAgrees
  <1> SUFFICES ASSUME SyncInv, NEW d \in Dev, InSync(d) PROVE records[d] = srv.rows
    BY DEF InSyncAgrees
  <1>0. TypeOK
    BY DEF SyncInv
  <1>1. ASSUME NEW k \in Keys PROVE records[d][k] = srv.rows[k]
    <2>1. IsReg(records[d][k]) /\ IsReg(srv.rows[k])
      BY <1>0, Regs
    <2>2. records[d][k] # NoRecord => Covers(srv.rows[k], records[d][k])
      BY DEF SyncInv, InSync, AckedCovered
    <2>3. Has(srv.rows, k) => srv.vers[k] <= serverVer[d]
      BY <1>0, Numbers DEF InSync, Above
    <2>4. Has(srv.rows, k) => Covers(records[d][k], srv.rows[k])
      BY <2>3 DEF SyncInv, InSync, NothingSkipped
    <2> QED
      BY <2>1, <2>2, <2>4, CoversAntisymmetric DEF Covers, Has
  <1>2. records[d] \in Batch /\ srv.rows \in Batch
    BY <1>0 DEF TypeOK, File, Batch
  <1> QED
    BY <1>1, <1>2 DEF Batch

(* A device with nothing to push and nothing to pull holds exactly what    *)
(* the relay holds, so any two such devices agree.                         *)
THEOREM UpToDateMeansEqual ==
  ASSUME Faults \subseteq {"wipe", "clock"}
  PROVE  Spec => []InSyncAgrees
  BY SyncInvariant, InSyncEqual, PTL

-----------------------------------------------------------------------------
(* The protocol implements LWWReplicas.                                    *)

LEMMA SameMerge ==
  /\ \A a, b : Replicas!RecordWins(a, b) <=> RecordWins(a, b)
  /\ Replicas!NoRecord = NoRecord
  BY DEF Replicas!RecordWins, RecordWins, Replicas!Wins, Wins, Replicas!Less, Less,
         Replicas!NoRecord, NoRecord, Replicas!ZeroHLC, ZeroHLC

LEMMA ReplicasInit == Init => Replicas!Init
  <1>1. Init => srv.rows = [k \in Keys |-> NoRecord]
    BY DEF Init, OpenStore, NoFile, EmptyBatch
  <1> QED
    BY <1>1, InitWritten, SameMerge DEF Replicas!Init, OnlyWritten

LEMMA EditIsEdit ==
  ASSUME TypeOK, NEW d \in Dev, NEW k \in Keys, SetDecision(d, k)
  PROVE  Replicas!Next
  <1>1. PICK v \in Values, h \in Stamp(d) :
           LET r == [val |-> v, hlc |-> h, mig |-> FALSE]
           IN  /\ \A w \in written[k] : w.hlc # h
               /\ records' = [records EXCEPT ![d][k] = r]
               /\ written' = [written EXCEPT ![k] = @ \union {r}]
    BY DEF SetDecision
  <1> DEFINE r == [val |-> v, hlc |-> h, mig |-> FALSE]
  <1>2. records'[d][k] = r /\ r.hlc = h /\ h.dev = d
    BY <1>1 DEF TypeOK, Stamp
  <1>3. srv' = srv
    BY DEF SetDecision, relayVars
  <1> HIDE DEF r
  <1>4. Replicas!Edit(d, k, records'[d][k])
    BY <1>1, <1>2, <1>3 DEF Replicas!Edit, r
  <1> QED
    BY <1>4 DEF Replicas!Next

LEMMA AdoptIsMerge ==
  ASSUME WellFormed, NEW d \in Dev, NEW vers, NEW also,
         Adopt(d, call[d].rows, vers, also), UNCHANGED <<srv, written>>
  PROVE  Replicas!Next
  <1>1. records' = [records EXCEPT ![d] = records'[d]]
    BY DEF Adopt, WellFormed, TypeOK
  <1>2. ASSUME NEW k \in Keys
        PROVE  \/ records'[d][k] = records[d][k]
               \/ /\ records'[d][k] \in written[k]
                  /\ RecordWins(records'[d][k], records[d][k])
    <2>1. \/ records'[d][k] = records[d][k]
          \/ /\ Has(call[d].rows, k) /\ RecordWins(call[d].rows[k], records[d][k])
             /\ records'[d][k] = call[d].rows[k]
      BY AdoptEffect DEF WellFormed
    <2> QED
      BY <2>1 DEF WellFormed, OnlyWritten, Has
  <1>3. Replicas!DeviceMerge(d, records'[d])
    BY <1>1, <1>2, SameMerge DEF Replicas!DeviceMerge, Replicas!Merges
  <1> QED
    BY <1>3 DEF Replicas!Next

LEMMA PushIsMerge ==
  ASSUME WellFormed, NEW batch \in Batch, Push(batch),
         UNCHANGED <<records, written>>,
         \A k \in Keys : batch[k] \in written[k] \union {NoRecord}
  PROVE  Replicas!Next
  <1>1. srv'.epoch = srv.epoch
    BY PushEffect DEF WellFormed
  <1>2. ASSUME NEW k \in Keys
        PROVE  \/ srv'.rows[k] = srv.rows[k]
               \/ srv'.rows[k] \in written[k] /\ RecordWins(srv'.rows[k], srv.rows[k])
    <2>1. \/ srv'.rows[k] = srv.rows[k]
          \/ /\ Has(batch, k) /\ RecordWins(batch[k], srv.rows[k])
             /\ srv'.rows[k] = batch[k]
      BY PushEffect DEF WellFormed
    <2> QED
      BY <2>1 DEF Has
  <1>3. Replicas!RelayMerge
    BY <1>1, <1>2, SameMerge DEF Replicas!RelayMerge, Replicas!Merges
  <1> QED
    BY <1>3 DEF Replicas!Next

LEMMA RestartIsLoss ==
  ASSUME SyncInv, Faults \subseteq {"wipe", "clock"}, RelayRestarts
  PROVE  Replicas!Next \/ UNCHANGED Replicas!lwwVars
  <1>1. PICK file \in FilesFound : srv' = OpenStore(file, nextEpoch)
    BY DEF RelayRestarts
  <1>2. records' = records /\ written' = written
    BY DEF RelayRestarts, deviceVars
  <1>3. nextEpoch \in Nat /\ srv.epoch \in Nat /\ nextEpoch > srv.epoch /\ srv.epoch > 0
    BY Numbers DEF SyncInv, StoreNumbered, TypeOK
  <1>4. CASE file = srv
    <2>1. srv' = srv
      BY <1>1, <1>3, <1>4, Numbers DEF OpenStore, SyncInv, StoreNumbered
    <2> QED
      BY <2>1, <1>2 DEF Replicas!lwwVars
  <1>5. CASE file = NoFile
    <2>1. srv'.epoch = nextEpoch /\ srv'.rows = [k \in Keys |-> NoRecord]
      BY <1>1, <1>5 DEF OpenStore, NoFile, EmptyBatch
    <2>2. Replicas!RelayLoss
      BY <2>1, <1>2, <1>3, SameMerge DEF Replicas!RelayLoss
    <2> QED
      BY <2>2 DEF Replicas!Next
  <1> QED
    BY <1>4, <1>5 DEF FilesFound, SyncInv, StoreNumbered

LEMMA ReplicasStep ==
  ASSUME SyncInv, Faults \subseteq {"wipe", "clock"}, [Next]_vars
  PROVE  Replicas!Next \/ UNCHANGED Replicas!lwwVars
  <1>0. WellFormed
    BY DEF SyncInv, WellFormed
  <1>1. ASSUME NEW d \in Dev, NEW k \in Keys, SetDecision(d, k) PROVE Replicas!Next
    BY <1>0, <1>1, EditIsEdit DEF WellFormed
  <1>2. CASE UNCHANGED <<records, srv, written>>
    BY <1>2 DEF Replicas!lwwVars
  <1>3. ASSUME NEW d \in Dev, PushReturns(d)
        PROVE  Replicas!Next \/ UNCHANGED Replicas!lwwVars
    <2>1. CASE Mismatch(d, call[d])
      BY <1>2, <1>3, <2>1 DEF PushReturns, ResetForEpoch, relayVars
    <2>2. CASE ~Mismatch(d, call[d])
      BY <1>0, <1>3, <2>2, AdoptIsMerge DEF PushReturns, AckPush, relayVars
    <2> QED
      BY <2>1, <2>2
  <1>4. ASSUME NEW d \in Dev, PullReturns(d)
        PROVE  Replicas!Next \/ UNCHANGED Replicas!lwwVars
    <2>1. CASE Mismatch(d, call[d]) \/ call[d].high < serverVer[d]
      BY <1>2, <1>4, <2>1 DEF PullReturns, ResetForEpoch, relayVars
    <2>2. CASE ~(Mismatch(d, call[d]) \/ call[d].high < serverVer[d])
      BY <1>0, <1>4, <2>2, AdoptIsMerge DEF PullReturns, ApplyRemote, relayVars
    <2> QED
      BY <2>1, <2>2
  <1>5. ASSUME NEW d \in Dev, HandlePush(d) PROVE Replicas!Next
    <2>1. /\ call[d].rows \in Batch
          /\ \A k \in Keys : call[d].rows[k] \in written[k] \union {NoRecord}
      BY <1>0, Numbers DEF WellFormed, OnlyWritten
    <2> QED
      BY <1>0, <1>5, <2>1, PushIsMerge DEF HandlePush, deviceVars
  <1>6. ASSUME NEW batch \in stray, HandleStray(batch) PROVE Replicas!Next
    <2>1. /\ batch \in Batch
          /\ \A k \in Keys : batch[k] \in written[k] \union {NoRecord}
      BY <1>0 DEF WellFormed, OnlyWritten, TypeOK, Batch
    <2> QED
      BY <1>0, <1>6, <2>1, PushIsMerge DEF HandleStray, deviceVars
  <1>7. ASSUME RelayRestarts PROVE Replicas!Next \/ UNCHANGED Replicas!lwwVars
    BY <1>7, RestartIsLoss
  <1> QED
    BY <1>1, <1>2, <1>3, <1>4, <1>5, <1>6, <1>7
    DEF Next, StartSync, GiveUp, HandlePull, vars, deviceVars, relayVars

(* Every execution of the protocol is one of LWWReplicas: devices and      *)
(* relay only ever edit, merge winners in, or start over with a new        *)
(* generation.                                                             *)
THEOREM SyncOnlyMerges ==
  ASSUME Faults \subseteq {"wipe", "clock"}
  PROVE  Spec => OnlyMerges
  <1>1. Init => Replicas!Init
    BY ReplicasInit
  <1>2. SyncInv /\ [Next]_vars => [Replicas!Next]_(Replicas!lwwVars)
    BY ReplicasStep
  <1> QED
    BY <1>1, <1>2, SyncInvariant, PTL DEF Spec, OnlyMerges, Replicas!Spec

=============================================================================
