------------------------- MODULE SessionJournalProofs -------------------------
(***************************************************************************)
(* Proofs about SessionJournal, for every set of shots, clock readings,    *)
(* remote registers and every bound but the one on failing operations.     *)
(***************************************************************************)
EXTENDS SessionJournal, SyncCoreProofs

-----------------------------------------------------------------------------
(* Types.                                                                  *)

Rec == [val : Values, hlc : HLC, mig : BOOLEAN]

LEMMA BasicTypes ==
  /\ NoRecord \in Register /\ NoRecord \notin Rec
  /\ Register = Rec \union {NoRecord}
  /\ \A r \in Register : r.hlc \in HLC /\ r.mig \in BOOLEAN
  /\ \A k \in Keys : Remotes[k] \subseteq Rec
  /\ NoEntries \in [Keys -> Register] /\ Blank \in Data
  /\ ZeroHLC \in HLC
  <1>1. ZeroHLC \in HLC
    BY DEF ZeroHLC, HLC
  <1>2. Register = Rec \union {NoRecord} /\ \A k \in Keys : Remotes[k] \subseteq Rec
    BY RemoteAssumption DEF Register, Rec
  <1>3. NoRecord.hlc \in HLC /\ NoRecord.mig \in BOOLEAN /\ NoRecord.val = "none"
    BY <1>1 DEF NoRecord
  <1>4. \A r \in Rec : r.hlc \in HLC /\ r.mig \in BOOLEAN /\ r.val \in Values
    BY DEF Rec
  <1>5. NoRecord \notin Rec
    BY <1>3, <1>4, ValueAssumption
  <1>6. NoEntries \in [Keys -> Register]
    BY <1>2 DEF NoEntries
  <1>7. Blank \in Data
    BY <1>1, <1>6 DEF Blank, Data
  <1> QED
    BY <1>1, <1>2, <1>3, <1>4, <1>5, <1>6, <1>7

LEMMA DataFields ==
  ASSUME NEW data \in Data
  PROVE  /\ data.version \in {1, 2} /\ data.node \in HLC
         /\ data.records \in [Keys -> Register] /\ data.known \in [Keys -> Register]
         /\ data.acked \in [Keys -> BOOLEAN]
  BY DEF Data

LEMMA UpgradedType ==
  ASSUME NEW data \in Data
  PROVE  Upgraded(data) \in Data /\ Upgraded(data).version = 2
  <1>1. CASE data.version = 2
    BY <1>1 DEF Upgraded
  <1>2. CASE data.version = 1
    <2> DEFINE regs == [k \in Keys |->
                          IF data.records[k] = NoRecord THEN NoRecord
                          ELSE [val |-> data.records[k].val, mig |-> TRUE,
                                hlc |-> [wall |-> data.node.wall, ctr |-> 0,
                                         dev |-> Self, nonce |-> 0]]]
    <2>1. data.node.wall \in Nat
      BY DataFields DEF HLC
    <2>2. regs \in [Keys -> Register]
      BY <2>1, BasicTypes, DataFields, SelfAssumption DEF Rec, HLC
    <2>3. Upgraded(data) = [data EXCEPT !.version = 2, !.records = regs]
      BY <1>2 DEF Upgraded
    <2> HIDE DEF regs
    <2> QED
      BY <2>2, <2>3 DEF Data
  <1> QED
    BY <1>1, <1>2, DataFields

LEMMA ReplayedType ==
  ASSUME NEW data \in Data, NEW entries \in [Keys -> Register]
  PROVE  Replayed(data, entries) \in Data /\ Replayed(data, entries).version = data.version
  <1> DEFINE regs == [k \in Keys |-> IF entries[k] # NoRecord THEN entries[k]
                                     ELSE data.records[k]]
             acks == [k \in Keys |-> data.acked[k] /\ entries[k] = NoRecord]
  <1>1. regs \in [Keys -> Register] /\ acks \in [Keys -> BOOLEAN]
    BY DataFields
  <1>2. Replayed(data, entries) = [data EXCEPT !.records = regs, !.acked = acks]
    BY DEF Replayed
  <1> HIDE DEF regs, acks
  <1> QED
    BY <1>1, <1>2 DEF Data

LEMMA SeedType ==
  ASSUME NEW data \in Data, NEW now \in Walls, NEW seed \in Seeds(data, now)
  PROVE  seed \in HLC
  <1>1. [data.node EXCEPT !.wall = IF data.node.wall > now THEN data.node.wall ELSE now] \in HLC
    BY DataFields, ClockAssumption DEF HLC
  <1>2. \A k \in Keys : data.records[k].hlc \in HLC
    BY DataFields, BasicTypes
  <1> QED
    BY <1>1, <1>2 DEF Seeds

(* tickHLC's clock is a clock of this device.                              *)
LEMMA TickType ==
  ASSUME NEW node \in HLC, NEW now \in Nat, NEW ceil \in Nat
  PROVE  Tick(node, Self, now, ceil) \in HLC
  BY SelfAssumption DEF Tick, HLC

LEMMA NextClockType ==
  ASSUME TypeOK, NEW now \in Walls
  PROVE  NextClock(now) \in HLC
  <1>1. mem.node \in HLC /\ now \in Nat /\ serverRef \in Nat
    BY DataFields, ClockAssumption DEF TypeOK
  <1>2. (IF serverRef > 0 THEN serverRef + MaxSkew ELSE 0) \in Nat
    BY <1>1, ClockAssumption
  <1> QED
    BY <1>1, <1>2, TickType DEF NextClock

(* The register a decision stores.                                         *)
Chosen(v, clock, nonce) ==
    [val |-> v, hlc |-> [clock EXCEPT !.nonce = nonce], mig |-> FALSE]

LEMMA ChosenType ==
  ASSUME NEW v \in Values, NEW clock \in HLC, NEW nonce \in Nonces
  PROVE  /\ Chosen(v, clock, nonce) \in Rec
         /\ Chosen(v, clock, nonce).hlc.wall = clock.wall
         /\ Chosen(v, clock, nonce).hlc.ctr = clock.ctr
         /\ Chosen(v, clock, nonce).hlc.dev = clock.dev
         /\ Chosen(v, clock, nonce).mig = FALSE
  <1>1. [clock EXCEPT !.nonce = nonce] \in HLC
    BY StampAssumption DEF HLC
  <1>2. /\ [clock EXCEPT !.nonce = nonce].wall = clock.wall
        /\ [clock EXCEPT !.nonce = nonce].ctr = clock.ctr
        /\ [clock EXCEPT !.nonce = nonce].dev = clock.dev
    BY DEF HLC
  <1> QED
    BY <1>1, <1>2 DEF Chosen, Rec

LEMMA DecidedType ==
  ASSUME TypeOK, NEW k \in Keys, NEW v \in Values, NEW clock \in HLC, NEW nonce \in Nonces
  PROVE  /\ Decided(k, v, clock, nonce) \in Data
         /\ Decided(k, v, clock, nonce).version = mem.version
         /\ Decided(k, v, clock, nonce).node = clock
         /\ Decided(k, v, clock, nonce).records[k] = Chosen(v, clock, nonce)
         /\ \A j \in Keys \ {k} :
              Decided(k, v, clock, nonce).records[j] = mem.records[j]
  <1> DEFINE r == Chosen(v, clock, nonce)
             regs == [mem.records EXCEPT ![k] = r]
             acks == [mem.acked EXCEPT ![k] = FALSE]
  <1>0. mem \in Data
    BY DEF TypeOK
  <1>2. r \in Rec
    BY ChosenType
  <1>4. Decided(k, v, clock, nonce) = [mem EXCEPT !.records = regs, !.acked = acks, !.node = clock]
    BY <1>0 DEF Decided, Data, Chosen
  <1> HIDE DEF r
  <1>3. regs \in [Keys -> Register] /\ acks \in [Keys -> BOOLEAN]
    BY <1>0, <1>2, DataFields, BasicTypes
  <1>6. regs[k] = r /\ \A j \in Keys \ {k} : regs[j] = mem.records[j]
    BY <1>0, DataFields
  <1> HIDE DEF regs, acks
  <1>5. /\ Decided(k, v, clock, nonce) \in Data
        /\ Decided(k, v, clock, nonce).version = mem.version
        /\ Decided(k, v, clock, nonce).node = clock
        /\ Decided(k, v, clock, nonce).records = regs
    BY <1>0, <1>3, <1>4 DEF Data
  <1> QED
    BY <1>5, <1>6 DEF r

LEMMA AdoptedType ==
  ASSUME TypeOK, NEW rows \in [Keys -> Register], NEW acks, NEW clock \in HLC
  PROVE  /\ Adopted(rows, acks, clock) \in Data
         /\ Adopted(rows, acks, clock).version = mem.version
         /\ Adopted(rows, acks, clock).node = clock
         /\ \A k \in Keys :
              Adopted(rows, acks, clock).records[k] =
                IF rows[k] # NoRecord /\ RecordWins(rows[k], mem.records[k])
                THEN rows[k] ELSE mem.records[k]
  <1> DEFINE won == {k \in Keys : rows[k] # NoRecord /\ RecordWins(rows[k], mem.records[k])}
             regs == [k \in Keys |-> IF k \in won THEN rows[k] ELSE mem.records[k]]
             clean == [k \in Keys |-> mem.acked[k] \/ k \in won \union acks]
  <1>0. mem \in Data
    BY DEF TypeOK
  <1>1. regs \in [Keys -> Register]
    BY <1>0, DataFields
  <1>2. clean \in [Keys -> BOOLEAN]
    BY <1>0, DataFields
  <1>3. Adopted(rows, acks, clock) = [mem EXCEPT !.records = regs, !.acked = clean, !.node = clock]
    BY DEF Adopted
  <1>4. \A k \in Keys : regs[k] = IF rows[k] # NoRecord /\ RecordWins(rows[k], mem.records[k])
                                  THEN rows[k] ELSE mem.records[k]
    OBVIOUS
  <1> HIDE DEF regs, clean
  <1> QED
    BY <1>0, <1>1, <1>2, <1>3, <1>4 DEF Data

LEMMA MergedClockType ==
  ASSUME TypeOK, NEW rows \in [Keys -> Register], NEW clock, MergedClock(rows, clock)
  PROVE  clock \in HLC
  BY DataFields, BasicTypes DEF MergedClock, TypeOK

(* The relay only holds what was pushed to it.                             *)
LEMMA AfterPushType ==
  ASSUME TypeOK
  PROVE  AfterPush \in [Keys -> Register]
  BY DataFields DEF AfterPush, TypeOK

-----------------------------------------------------------------------------
(* What every step keeps: the data a process works on is of version 2.     *)

Version2 == mem.version = 2

TypeInv == TypeOK /\ Version2

LEMMA EndsCount ==
  ASSUME NEW failed \in 0 .. MaxErrors, NEW end \in Ends(failed)
  PROVE  /\ failed + Failures(end) \in 0 .. MaxErrors
         /\ end \in {"saved", "fails", "stays", "dies"}
  BY BoundAssumption DEF Ends, Failures

LEMMA SaveType ==
  ASSUME TypeOK, NEW data \in Data, data.version = 2, NEW end, NEW half \in BOOLEAN,
         SaveLocked(data, end, half)
  PROVE  /\ snap' \in Data /\ mem' \in Data /\ mem'.version = 2
         /\ journal' \in [Keys -> Register]
         /\ torn' \in BOOLEAN /\ up' \in BOOLEAN /\ dirty' \in BOOLEAN
  <1>1. Blank.version = 2
    BY DEF Blank
  <1> QED
    BY <1>1, BasicTypes DEF SaveLocked, TypeOK

LEMMA SaveIgnoredType ==
  ASSUME TypeInv, NEW data \in Data, data.version = 2, NEW ref \in Nat,
         SaveIgnored(data, ref), relay' \in [Keys -> Register],
         UNCHANGED <<stamps, behind>>
  PROVE  TypeInv'
  <1>1. PICK end \in Ends(errors) :
          /\ SaveLocked(data, end, torn)
          /\ serverRef' = IF end = "dies" THEN 0 ELSE ref
          /\ errors' = errors + Failures(end)
          /\ valid' = [k \in Keys |-> valid[k] \union {data.records[k]}]
    BY DEF SaveIgnored
  <1>2. errors' \in 0 .. MaxErrors
    BY <1>1, EndsCount DEF TypeInv, TypeOK
  <1>3. valid' \in [Keys -> SUBSET Register]
    BY <1>1, DataFields DEF TypeInv, TypeOK
  <1>4. /\ snap' \in Data /\ mem' \in Data /\ mem'.version = 2
        /\ journal' \in [Keys -> Register]
        /\ torn' \in BOOLEAN /\ up' \in BOOLEAN /\ dirty' \in BOOLEAN
    BY <1>1, SaveType DEF TypeInv, TypeOK
  <1> QED
    BY <1>1, <1>2, <1>3, <1>4 DEF TypeInv, TypeOK, Version2

LEMMA TypeInit == Init => TypeInv
  <1> SUFFICES ASSUME Init PROVE TypeInv
    OBVIOUS
  <1>1. snap \in Data
    <2>1. CASE snap = Blank
      BY <2>1, BasicTypes
    <2>2. ASSUME NEW w \in Walls, NEW v \in Values, NEW some \in SUBSET Keys,
                 snap = [Blank EXCEPT
                        !.version = 1, !.node.wall = w,
                        !.records = [k \in Keys |->
                            IF k \in some THEN [NoRecord EXCEPT !.val = v] ELSE NoRecord]]
          PROVE  snap \in Data
      <3> DEFINE regs == [k \in Keys |-> IF k \in some THEN [NoRecord EXCEPT !.val = v]
                                         ELSE NoRecord]
      <3>1. [NoRecord EXCEPT !.val = v] \in Register
        BY BasicTypes DEF Register, NoRecord, ZeroHLC, HLC
      <3>2. regs \in [Keys -> Register]
        BY <3>1, BasicTypes
      <3>3. [Blank.node EXCEPT !.wall = w] \in HLC
        BY ClockAssumption DEF Blank, ZeroHLC, HLC
      <3>4. snap = [Blank EXCEPT !.version = 1, !.node = [Blank.node EXCEPT !.wall = w],
                                 !.records = regs]
        BY <2>2 DEF Blank
      <3> HIDE DEF regs
      <3> QED
        BY <3>2, <3>3, <3>4, BasicTypes DEF Data
    <2> QED
      BY <2>1, <2>2 DEF Init
  <1>2. \A k \in Keys : Upgraded(snap).records[k] \in Register
    BY <1>1, UpgradedType, DataFields
  <1>3. valid \in [Keys -> SUBSET Register]
    BY <1>2 DEF Init
  <1>4. Blank.version = 2
    BY DEF Blank
  <1>5. errors \in 0 .. MaxErrors /\ serverRef \in Nat /\ stamps \subseteq HLC
    <2>1. errors = 0 /\ serverRef = 0 /\ stamps = {}
      BY Zenon DEF Init
    <2> QED
      BY <2>1, BoundAssumption
  <1>6. mem \in Data /\ journal \in [Keys -> Register] /\ relay \in [Keys -> Register]
    BY BasicTypes DEF Init
  <1>7. up \in BOOLEAN /\ dirty \in BOOLEAN /\ torn \in BOOLEAN /\ behind \in BOOLEAN
    BY DEF Init
  <1>8. mem.version = 2
    BY <1>4 DEF Init
  <1> QED
    BY <1>1, <1>3, <1>5, <1>6, <1>7, <1>8 DEF TypeInv, TypeOK, Version2

(* loadSession's session, before the replay.                               *)
Seeded(seed) ==
    [Upgraded(snap) EXCEPT
        !.node = [wall |-> seed.wall, ctr |-> seed.ctr, dev |-> Self, nonce |-> 0]]

LEMMA SeededType ==
  ASSUME TypeOK, NEW now \in Walls, NEW seed \in Seeds(Upgraded(snap), now)
  PROVE  /\ Seeded(seed) \in Data /\ Seeded(seed).version = 2
         /\ Seeded(seed).records = Upgraded(snap).records
         /\ Seeded(seed).node.wall = seed.wall /\ Seeded(seed).node.ctr = seed.ctr
         /\ seed \in HLC
  <1>1. Upgraded(snap) \in Data /\ Upgraded(snap).version = 2
    BY UpgradedType DEF TypeOK
  <1>2. seed \in HLC
    BY <1>1, SeedType
  <1> DEFINE node == [wall |-> seed.wall, ctr |-> seed.ctr, dev |-> Self, nonce |-> 0]
  <1>3. node \in HLC /\ node.wall = seed.wall /\ node.ctr = seed.ctr
    BY <1>2, SelfAssumption DEF HLC
  <1>4. Seeded(seed) = [Upgraded(snap) EXCEPT !.node = node]
    BY DEF Seeded
  <1> HIDE DEF node
  <1> QED
    BY <1>1, <1>2, <1>3, <1>4 DEF Data

LEMMA LoadType ==
  ASSUME TypeInv, Load
  PROVE  TypeInv'
  <1>1. PICK now \in Walls : \E seed \in Seeds(Upgraded(snap), now) : \E end \in Ends(errors) :
          /\ IF end = "fails"
             THEN UNCHANGED <<process, disk, history>>
             ELSE /\ SaveLocked(Replayed(Seeded(seed), journal), end, torn)
                  /\ serverRef' = 0
                  /\ behind' = (journal # NoEntries)
                  /\ UNCHANGED valid
          /\ errors' = errors + Failures(end)
    BY DEF Load, Seeded
  <1>2. PICK seed \in Seeds(Upgraded(snap), now), end \in Ends(errors) :
          /\ IF end = "fails"
             THEN UNCHANGED <<process, disk, history>>
             ELSE /\ SaveLocked(Replayed(Seeded(seed), journal), end, torn)
                  /\ serverRef' = 0
                  /\ behind' = (journal # NoEntries)
                  /\ UNCHANGED valid
          /\ errors' = errors + Failures(end)
    BY <1>1
  <1>3. errors' \in 0 .. MaxErrors /\ UNCHANGED <<relay, stamps>>
    BY <1>2, EndsCount DEF Load, TypeInv, TypeOK
  <1>4. CASE end = "fails"
    BY <1>2, <1>3, <1>4 DEF TypeInv, TypeOK, Version2, process, disk, history
  <1>5. CASE end # "fails"
    <2>1. /\ Replayed(Seeded(seed), journal) \in Data
          /\ Replayed(Seeded(seed), journal).version = 2
      BY SeededType, ReplayedType DEF TypeInv, TypeOK
    <2>2. SaveLocked(Replayed(Seeded(seed), journal), end, torn)
      BY <1>2, <1>5
    <2>3. /\ snap' \in Data /\ mem' \in Data /\ mem'.version = 2
          /\ journal' \in [Keys -> Register]
          /\ torn' \in BOOLEAN /\ up' \in BOOLEAN /\ dirty' \in BOOLEAN
      BY <2>1, <2>2, SaveType DEF TypeInv, TypeOK
    <2> QED
      BY <1>2, <1>3, <1>5, <2>3 DEF TypeInv, TypeOK, Version2
  <1> QED
    BY <1>4, <1>5

LEMMA CloseType ==
  ASSUME TypeInv, Close
  PROVE  TypeInv'
  <1>0. mem' = Blank /\ Blank.version = 2
    BY DEF Close, Blank
  <1>1. CASE dirty
    <2>1. PICK end \in Ends(errors) :
               /\ snap' = IF end = "fails" THEN snap ELSE mem
               /\ journal' = IF end = "saved" THEN NoEntries ELSE journal
               /\ torn' = (torn /\ end # "saved")
               /\ errors' = errors + Failures(end)
      BY <1>1 DEF Close
    <2>2. errors' \in 0 .. MaxErrors
      BY <2>1, EndsCount DEF TypeInv, TypeOK
    <2> QED
      BY <1>0, <2>1, <2>2, BasicTypes
      DEF Close, TypeInv, TypeOK, Version2, process, disk, history
  <1>2. CASE ~dirty
    BY <1>0, <1>2, BasicTypes DEF Close, TypeInv, TypeOK, Version2, process, disk, history
  <1> QED
    BY <1>1, <1>2

LEMMA DecisionType ==
  ASSUME TypeInv, NEW k \in Keys, SetDecision(k)
  PROVE  TypeInv'
  <1>1. PICK v \in Values, now \in Walls, nonce \in Nonces, append \in AppendEnds :
           LET clock == NextClock(now)
               data  == Decided(k, v, clock, nonce)
           IN  /\ data.records[k].hlc \notin stamps
               /\ stamps' = stamps \union {data.records[k].hlc}
               /\ behind' = (behind \/ (serverRef > 0 /\ mem.node.wall > serverRef + MaxSkew))
               /\ \/ append = "written" /\ Journalled(data, k)
                  \/ /\ append \in {"nothing", "torn"}
                     /\ \E end \in Ends(errors + 1) :
                            FellBack(data, k, end, torn \/ append = "torn")
                  \/ append = "dies" /\ DiedAppending
    BY DEF SetDecision
  <1> DEFINE data == Decided(k, v, NextClock(now), nonce)
  <1>0. NextClock(now) \in HLC
    BY NextClockType DEF TypeInv
  <1>20. data \in Data /\ data.version = mem.version
    <2>1. \A c \in HLC : Decided(k, v, c, nonce) \in Data
                          /\ Decided(k, v, c, nonce).version = mem.version
      BY DecidedType DEF TypeInv
    <2> QED
      BY <1>0, <2>1
  <1>2. data \in Data /\ data.version = 2 /\ data.records \in [Keys -> Register]
    BY <1>20, DataFields DEF TypeInv, Version2
  <1>3. stamps' \subseteq HLC
    BY <1>1, <1>2, BasicTypes DEF TypeInv, TypeOK
  <1>4. behind' \in BOOLEAN /\ relay' = relay
    BY <1>1 DEF SetDecision, TypeInv, TypeOK
  <1> HIDE DEF data
  <1>5. CASE append = "written" /\ Journalled(data, k)
    BY <1>2, <1>3, <1>4, <1>5 DEF Journalled, TypeInv, TypeOK, Version2
  <1>6. CASE /\ append \in {"nothing", "torn"}
             /\ \E end \in Ends(errors + 1) :
                    FellBack(data, k, end, torn \/ append = "torn")
    <2>1. PICK end \in Ends(errors + 1) : FellBack(data, k, end, torn \/ append = "torn")
      BY <1>6
    <2>2. errors + 1 \in 0 .. MaxErrors
      BY <1>6, BoundAssumption DEF AppendEnds, TypeInv, TypeOK
    <2>3. errors' \in 0 .. MaxErrors
      BY <2>1, <2>2, EndsCount DEF FellBack
    <2>4. /\ snap' \in Data /\ mem' \in Data /\ mem'.version = 2
          /\ journal' \in [Keys -> Register]
          /\ torn' \in BOOLEAN /\ up' \in BOOLEAN /\ dirty' \in BOOLEAN
      BY <1>2, <2>1, SaveType DEF FellBack, TypeInv, TypeOK
    <2>5. valid' \in [Keys -> SUBSET Register] /\ serverRef' \in Nat
      BY <1>2, <2>1 DEF FellBack, TypeInv, TypeOK
    <2> QED
      BY <1>3, <1>4, <2>3, <2>4, <2>5 DEF TypeInv, TypeOK, Version2
  <1>7. CASE append = "dies" /\ DiedAppending
    BY <1>3, <1>4, <1>7, BasicTypes DEF DiedAppending, TypeInv, TypeOK, Version2, Blank
  <1> QED
    BY <1>1, <1>5, <1>6, <1>7 DEF data

(* The merge of a pull.                                                    *)
Pulled(some, clock) ==
    [Adopted(Rows(some), {}, clock) EXCEPT
        !.known = [k \in Keys |-> IF k \in some THEN relay[k] ELSE @[k]]]

LEMMA PulledType ==
  ASSUME TypeInv, NEW some, NEW clock, MergedClock(Rows(some), clock)
  PROVE  /\ Pulled(some, clock) \in Data /\ Pulled(some, clock).version = 2
         /\ Pulled(some, clock).node = clock
         /\ Pulled(some, clock).records = Adopted(Rows(some), {}, clock).records
         /\ Rows(some) \in [Keys -> Register] /\ clock \in HLC
  <1>1. Rows(some) \in [Keys -> Register]
    BY BasicTypes DEF Rows, TypeInv, TypeOK
  <1>2. clock \in HLC
    BY <1>1, MergedClockType DEF TypeInv
  <1> DEFINE base == Adopted(Rows(some), {}, clock)
             known == [k \in Keys |-> IF k \in some THEN relay[k] ELSE base.known[k]]
  <1>3. base \in Data /\ base.version = 2 /\ base.node = clock
    BY <1>1, <1>2, AdoptedType DEF TypeInv, Version2
  <1>4. known \in [Keys -> Register]
    BY <1>3, DataFields DEF TypeInv, TypeOK
  <1>5. Pulled(some, clock) = [base EXCEPT !.known = known]
    BY DEF Pulled
  <1> HIDE DEF base, known
  <1>6. /\ Pulled(some, clock) \in Data /\ Pulled(some, clock).version = 2
        /\ Pulled(some, clock).node = clock
        /\ Pulled(some, clock).records = base.records
    BY <1>3, <1>4, <1>5 DEF Data
  <1> QED
    BY <1>1, <1>2, <1>6 DEF base

LEMMA ResetType ==
  ASSUME TypeInv
  PROVE  LET data == [mem EXCEPT !.acked = [k \in Keys |-> FALSE], !.known = NoEntries]
         IN  data \in Data /\ data.version = 2 /\ data.records = mem.records
             /\ data.node = mem.node
  BY BasicTypes DEF TypeInv, TypeOK, Version2, Data

LEMMA AckRowsType ==
  ASSUME TypeInv
  PROVE  [k \in Keys |-> IF k \in Outbox THEN AfterPush[k] ELSE NoRecord] \in [Keys -> Register]
  BY AfterPushType, BasicTypes DEF TypeInv

(* The data the two merges save is well typed.                              *)
LEMMA ApplySaves ==
  ASSUME TypeInv, ApplyRemote
  PROVE  \E some \in SUBSET Keys, now \in ServerNows, clock \in HLC :
           /\ MergedClock(Rows(some), clock)
           /\ Pulled(some, clock) \in Data /\ Pulled(some, clock).version = 2
           /\ SaveIgnored(Pulled(some, clock), Later(serverRef, now))
  <1>1. PICK some \in SUBSET {k \in Keys : relay[k] # mem.known[k]}, now \in ServerNows :
          \E clock \in {mem.node} \union {relay[k].hlc : k \in some} :
              /\ MergedClock(Rows(some), clock)
              /\ SaveIgnored(Pulled(some, clock), Later(serverRef, now))
    BY Zenon DEF ApplyRemote, Pulled
  <1>2. PICK clock \in {mem.node} \union {relay[k].hlc : k \in some} :
          /\ MergedClock(Rows(some), clock)
          /\ SaveIgnored(Pulled(some, clock), Later(serverRef, now))
    BY <1>1
  <1>3. clock \in HLC /\ Pulled(some, clock) \in Data /\ Pulled(some, clock).version = 2
    BY <1>2, PulledType
  <1> QED
    BY <1>2, <1>3

AckRows == [k \in Keys |-> IF k \in Outbox THEN AfterPush[k] ELSE NoRecord]
Acks == {k \in Outbox : mem.records[k].hlc = AckRows[k].hlc}

LEMMA AckSaves ==
  ASSUME TypeInv, AckPush
  PROVE  \E now \in ServerNows, clock \in HLC :
           /\ MergedClock(AckRows, clock)
           /\ Adopted(AckRows, Acks, clock) \in Data
           /\ Adopted(AckRows, Acks, clock).version = 2
           /\ SaveIgnored(Adopted(AckRows, Acks, clock), Later(serverRef, now))
  <1>1. PICK now \in ServerNows,
               clock \in {mem.node} \union {AckRows[k].hlc : k \in Outbox} :
          /\ MergedClock(AckRows, clock)
          /\ SaveIgnored(Adopted(AckRows, Acks, clock), Later(serverRef, now))
    BY DEF AckPush, AckRows, Acks
  <1>2. AckRows \in [Keys -> Register] /\ TypeOK
    BY AckRowsType DEF AckRows, TypeInv
  <1>3. clock \in HLC
    BY <1>1, <1>2, MergedClockType
  <1>4. Adopted(AckRows, Acks, clock) \in Data /\ Adopted(AckRows, Acks, clock).version = 2
    BY <1>2, <1>3, AdoptedType DEF TypeInv, Version2
  <1> QED
    BY <1>1, <1>3, <1>4

LEMMA TypeStep == TypeInv /\ [Next]_vars => TypeInv'
  <1> SUFFICES ASSUME TypeInv, [Next]_vars PROVE TypeInv'
    OBVIOUS
  <1>0. mem \in Data /\ mem.version = 2 /\ serverRef \in Nat
        /\ relay \in [Keys -> Register]
    BY DEF TypeInv, TypeOK, Version2
  <1>1. CASE Load
    BY <1>1, LoadType
  <1>2. CASE Kill
    BY <1>2, BasicTypes
    DEF Kill, TypeInv, TypeOK, Version2, Blank, disk, history
  <1>3. CASE Close
    BY <1>3, CloseType
  <1>4. CASE Snapshot \/ Resave
    BY <1>0, <1>4, SaveIgnoredType DEF Snapshot, Resave
  <1>5. CASE SetCursor
    BY <1>5 DEF SetCursor, TypeInv, TypeOK, Version2, disk, history
  <1>6. ASSUME NEW k \in Keys, SetDecision(k) PROVE TypeInv'
    BY <1>6, DecisionType
  <1>7. CASE ApplyRemote
    <2>1. \A now \in ServerNows : Later(serverRef, now) \in Nat
      BY <1>0, ClockAssumption DEF Later
    <2> QED
      BY <1>0, <1>7, <2>1, ApplySaves, SaveIgnoredType DEF ApplyRemote
  <1>8. CASE PushArrives
    BY <1>8, AfterPushType DEF PushArrives, TypeInv, TypeOK, Version2, process, disk, history
  <1>9. CASE AckPush
    <2>1. \A now \in ServerNows : Later(serverRef, now) \in Nat
      BY <1>0, ClockAssumption DEF Later
    <2>2. relay' \in [Keys -> Register] /\ UNCHANGED <<stamps, behind>>
      BY <1>9, AfterPushType DEF AckPush, TypeInv
    <2> QED
      BY <1>9, <2>1, <2>2, AckSaves, SaveIgnoredType
  <1>10. CASE ResetForEpoch
    BY <1>0, <1>10, ResetType, SaveIgnoredType DEF ResetForEpoch
  <1>11. ASSUME NEW k \in Keys, OtherPush(k) PROVE TypeInv'
    BY <1>11, BasicTypes DEF OtherPush, TypeInv, TypeOK, Version2, process, disk, history
  <1>13. CASE HearClock
    <2>1. \A now \in ServerNows : Later(serverRef, now) \in Nat
      BY <1>0, ClockAssumption DEF Later
    <2> QED
      BY <1>13, <2>1 DEF HearClock, TypeInv, TypeOK, Version2, disk, history
  <1>12. CASE UNCHANGED vars
    BY <1>12 DEF TypeInv, TypeOK, Version2, vars, process, disk, history
  <1> QED
    BY <1>1, <1>2, <1>3, <1>4, <1>5, <1>6, <1>7, <1>8, <1>9, <1>10, <1>11, <1>12, <1>13
    DEF Next

(* The session, its files and the relay keep their types, whatever fails.  *)
THEOREM SessionTypes == Spec => []TypeOK
  <1>1. TypeInv => TypeOK
    BY DEF TypeInv
  <1> QED
    BY <1>1, TypeInit, TypeStep, PTL DEF Spec

-----------------------------------------------------------------------------
(* Durability.  As long as a decision that was not journalled is saved, the *)
(* journal of a running session ends in a whole line, so what is appended   *)
(* to it can be read.                                                       *)

Durable ==
    /\ TypeInv
    /\ DecisionsSurvive
    /\ up => ~torn /\ \A k \in Keys : mem.records[k] \in valid[k]

(* A running session can always save what it could not append.              *)
MayAppend ==
    /\ "remove" \notin Faults
    /\ MaxErrors <= 1 \/ "append" \notin Faults \/ "save" \notin Faults

(* A save puts what the session holds in place of the snapshot, or leaves   *)
(* everything; the journal goes or stays.                                   *)
LEMMA SaveDurable ==
  ASSUME NEW data \in Data, data.version = 2, NEW end, NEW half, NEW k \in Keys,
         SaveLocked(data, end, half)
  PROVE  \/ Recovered(k)' = Recovered(k)
         \/ Recovered(k)' = data.records[k]
  <1>1. Upgraded(data) = data
    BY DEF Upgraded
  <1>2. CASE end = "fails"
    BY <1>2 DEF SaveLocked, Recovered
  <1>3. CASE end = "saved"
    BY <1>1, <1>3 DEF SaveLocked, Recovered, NoEntries
  <1>4. CASE end \notin {"fails", "saved"}
    BY <1>1, <1>4 DEF SaveLocked, Recovered
  <1> QED
    BY <1>2, <1>3, <1>4

LEMMA SaveIgnoredDurable ==
  ASSUME MayAppend, Durable, TypeInv', up,
         NEW data \in Data, data.version = 2, NEW ref, SaveIgnored(data, ref)
  PROVE  Durable'
  <1>1. PICK end \in Ends(errors) :
          /\ SaveLocked(data, end, torn)
          /\ valid' = [k \in Keys |-> valid[k] \union {data.records[k]}]
    BY DEF SaveIgnored
  <1>2. ASSUME NEW k \in Keys PROVE Recovered(k)' \in valid'[k]
    <2>1. Recovered(k) \in valid[k] /\ valid'[k] = valid[k] \union {data.records[k]}
      BY <1>1 DEF Durable, DecisionsSurvive
    <2> QED
      BY <1>1, <2>1, SaveDurable
  <1>3. up' => ~torn' /\ \A k \in Keys : mem'.records[k] \in valid'[k]
    BY <1>1 DEF SaveLocked, Durable
  <1> QED
    BY <1>2, <1>3 DEF Durable, DecisionsSurvive

LEMMA DurableInit == Init => Durable
  <1> SUFFICES ASSUME Init PROVE Durable
    OBVIOUS
  <1>1. /\ up = FALSE /\ journal = NoEntries
        /\ valid = [k \in Keys |-> {Upgraded(snap).records[k]}]
    BY Zenon DEF Init
  <1> QED
    BY <1>1, TypeInit DEF Durable, DecisionsSurvive, Recovered, NoEntries

(* loadSession puts what it recovers in memory.                             *)
LEMMA LoadRecovers ==
  ASSUME TypeOK, NEW now \in Walls, NEW seed \in Seeds(Upgraded(snap), now), NEW k \in Keys
  PROVE  Replayed(Seeded(seed), journal).records[k] = Recovered(k)
  <1>1. Seeded(seed) \in Data /\ Seeded(seed).records = Upgraded(snap).records
    BY SeededType
  <1>2. Replayed(Seeded(seed), journal).records =
          [j \in Keys |-> IF journal[j] # NoRecord THEN journal[j] ELSE Seeded(seed).records[j]]
    BY <1>1 DEF Replayed, Data
  <1> QED
    BY <1>1, <1>2 DEF Recovered

LEMMA LoadDurable ==
  ASSUME MayAppend, Durable, TypeInv', Load
  PROVE  Durable'
  <1>1. PICK now \in Walls : \E seed \in Seeds(Upgraded(snap), now) : \E end \in Ends(errors) :
          IF end = "fails"
          THEN UNCHANGED <<process, disk, history>>
          ELSE /\ SaveLocked(Replayed(Seeded(seed), journal), end, torn)
               /\ UNCHANGED valid
    BY DEF Load, Seeded
  <1>2. PICK seed \in Seeds(Upgraded(snap), now), end \in Ends(errors) :
          IF end = "fails"
          THEN UNCHANGED <<process, disk, history>>
          ELSE /\ SaveLocked(Replayed(Seeded(seed), journal), end, torn)
               /\ UNCHANGED valid
    BY <1>1
  <1>3. CASE end = "fails"
    BY <1>2, <1>3 DEF Durable, DecisionsSurvive, Recovered, process, disk, history
  <1>4. CASE end # "fails"
    <2> DEFINE data == Replayed(Seeded(seed), journal)
    <2>0. TypeOK /\ journal \in [Keys -> Register]
      BY DEF Durable, TypeInv, TypeOK
    <2>1. data \in Data /\ data.version = 2
      BY <2>0, SeededType, ReplayedType
    <2>2. \A k \in Keys : data.records[k] = Recovered(k)
      BY LoadRecovers DEF Durable, TypeInv
    <2>3. SaveLocked(data, end, torn) /\ valid' = valid
      BY <1>2, <1>4
    <2> HIDE DEF data
    <2>4. ASSUME NEW k \in Keys PROVE Recovered(k)' \in valid'[k]
      BY <2>1, <2>2, <2>3, SaveDurable DEF Durable, DecisionsSurvive
    <2>5. end \in {"saved", "dies"}
      BY <1>4 DEF Ends, MayAppend
    <2>6. up' => ~torn' /\ \A k \in Keys : mem'.records[k] \in valid'[k]
      BY <2>2, <2>3, <2>5 DEF SaveLocked, Durable, DecisionsSurvive
    <2> QED
      BY <2>4, <2>6 DEF Durable, DecisionsSurvive
  <1> QED
    BY <1>3, <1>4

LEMMA CloseDurable ==
  ASSUME Durable, TypeInv', Close
  PROVE  Durable'
  <1>0. up /\ ~up' /\ valid' = valid
    BY DEF Close, history
  <1>1. Upgraded(mem) = mem
    BY DEF Upgraded, Durable, TypeInv, Version2
  <1>2. ASSUME NEW k \in Keys PROVE Recovered(k)' \in valid[k]
    <2>1. Recovered(k) \in valid[k] /\ mem.records[k] \in valid[k]
      BY <1>0 DEF Durable, DecisionsSurvive
    <2>2. CASE snap' = snap /\ journal' = journal
      BY <2>1, <2>2 DEF Recovered
    <2>3. CASE snap' = mem /\ journal' \in {journal, NoEntries}
      BY <1>1, <2>1, <2>3 DEF Recovered, NoEntries
    <2> QED
      BY <2>2, <2>3 DEF Close, disk
  <1> QED
    BY <1>0, <1>2 DEF Durable, DecisionsSurvive

LEMMA DecisionDurable ==
  ASSUME MayAppend, Durable, TypeInv', NEW k \in Keys, SetDecision(k)
  PROVE  Durable'
  <1>1. PICK v \in Values, now \in Walls, nonce \in Nonces, append \in AppendEnds :
           LET data  == Decided(k, v, NextClock(now), nonce)
           IN  \/ append = "written" /\ Journalled(data, k)
               \/ /\ append \in {"nothing", "torn"}
                  /\ \E end \in Ends(errors + 1) :
                         FellBack(data, k, end, torn \/ append = "torn")
               \/ append = "dies" /\ DiedAppending
    BY DEF SetDecision
  <1> DEFINE data == Decided(k, v, NextClock(now), nonce)
  <1>2. NextClock(now) \in HLC
    BY NextClockType DEF Durable, TypeInv
  <1>3. data \in Data /\ data.version = mem.version /\ data.records[k] \in Rec
        /\ \A j \in Keys \ {k} : data.records[j] = mem.records[j]
    <2>1. TypeOK
      BY DEF Durable, TypeInv
    <2>2. data \in Data /\ data.version = mem.version
          /\ data.records[k] = Chosen(v, NextClock(now), nonce)
          /\ \A j \in Keys \ {k} : data.records[j] = mem.records[j]
      BY <1>2, <2>1, DecidedType
    <2> QED
      BY <1>2, <2>2, ChosenType
  <1>4. data.version = 2 /\ data.records[k] # NoRecord
    BY <1>3, BasicTypes DEF Durable, TypeInv, Version2
  <1>5. up /\ ~torn /\ (\A j \in Keys : Recovered(j) \in valid[j] /\ mem.records[j] \in valid[j])
        /\ valid \in [Keys -> SUBSET Register] /\ journal \in [Keys -> Register]
    BY DEF SetDecision, Durable, DecisionsSurvive, TypeInv, TypeOK
  <1> HIDE DEF data
  <1>6. CASE append = "written" /\ Journalled(data, k)
    <2>1. /\ mem' = data /\ snap' = snap /\ ~torn'
          /\ journal' = [journal EXCEPT ![k] = data.records[k]]
          /\ valid' = [valid EXCEPT ![k] = {data.records[k]}]
      BY <1>5, <1>6 DEF Journalled
    <2>2. \A j \in Keys : Recovered(j)' \in valid'[j]
      BY <1>4, <1>5, <2>1 DEF Recovered
    <2>3. \A j \in Keys : mem'.records[j] \in valid'[j]
      BY <1>3, <1>5, <2>1
    <2> QED
      BY <2>1, <2>2, <2>3 DEF Durable, DecisionsSurvive
  <1>7. CASE /\ append \in {"nothing", "torn"}
             /\ \E end \in Ends(errors + 1) :
                    FellBack(data, k, end, torn \/ append = "torn")
    <2>1. PICK end \in Ends(errors + 1) : FellBack(data, k, end, torn \/ append = "torn")
      BY <1>7
    <2>2. "append" \in Faults /\ errors < MaxErrors /\ errors \in Nat /\ MaxErrors \in Nat
      BY <1>7, BoundAssumption DEF AppendEnds, Durable, TypeInv, TypeOK
    <2>3. end \in {"saved", "dies"}
      BY <2>2 DEF Ends, MayAppend
    <2>4. SaveLocked(data, end, torn \/ append = "torn")
          /\ valid' = [valid EXCEPT ![k] = IF Reported(end) THEN {data.records[k]}
                                           ELSE @ \union {data.records[k]}]
      BY <2>1 DEF FellBack
    <2>5. data.records[k] \in valid'[k]
      BY <1>5, <2>4
    <2>6. \A j \in Keys : data.records[j] \in valid'[j]
      BY <1>3, <1>5, <2>4, <2>5
    <2>7. ASSUME NEW j \in Keys PROVE Recovered(j)' \in valid'[j]
      <3>1. CASE end = "saved"
        <4>1. Recovered(j)' = data.records[j]
          BY <1>4, <2>4, <3>1 DEF SaveLocked, Recovered, NoEntries, Upgraded
        <4> QED
          BY <2>6, <4>1
      <3>2. CASE end = "dies"
        <4>1. valid[j] \subseteq valid'[j]
          BY <1>5, <2>4, <3>2 DEF Reported
        <4>2. Recovered(j)' \in {Recovered(j), data.records[j]}
          BY <1>3, <1>4, <2>4, SaveDurable
        <4> QED
          BY <1>5, <2>6, <4>1, <4>2
      <3> QED
        BY <2>3, <3>1, <3>2
    <2>8. up' => ~torn' /\ mem' = data
      BY <2>3, <2>4 DEF SaveLocked
    <2> QED
      BY <2>6, <2>7, <2>8 DEF Durable, DecisionsSurvive
  <1>8. CASE append = "dies" /\ DiedAppending
    BY <1>5, <1>8 DEF DiedAppending, Durable, DecisionsSurvive, Recovered
  <1> QED
    BY <1>1, <1>6, <1>7, <1>8 DEF data

LEMMA DurableStep ==
  ASSUME MayAppend
  PROVE  Durable /\ [Next]_vars => Durable'
  <1> SUFFICES ASSUME Durable, [Next]_vars PROVE Durable'
    OBVIOUS
  <1>0. TypeInv /\ TypeInv' /\ mem \in Data /\ mem.version = 2
    BY TypeStep DEF Durable, TypeInv, TypeOK, Version2
  <1>1. CASE Load
    BY <1>0, <1>1, LoadDurable
  <1>2. CASE Kill
    BY <1>0, <1>2 DEF Kill, Durable, DecisionsSurvive, Recovered, disk, history
  <1>3. CASE Close
    BY <1>0, <1>3, CloseDurable
  <1>4. CASE Snapshot \/ Resave
    BY <1>0, <1>4, SaveIgnoredDurable DEF Snapshot, Resave
  <1>5. CASE SetCursor \/ HearClock
    BY <1>0, <1>5 DEF SetCursor, HearClock, Durable, DecisionsSurvive, Recovered, disk, history
  <1>6. ASSUME NEW k \in Keys, SetDecision(k) PROVE Durable'
    BY <1>0, <1>6, DecisionDurable
  <1>7. CASE ApplyRemote
    BY <1>0, <1>7, ApplySaves, SaveIgnoredDurable DEF ApplyRemote
  <1>8. CASE AckPush
    BY <1>0, <1>8, AckSaves, SaveIgnoredDurable DEF AckPush
  <1>9. CASE ResetForEpoch
    BY <1>0, <1>9, ResetType, SaveIgnoredDurable DEF ResetForEpoch
  <1>10. CASE PushArrives \/ \E k \in Keys : OtherPush(k)
    BY <1>0, <1>10
    DEF PushArrives, OtherPush, Durable, DecisionsSurvive, Recovered, process, disk, history
  <1>11. CASE UNCHANGED vars
    BY <1>0, <1>11 DEF Durable, DecisionsSurvive, Recovered, vars, process, disk, history
  <1> QED
    BY <1>1, <1>2, <1>3, <1>4, <1>5, <1>6, <1>7, <1>8, <1>9, <1>10, <1>11 DEF Next

(* A decision reported as saved is found by the next start, wherever the    *)
(* process is killed and whatever is merged, unless the journal cannot be   *)
(* removed or two file operations fail one after the other.                 *)
THEOREM SessionDurable ==
  ASSUME MayAppend
  PROVE  Spec => []DecisionsSurvive
  <1>1. Durable => DecisionsSurvive
    BY DEF Durable
  <1> QED
    BY <1>1, DurableInit, DurableStep, PTL DEF Spec

-----------------------------------------------------------------------------
(* Clocks.  Unless it is known to be behind, the node clock is not before   *)
(* the clock of any register the session holds.                             *)

NotAfter(a, b) == a.wall < b.wall \/ (a.wall = b.wall /\ a.ctr <= b.ctr)

NodeCovers == up /\ ~behind => \A k \in Keys : NotAfter(mem.records[k].hlc, mem.node)

ClockInv == TypeInv /\ NodeCovers

LEMMA NotAfterTransitive ==
  \A a, b, c \in HLC : NotAfter(a, b) /\ NotAfter(b, c) => NotAfter(a, c)
  BY DEF NotAfter, HLC

LEMMA NotLessNotAfter ==
  \A a, b \in HLC : ~Less(a, b) => NotAfter(b, a)
  BY DEF NotAfter, Less, HLC

(* A tick that is not clamped below the node clock moves it on.             *)
LEMMA TickAdvances ==
  ASSUME NEW node \in HLC, NEW now \in Nat, NEW ceil \in Nat,
         ceil > 0 => node.wall <= ceil
  PROVE  LET clock == Tick(node, Self, now, ceil)
         IN  clock.wall > node.wall \/ (clock.wall = node.wall /\ clock.ctr > node.ctr)
  BY DEF Tick, HLC

(* What loadSession seeds the clock with is not before any register.        *)
LEMMA SeedCovers ==
  ASSUME TypeOK, NEW now \in Walls, NEW seed \in Seeds(Upgraded(snap), now),
         \A s \in Seeds(Upgraded(snap), now) : ~Less(seed, s),
         NEW k \in Keys
  PROVE  NotAfter(Seeded(seed).records[k].hlc, Seeded(seed).node)
  <1>1. Upgraded(snap) \in Data
    BY UpgradedType DEF TypeOK
  <1>2. Upgraded(snap).records[k].hlc \in Seeds(Upgraded(snap), now)
    BY DEF Seeds
  <1>3. Upgraded(snap).records[k].hlc \in HLC /\ seed \in HLC
    BY <1>1, <1>2, SeedType
  <1>4. NotAfter(Upgraded(snap).records[k].hlc, seed)
    BY <1>2, <1>3, NotLessNotAfter
  <1> QED
    BY <1>4, SeededType DEF NotAfter

(* A merge moves the clock past all it takes.                               *)
LEMMA AdoptedCovers ==
  ASSUME TypeOK, NEW rows \in [Keys -> Register], NEW clock \in HLC, MergedClock(rows, clock),
         \A k \in Keys : NotAfter(mem.records[k].hlc, mem.node), NEW k \in Keys
  PROVE  NotAfter(Adopted(rows, {}, clock).records[k].hlc, clock)
  <1>1. /\ mem.node \in HLC /\ mem.records[k].hlc \in HLC /\ rows[k].hlc \in HLC
    BY DataFields, BasicTypes DEF TypeOK
  <1>2. CASE rows[k] # NoRecord /\ RecordWins(rows[k], mem.records[k])
    <2>1. ~Less(clock, rows[k].hlc)
      BY <1>2 DEF MergedClock
    <2>2. NotAfter(rows[k].hlc, clock)
      BY <1>1, <2>1, NotLessNotAfter
    <2> QED
      BY <1>2, <2>2, AdoptedType
  <1>3. CASE ~(rows[k] # NoRecord /\ RecordWins(rows[k], mem.records[k]))
    <2>1. ~Less(clock, mem.node)
      BY DEF MergedClock
    <2>2. NotAfter(mem.node, clock)
      BY <1>1, <2>1, NotLessNotAfter
    <2>3. NotAfter(mem.records[k].hlc, clock)
      BY <1>1, <2>2, NotAfterTransitive
    <2> QED
      BY <1>3, <2>3, AdoptedType
  <1> QED
    BY <1>2, <1>3

(* Registers do not depend on the acknowledgements.                         *)
LEMMA AdoptedRecords ==
  ASSUME TypeOK, NEW rows \in [Keys -> Register], NEW acks, NEW clock \in HLC
  PROVE  Adopted(rows, acks, clock).records = Adopted(rows, {}, clock).records
  <1> DEFINE won == {k \in Keys : rows[k] # NoRecord /\ RecordWins(rows[k], mem.records[k])}
             regs == [k \in Keys |-> IF k \in won THEN rows[k] ELSE mem.records[k]]
  <1>1. mem \in Data
    BY DEF TypeOK
  <1>2. Adopted(rows, acks, clock).records = regs
    BY <1>1 DEF Adopted, Data
  <1>3. Adopted(rows, {}, clock).records = regs
    BY <1>1 DEF Adopted, Data
  <1> QED
    BY <1>2, <1>3

(* What a save leaves in memory, if the process lives.                      *)
LEMMA SaveIgnoredKeeps ==
  ASSUME NEW data, NEW ref, SaveIgnored(data, ref), up'
  PROVE  mem' = data
  BY DEF SaveIgnored, SaveLocked

(* A decision of a session whose clock is not behind.                       *)
LEMMA DecisionClock ==
  ASSUME ClockInv, NEW k \in Keys, SetDecision(k), up', ~behind'
  PROVE  NodeCovers' /\ \A j \in Keys : Supersedes(j)
  <1>1. PICK v \in Values, now \in Walls, nonce \in Nonces :
           /\ behind' = (behind \/ (serverRef > 0 /\ mem.node.wall > serverRef + MaxSkew))
           /\ mem' = Decided(k, v, NextClock(now), nonce)
    <2>1. PICK v \in Values, now \in Walls, nonce \in Nonces, append \in AppendEnds :
           LET data  == Decided(k, v, NextClock(now), nonce)
           IN  /\ behind' = (behind \/ (serverRef > 0 /\ mem.node.wall > serverRef + MaxSkew))
               /\ \/ append = "written" /\ Journalled(data, k)
                  \/ /\ append \in {"nothing", "torn"}
                     /\ \E end \in Ends(errors + 1) :
                            FellBack(data, k, end, torn \/ append = "torn")
                  \/ append = "dies" /\ DiedAppending
      BY DEF SetDecision
    <2>2. mem' = Decided(k, v, NextClock(now), nonce)
      BY <2>1 DEF Journalled, FellBack, SaveLocked, DiedAppending
    <2> QED
      BY <2>1, <2>2
  <1>2. TypeOK /\ NextClock(now) \in HLC
    BY NextClockType DEF ClockInv, TypeInv
  <1>3. mem.node \in HLC /\ now \in Nat /\ serverRef \in Nat
        /\ \A j \in Keys : mem.records[j].hlc \in HLC /\ mem.records[j].mig \in BOOLEAN
    BY <1>2, DataFields, BasicTypes, ClockAssumption DEF TypeOK
  <1>4. up /\ ~behind /\ (serverRef > 0 => mem.node.wall <= serverRef + MaxSkew)
        /\ \A j \in Keys : NotAfter(mem.records[j].hlc, mem.node)
    <2>1. up
      BY DEF SetDecision
    <2>2. ~behind /\ ~(serverRef > 0 /\ mem.node.wall > serverRef + MaxSkew)
      BY <1>1
    <2>3. mem.node.wall \in Nat
      BY <1>3 DEF HLC
    <2>4. \A j \in Keys : NotAfter(mem.records[j].hlc, mem.node)
      BY <2>1, <2>2 DEF ClockInv, NodeCovers
    <2> QED
      BY <1>3, <2>1, <2>2, <2>3, <2>4, ClockAssumption
  <1> DEFINE ceil == IF serverRef > 0 THEN serverRef + MaxSkew ELSE 0
             clock == NextClock(now)
  <1>5. ceil \in Nat /\ (ceil > 0 => mem.node.wall <= ceil) /\ clock = Tick(mem.node, Self, now, ceil)
    BY <1>3, <1>4, ClockAssumption DEF NextClock
  <1> HIDE DEF ceil
  <1>6. clock.wall > mem.node.wall \/ (clock.wall = mem.node.wall /\ clock.ctr > mem.node.ctr)
    BY <1>3, <1>5, TickAdvances
  <1>12. clock \in HLC
    BY <1>2
  <1> HIDE DEF clock
  <1>7. /\ mem'.node = clock /\ mem'.records[k] = Chosen(v, clock, nonce)
        /\ \A j \in Keys \ {k} : mem'.records[j] = mem.records[j]
    BY <1>1, <1>2, DecidedType DEF clock
  <1>8. /\ mem'.records[k].hlc.wall = clock.wall /\ mem'.records[k].hlc.ctr = clock.ctr
        /\ mem'.records[k].mig = FALSE /\ clock \in HLC
    <2>1. /\ Chosen(v, clock, nonce).hlc.wall = clock.wall
          /\ Chosen(v, clock, nonce).hlc.ctr = clock.ctr
          /\ Chosen(v, clock, nonce).mig = FALSE
      BY <1>12, ChosenType
    <2> QED
      BY <1>7, <1>12, <2>1
  <1>9. \A j \in Keys : NotAfter(mem.records[j].hlc, mem.node)
                        => NotAfter(mem.records[j].hlc, clock)
                           /\ (j = k => Less(mem.records[j].hlc, mem'.records[k].hlc))
    BY <1>3, <1>6, <1>8 DEF NotAfter, Less, HLC
  <1>10. \A j \in Keys : NotAfter(mem'.records[j].hlc, mem'.node)
    <2>1. NotAfter(mem'.records[k].hlc, mem'.node)
      BY <1>7, <1>8 DEF NotAfter, HLC
    <2> QED
      BY <1>4, <1>7, <1>9, <2>1
  <1>11. RecordWins(mem'.records[k], mem.records[k])
    BY <1>3, <1>4, <1>8, <1>9 DEF RecordWins, Wins
  <1> QED
    BY <1>7, <1>10, <1>11 DEF NodeCovers, Supersedes

(* A merge that the session lives through.                                  *)
LEMMA MergeClock ==
  ASSUME ClockInv, up, up', behind' = behind,
         NEW rows \in [Keys -> Register], NEW clock \in HLC, MergedClock(rows, clock),
         mem'.records = Adopted(rows, {}, clock).records, mem'.node = clock
  PROVE  NodeCovers' /\ \A j \in Keys : Supersedes(j)
  <1>1. NodeCovers'
    BY AdoptedCovers DEF ClockInv, TypeInv, NodeCovers
  <1>2. \A j \in Keys : Supersedes(j)
    BY AdoptedType DEF Supersedes, ClockInv, TypeInv
  <1> QED
    BY <1>1, <1>2

(* A step that changes no register, nor the clock.                          *)
LEMMA SameClock ==
  ASSUME ClockInv, behind' = behind, up' => up /\ mem'.records = mem.records /\ mem'.node = mem.node
  PROVE  NodeCovers' /\ \A j \in Keys : Supersedes(j)
  BY DEF ClockInv, NodeCovers, Supersedes

LEMMA LoadClock ==
  ASSUME ClockInv, Load
  PROVE  NodeCovers' /\ \A j \in Keys : Supersedes(j)
  <1>1. \A j \in Keys : Supersedes(j)
    BY DEF Load, Supersedes
  <1>2. ASSUME up', ~behind' PROVE \A k \in Keys : NotAfter(mem'.records[k].hlc, mem'.node)
    <2>1. PICK now \in Walls : \E seed \in Seeds(Upgraded(snap), now) : \E end \in Ends(errors) :
            /\ \A s \in Seeds(Upgraded(snap), now) : ~Less(seed, s)
            /\ IF end = "fails"
               THEN UNCHANGED <<process, disk, history>>
               ELSE /\ SaveLocked(Replayed(Seeded(seed), journal), end, torn)
                    /\ behind' = (journal # NoEntries)
      BY DEF Load, Seeded
    <2>2. PICK seed \in Seeds(Upgraded(snap), now), end \in Ends(errors) :
            /\ \A s \in Seeds(Upgraded(snap), now) : ~Less(seed, s)
            /\ IF end = "fails"
               THEN UNCHANGED <<process, disk, history>>
               ELSE /\ SaveLocked(Replayed(Seeded(seed), journal), end, torn)
                    /\ behind' = (journal # NoEntries)
      BY <2>1
    <2>3. TypeOK /\ ~up
      BY DEF Load, ClockInv, TypeInv
    <2>4. end # "fails" /\ journal = NoEntries /\ mem' = Replayed(Seeded(seed), journal)
      BY <1>2, <2>2, <2>3 DEF process, SaveLocked
    <2>5. Seeded(seed) \in Data
      BY <2>3, SeededType
    <2>6. /\ Replayed(Seeded(seed), journal).node = Seeded(seed).node
          /\ \A k \in Keys : Replayed(Seeded(seed), journal).records[k] = Seeded(seed).records[k]
      BY <2>4, <2>5 DEF Replayed, Data, NoEntries
    <2>7. \A k \in Keys : NotAfter(Seeded(seed).records[k].hlc, Seeded(seed).node)
      BY <2>2, <2>3, SeedCovers
    <2> QED
      BY <2>4, <2>6, <2>7
  <1> QED
    BY <1>1, <1>2 DEF NodeCovers

LEMMA ClockStep ==
  ClockInv /\ [Next]_vars => ClockInv' /\ (~behind' => \A k \in Keys : Supersedes(k))
  <1> SUFFICES ASSUME ClockInv, [Next]_vars
               PROVE  NodeCovers' /\ (~behind' => \A k \in Keys : Supersedes(k))
    BY TypeStep DEF ClockInv
  <1>0. TypeInv /\ TypeOK /\ mem \in Data
    BY DEF ClockInv, TypeInv, TypeOK
  <1>1. CASE Load
    BY <1>1, LoadClock
  <1>2. CASE Kill \/ Close \/ SetCursor \/ HearClock \/ PushArrives \/ \E k \in Keys : OtherPush(k)
    BY <1>2, SameClock
    DEF Kill, Close, SetCursor, HearClock, PushArrives, OtherPush, process, history
  <1>3. CASE Snapshot \/ Resave
    BY <1>3, SaveIgnoredKeeps, SameClock DEF Snapshot, Resave
  <1>4. ASSUME NEW k \in Keys, SetDecision(k)
        PROVE  NodeCovers' /\ (~behind' => \A j \in Keys : Supersedes(j))
    BY <1>4, DecisionClock DEF NodeCovers, Supersedes
  <1>5. CASE ApplyRemote
    <2>1. PICK some \in SUBSET Keys, now \in ServerNows, clock \in HLC :
            /\ MergedClock(Rows(some), clock)
            /\ SaveIgnored(Pulled(some, clock), Later(serverRef, now))
      BY <1>0, <1>5, ApplySaves
    <2>2. /\ Pulled(some, clock).node = clock
          /\ Pulled(some, clock).records = Adopted(Rows(some), {}, clock).records
          /\ Rows(some) \in [Keys -> Register]
      BY <1>0, <2>1, PulledType
    <2>3. up /\ behind' = behind
      BY <1>5 DEF ApplyRemote
    <2>4. CASE up'
      BY <2>1, <2>2, <2>3, <2>4, SaveIgnoredKeeps, MergeClock
    <2>5. CASE ~up'
      BY <2>5 DEF NodeCovers, Supersedes
    <2> QED
      BY <2>4, <2>5
  <1>6. CASE AckPush
    <2>1. PICK now \in ServerNows, clock \in HLC :
            /\ MergedClock(AckRows, clock)
            /\ SaveIgnored(Adopted(AckRows, Acks, clock), Later(serverRef, now))
      BY <1>0, <1>6, AckSaves
    <2>2. AckRows \in [Keys -> Register]
      BY <1>0, AckRowsType DEF AckRows
    <2>3. /\ Adopted(AckRows, Acks, clock).node = clock
          /\ Adopted(AckRows, Acks, clock).records = Adopted(AckRows, {}, clock).records
      BY <1>0, <2>2, AdoptedType, AdoptedRecords
    <2>4. up /\ behind' = behind
      BY <1>6 DEF AckPush
    <2>5. CASE up'
      BY <2>1, <2>2, <2>3, <2>4, <2>5, SaveIgnoredKeeps, MergeClock
    <2>6. CASE ~up'
      BY <2>6 DEF NodeCovers, Supersedes
    <2> QED
      BY <2>5, <2>6
  <1>7. CASE ResetForEpoch
    BY <1>0, <1>7, ResetType, SaveIgnoredKeeps, SameClock DEF ResetForEpoch
  <1>8. CASE UNCHANGED vars
    BY <1>8, SameClock DEF vars, process, history
  <1> QED
    BY <1>1, <1>2, <1>3, <1>4, <1>5, <1>6, <1>7, <1>8 DEF Next

LEMMA ClockInit == Init => ClockInv
  <1>1. Init => up = FALSE
    BY Zenon DEF Init
  <1> QED
    BY <1>1, TypeInit DEF ClockInv, NodeCovers

(* A decision and a merge only put a register in the place of one it wins   *)
(* over, unless the node clock was left behind by a replay or the clamp.    *)
THEOREM SessionEditsWin == Spec => EditsWin
  <1>1. ClockInv /\ [Next]_vars => [~behind' => \A k \in Keys : Supersedes(k)]_vars
    BY ClockStep
  <1> QED
    BY <1>1, ClockInit, ClockStep, PTL DEF Spec, EditsWin

-----------------------------------------------------------------------------
(* The high-water.  A row this device will not ask for again is on the     *)
(* relay or was replaced there, and what the session holds, in memory or   *)
(* in its file, has merged it or is still to be pushed.  For that no two   *)
(* registers of a shot may have the same stamp, wherever they are kept.    *)

Pool(k) == {mem.records[k], Upgraded(snap).records[k], journal[k], relay[k]} \ {NoRecord}

(* What this device stamped: a decision, or a shot of its version 1 file.  *)
Own(r) == r.hlc.dev = Self /\ (r.hlc.nonce = 0 \/ r.hlc \in stamps)

Origins == \A k \in Keys : \A r \in Pool(k) : r \in Remotes[k] \/ Own(r)

OneStamp == \A k \in Keys : \A r, s \in Pool(k) : r.hlc = s.hlc => r = s

Honest(data, rows) ==
    \A k \in Keys : data.known[k] # NoRecord =>
        /\ data.records[k] # NoRecord
        /\ data.acked[k] => Covers(data.records[k], data.known[k])
        /\ Covers(rows[k], data.known[k])

HighWater ==
    /\ TypeInv /\ Origins /\ OneStamp
    /\ Honest(mem, relay) /\ Honest(Upgraded(snap), relay)

LEMMA RegistersAreRegs == \A r \in Register : IsReg(r)
  BY BasicTypes DEF IsReg

LEMMA BlankHonest == \A rows : Honest(Blank, rows)
  BY DEF Blank, Honest, NoEntries

(* Registers only move between the places that hold them, or come from     *)
(* other devices.                                                          *)
LEMMA PoolMoves ==
  ASSUME Origins, OneStamp, stamps \subseteq stamps',
         \A k \in Keys : \A r \in Pool(k)' : r \in Pool(k) \/ r \in Remotes[k]
  PROVE  Origins' /\ OneStamp'
  <1>1. Origins'
    BY DEF Origins, Own
  <1>2. ASSUME NEW k \in Keys, NEW r \in Pool(k)', NEW s \in Pool(k)', r.hlc = s.hlc
        PROVE  r = s
    <2>1. CASE r \in Pool(k) /\ s \in Pool(k)
      BY <1>2, <2>1 DEF OneStamp
    <2>2. CASE r \in Remotes[k] /\ s \in Remotes[k]
      BY <1>2, <2>2, RemoteAssumption
    <2>3. ASSUME NEW a \in Pool(k), a \notin Remotes[k], NEW b \in Remotes[k] PROVE a.hlc # b.hlc
      BY <2>3, RemoteAssumption DEF Origins, Own
    <2> QED
      BY <1>2, <2>1, <2>2, <2>3
  <1> QED
    BY <1>1, <1>2 DEF OneStamp

(* A decision's stamp is new.                                              *)
LEMMA PoolDecides ==
  ASSUME Origins, OneStamp, NEW d,
         d.hlc \notin stamps, d.hlc.dev = Self, d.hlc.nonce # 0, d.hlc \in stamps',
         stamps \subseteq stamps',
         \A k \in Keys : \A r \in Pool(k)' : r \in Pool(k) \/ r = d
  PROVE  Origins' /\ OneStamp'
  <1>1. Origins'
    BY DEF Origins, Own
  <1>2. ASSUME NEW k \in Keys, NEW r \in Pool(k) PROVE r.hlc # d.hlc
    BY RemoteAssumption DEF Origins, Own
  <1> QED
    BY <1>1, <1>2 DEF OneStamp

(* What is left in memory and in the file by a save.                       *)
LEMMA SaveLeaves ==
  ASSUME TypeInv, NEW data, data.version = 2, NEW end, NEW half, SaveLocked(data, end, half)
  PROVE  /\ mem' = data \/ mem' = Blank
         /\ Upgraded(snap)' = data \/ Upgraded(snap)' = Upgraded(snap)
         /\ journal' = journal \/ journal' = NoEntries
  <1>1. Upgraded(data) = data
    BY DEF Upgraded
  <1> QED
    BY <1>1 DEF SaveLocked

(* A merge or another change of the data that is saved, as one step.       *)
LEMMA SaveHighWater ==
  ASSUME HighWater, TypeInv', stamps' = stamps,
         NEW data \in Data, data.version = 2, NEW ref, SaveIgnored(data, ref),
         \A k \in Keys : data.records[k] \in Pool(k) \union {NoRecord, relay'[k]},
         \A k \in Keys : relay'[k] \in Pool(k) \union {NoRecord},
         Honest(data, relay'), Honest(Upgraded(snap), relay')
  PROVE  HighWater'
  <1>1. /\ mem' = data \/ mem' = Blank
        /\ Upgraded(snap)' = data \/ Upgraded(snap)' = Upgraded(snap)
        /\ journal' = journal \/ journal' = NoEntries
    <2>1. PICK end \in Ends(errors) : SaveLocked(data, end, torn)
      BY DEF SaveIgnored
    <2> QED
      BY <2>1, SaveLeaves DEF HighWater
  <1>2. Honest(mem', relay') /\ Honest(Upgraded(snap)', relay')
    BY <1>1, BlankHonest
  <1>3. ASSUME NEW k \in Keys, NEW r \in Pool(k)' PROVE r \in Pool(k)
    BY <1>1 DEF Pool, Blank, NoEntries
  <1>4. Origins' /\ OneStamp'
    BY <1>3, PoolMoves DEF HighWater
  <1> QED
    BY <1>2, <1>4 DEF HighWater, Honest

(* The relay only replaces a register by one that wins over it.            *)
Advances == \A k \in Keys : relay[k] # NoRecord => Covers(relay'[k], relay[k])

LEMMA HonestAdvances ==
  ASSUME TypeInv, TypeInv', Advances, NEW data \in Data, Honest(data, relay)
  PROVE  Honest(data, relay')
  <1> SUFFICES ASSUME NEW k \in Keys, data.known[k] # NoRecord
               PROVE  Covers(relay'[k], data.known[k])
    BY DEF Honest
  <1>1. IsReg(data.known[k]) /\ IsReg(relay[k]) /\ IsReg(relay'[k])
    BY DataFields, RegistersAreRegs DEF TypeInv, TypeOK
  <1>2. Covers(relay[k], data.known[k])
    BY DEF Honest
  <1>3. relay[k] # NoRecord
    BY <1>2 DEF Covers
  <1> QED
    BY <1>1, <1>2, <1>3, CoversTransitive DEF Advances

LEMMA PushAdvances ==
  ASSUME TypeInv, NEW k \in Keys
  PROVE  /\ relay[k] # NoRecord => Covers(AfterPush[k], relay[k])
         /\ AfterPush[k] \in Pool(k) \union {NoRecord}
  <1>1. AfterPush[k] = IF k \in Outbox /\ RecordWins(mem.records[k], relay[k])
                       THEN mem.records[k] ELSE relay[k]
    BY DEF AfterPush
  <1> QED
    BY <1>1 DEF Covers, Outbox, Pool

LEMMA HighWaterInit == Init => HighWater
  <1> SUFFICES ASSUME Init PROVE HighWater
    OBVIOUS
  <1>1. TypeInv
    BY TypeInit
  <1>2. mem = Blank /\ journal = NoEntries /\ relay = NoEntries /\ snap.known = NoEntries
    <2>1. mem = Blank /\ journal = NoEntries /\ relay = NoEntries
      BY Zenon DEF Init
    <2>2. \/ snap = Blank
          \/ \E w \in Walls, v \in Values, some \in SUBSET Keys :
                snap = [Blank EXCEPT
                           !.version = 1, !.node.wall = w,
                           !.records = [k \in Keys |->
                               IF k \in some THEN [NoRecord EXCEPT !.val = v] ELSE NoRecord]]
      BY Zenon DEF Init
    <2>3. ASSUME NEW w, NEW regs,
                 snap = [Blank EXCEPT !.version = 1, !.node.wall = w, !.records = regs]
          PROVE  snap.known = NoEntries
      BY <2>3 DEF Blank
    <2>4. snap = Blank => snap.known = NoEntries
      BY DEF Blank
    <2> QED
      BY <2>1, <2>2, <2>3, <2>4
  <1>3. Honest(mem, relay)
    BY <1>2, BlankHonest
  <1>4. snap \in Data
    BY <1>1 DEF TypeInv, TypeOK
  <1>5. Upgraded(snap).known = NoEntries
    BY <1>2, <1>4 DEF Upgraded, Data
  <1>6. Honest(Upgraded(snap), relay)
    BY <1>5 DEF Honest, NoEntries
  <1>7. \A k \in Keys : Pool(k) = {Upgraded(snap).records[k]} \ {NoRecord}
    BY <1>2 DEF Pool, Blank, NoEntries
  <1>8. ASSUME NEW k \in Keys, Upgraded(snap).records[k] # NoRecord
        PROVE  Own(Upgraded(snap).records[k])
    <2>1. CASE snap = Blank
      BY <1>8, <2>1 DEF Upgraded, Blank, NoEntries
    <2>2. CASE snap.version = 1
      BY <1>4, <1>8, <2>2 DEF Upgraded, Data, Own
    <2> QED
      BY <2>1, <2>2 DEF Init, Blank
  <1>9. Origins /\ OneStamp
    BY <1>7, <1>8 DEF Origins, OneStamp
  <1> QED
    BY <1>1, <1>3, <1>6, <1>9 DEF HighWater

LEMMA LoadHighWater ==
  ASSUME HighWater, TypeInv', Load
  PROVE  HighWater'
  <1>1. PICK now \in Walls : \E seed \in Seeds(Upgraded(snap), now) : \E end \in Ends(errors) :
          IF end = "fails"
          THEN UNCHANGED <<process, disk, history>>
          ELSE SaveLocked(Replayed(Seeded(seed), journal), end, torn)
    BY DEF Load, Seeded
  <1>2. PICK seed \in Seeds(Upgraded(snap), now), end \in Ends(errors) :
          IF end = "fails"
          THEN UNCHANGED <<process, disk, history>>
          ELSE SaveLocked(Replayed(Seeded(seed), journal), end, torn)
    BY <1>1
  <1>0. TypeInv /\ TypeOK /\ relay' = relay /\ stamps' = stamps /\ journal \in [Keys -> Register]
    BY DEF Load, HighWater, TypeInv, TypeOK
  <1>3. CASE end = "fails"
    <2>1. UNCHANGED <<mem, snap, journal, relay, stamps>>
      BY <1>0, <1>2, <1>3 DEF process, disk
    <2> QED
      BY <2>1 DEF HighWater, Origins, OneStamp, Pool, Own, Honest
  <1>4. CASE end # "fails"
    <2> DEFINE up2 == Upgraded(snap)
               data == Replayed(Seeded(seed), journal)
    <2>1. Seeded(seed) \in Data /\ Seeded(seed).records = up2.records
          /\ Seeded(seed).version = 2
      BY <1>0, SeededType
    <2>2. up2 \in Data
      BY <1>0, UpgradedType DEF TypeOK
    <2>3. Seeded(seed).known = up2.known /\ Seeded(seed).acked = up2.acked
      BY <2>2 DEF Seeded, Data
    <2>4. /\ data.known = up2.known
          /\ data.records = [k \in Keys |-> IF journal[k] # NoRecord THEN journal[k] ELSE up2.records[k]]
          /\ data.acked = [k \in Keys |-> up2.acked[k] /\ journal[k] = NoRecord]
      BY <2>1, <2>3 DEF Replayed, Data
    <2>5. data \in Data /\ data.version = 2
      BY <1>0, <2>1, ReplayedType
    <2>6. SaveLocked(data, end, torn)
      BY <1>2, <1>4
    <2> HIDE DEF data
    <2>7. /\ mem' = data \/ mem' = Blank
          /\ Upgraded(snap)' = data \/ Upgraded(snap)' = up2
          /\ journal' = journal \/ journal' = NoEntries
      BY <1>0, <2>5, <2>6, SaveLeaves
    <2>8. Honest(up2, relay)
      BY DEF HighWater
    <2> HIDE DEF up2
    <2>9. Honest(data, relay)
      <3> SUFFICES ASSUME NEW k \in Keys, data.known[k] # NoRecord
                   PROVE  /\ data.records[k] # NoRecord
                          /\ data.acked[k] => Covers(data.records[k], data.known[k])
                          /\ Covers(relay[k], data.known[k])
        BY DEF Honest
      <3>1. /\ data.records[k] = IF journal[k] # NoRecord THEN journal[k] ELSE up2.records[k]
            /\ data.known[k] = up2.known[k]
        BY <2>4
      <3>2. data.acked[k] => up2.acked[k] /\ journal[k] = NoRecord
        BY <2>4
      <3> QED
        BY <2>8, <3>1, <3>2 DEF Honest
    <2>10. Honest(mem', relay') /\ Honest(Upgraded(snap)', relay')
      BY <1>0, <2>7, <2>8, <2>9, BlankHonest
    <2>11. \A k \in Keys : data.records[k] \in {journal[k], up2.records[k]}
      BY <2>4
    <2>12. ASSUME NEW k \in Keys, NEW r \in Pool(k)' PROVE r \in Pool(k)
      BY <1>0, <2>7, <2>11 DEF Pool, Blank, NoEntries, up2
    <2>13. Origins' /\ OneStamp'
      BY <1>0, <2>12, PoolMoves DEF HighWater
    <2> QED
      BY <2>10, <2>13 DEF HighWater, Honest
  <1> QED
    BY <1>3, <1>4

LEMMA CloseHighWater ==
  ASSUME HighWater, TypeInv', Close
  PROVE  HighWater'
  <1>1. Upgraded(mem) = mem
    BY DEF Upgraded, HighWater, TypeInv, Version2
  <1>2. /\ mem' = Blank /\ relay' = relay /\ stamps' = stamps
        /\ snap' = snap \/ snap' = mem
        /\ journal' = journal \/ journal' = NoEntries
    BY DEF Close, disk
  <1>3. Honest(mem', relay') /\ Honest(Upgraded(snap)', relay')
    BY <1>1, <1>2, BlankHonest DEF HighWater
  <1>4. ASSUME NEW k \in Keys, NEW r \in Pool(k)' PROVE r \in Pool(k)
    BY <1>1, <1>2 DEF Pool, Blank, NoEntries
  <1>5. Origins' /\ OneStamp'
    BY <1>2, <1>4, PoolMoves DEF HighWater
  <1> QED
    BY <1>3, <1>5 DEF HighWater, Honest

(* A decision makes its shot dirty: it will be pushed, and the answer told. *)
LEMMA DecidedHonest ==
  ASSUME TypeInv, Honest(mem, relay), NEW k \in Keys, NEW v \in Values, NEW clock \in HLC,
         NEW nonce \in Nonces
  PROVE  Honest(Decided(k, v, clock, nonce), relay)
  <1> DEFINE data == Decided(k, v, clock, nonce)
  <1>0. mem \in Data /\ TypeOK
    BY DEF TypeInv, TypeOK
  <1>1. data.known = mem.known
    BY <1>0 DEF Decided, Data
  <1>2. data.acked = [mem.acked EXCEPT ![k] = FALSE]
    BY <1>0 DEF Decided, Data
  <1>3. /\ data.records[k] = Chosen(v, clock, nonce)
        /\ \A j \in Keys \ {k} : data.records[j] = mem.records[j]
    BY <1>0, DecidedType
  <1>4. Chosen(v, clock, nonce) # NoRecord
    BY ChosenType, BasicTypes
  <1>5. \A j \in Keys : data.acked[j] => mem.acked[j] /\ j # k
    BY <1>0, <1>2, DataFields
  <1> HIDE DEF data
  <1> QED
    BY <1>1, <1>3, <1>4, <1>5 DEF Honest, data

LEMMA DecisionHighWater ==
  ASSUME HighWater, TypeInv', NEW k \in Keys, SetDecision(k)
  PROVE  HighWater'
  <1>1. PICK v \in Values, now \in Walls, nonce \in Nonces, append \in AppendEnds :
           LET data == Decided(k, v, NextClock(now), nonce)
           IN  /\ data.records[k].hlc \notin stamps
               /\ stamps' = stamps \union {data.records[k].hlc}
               /\ \/ append = "written" /\ Journalled(data, k)
                  \/ /\ append \in {"nothing", "torn"}
                     /\ \E end \in Ends(errors + 1) :
                            FellBack(data, k, end, torn \/ append = "torn")
                  \/ append = "dies" /\ DiedAppending
    BY DEF SetDecision
  <1> DEFINE clock == NextClock(now)
             data == Decided(k, v, clock, nonce)
             d == Chosen(v, clock, nonce)
  <1>0. TypeInv /\ TypeOK /\ mem \in Data /\ journal \in [Keys -> Register] /\ relay' = relay
    BY DEF SetDecision, HighWater, TypeInv, TypeOK
  <1>2. clock \in HLC /\ clock.dev = Self
    BY <1>0, NextClockType DEF NextClock, Tick
  <1> HIDE DEF clock
  <1>3. /\ data \in Data /\ data.version = 2 /\ data.records[k] = d
        /\ \A j \in Keys \ {k} : data.records[j] = mem.records[j]
    BY <1>0, <1>2, DecidedType DEF TypeInv, Version2
  <1>4. d.hlc = [clock EXCEPT !.nonce = nonce]
    BY DEF Chosen
  <1>5. d.hlc.dev = Self /\ d.hlc.nonce # 0
    <2>1. d.hlc.dev = Self /\ d.hlc.nonce = nonce
      BY <1>2, <1>4 DEF HLC
    <2> QED
      BY <2>1, StampAssumption
  <1>6. Honest(data, relay) /\ Honest(Upgraded(snap), relay) /\ Honest(mem, relay)
    BY <1>0, <1>2, DecidedHonest DEF HighWater
  <1>7. d.hlc \notin stamps /\ stamps' = stamps \union {d.hlc}
    BY <1>1, <1>3 DEF clock
  <1> HIDE DEF data, d
  <1>8. /\ mem' = data \/ mem' = Blank
        /\ Upgraded(snap)' = data \/ Upgraded(snap)' = Upgraded(snap)
        /\ \A j \in Keys : journal'[j] \in {journal[j], NoRecord, data.records[j]}
    <2>1. CASE Journalled(data, k)
      BY <1>0, <2>1 DEF Journalled
    <2>2. CASE \E end \in Ends(errors + 1) : FellBack(data, k, end, torn \/ append = "torn")
      <3>1. PICK end \in Ends(errors + 1) : SaveLocked(data, end, torn \/ append = "torn")
        BY <2>2 DEF FellBack
      <3>2. journal' = journal \/ journal' = NoEntries
        BY <1>0, <1>3, <3>1, SaveLeaves
      <3> QED
        BY <1>0, <1>3, <3>1, <3>2, SaveLeaves DEF NoEntries
    <2>3. CASE DiedAppending
      BY <2>3 DEF DiedAppending
    <2> QED
      BY <1>1, <2>1, <2>2, <2>3 DEF data, clock
  <1>9. Honest(mem', relay') /\ Honest(Upgraded(snap)', relay')
    BY <1>0, <1>6, <1>8, BlankHonest
  <1>10. ASSUME NEW j \in Keys, NEW r \in Pool(j)' PROVE r \in Pool(j) \/ r = d
    <2>1. data.records[j] \in {mem.records[j], d}
      BY <1>3
    <2> QED
      BY <1>0, <1>8, <2>1 DEF Pool, Blank, NoEntries
  <1>11. Origins' /\ OneStamp'
    BY <1>5, <1>7, <1>10, PoolDecides DEF HighWater
  <1> QED
    BY <1>9, <1>11 DEF HighWater, Honest

(* What a merge leaves of a shot.                                          *)
LEMMA AdoptedFields ==
  ASSUME TypeOK, NEW rows \in [Keys -> Register], NEW acks, NEW clock \in HLC
  PROVE  /\ Adopted(rows, acks, clock).known = mem.known
         /\ \A k \in Keys :
              Adopted(rows, acks, clock).acked[k] =>
                 \/ mem.acked[k]
                 \/ rows[k] # NoRecord /\ RecordWins(rows[k], mem.records[k])
                 \/ k \in acks
  <1> DEFINE won == {k \in Keys : rows[k] # NoRecord /\ RecordWins(rows[k], mem.records[k])}
             clean == [k \in Keys |-> mem.acked[k] \/ k \in won \union acks]
  <1>1. mem \in Data
    BY DEF TypeOK
  <1>2. Adopted(rows, acks, clock).known = mem.known
    BY <1>1 DEF Adopted, Data
  <1>3. Adopted(rows, acks, clock).acked = clean
    BY <1>1 DEF Adopted, Data
  <1> QED
    BY <1>2, <1>3

(* A row that loses to what the session holds was merged by it before.      *)
LEMMA LosingRow ==
  ASSUME HighWater, NEW k \in Keys, NEW row \in Pool(k), ~RecordWins(row, mem.records[k])
  PROVE  mem.records[k] # NoRecord /\ Covers(mem.records[k], row)
  <1>1. mem.records[k] # NoRecord
    BY DEF RecordWins, Wins
  <1>2. mem.records[k] \in Pool(k) /\ row # NoRecord
    BY <1>1 DEF Pool
  <1>3. row.hlc = mem.records[k].hlc => row = mem.records[k]
    BY <1>2 DEF HighWater, OneStamp
  <1>4. /\ mem.records[k] \in Register /\ journal[k] \in Register /\ relay[k] \in Register
        /\ Upgraded(snap).records[k] \in Register
    BY DataFields, UpgradedType DEF HighWater, TypeInv, TypeOK
  <1>5. IsReg(row) /\ IsReg(mem.records[k])
    BY <1>4, RegistersAreRegs DEF Pool
  <1> QED
    BY <1>1, <1>3, <1>5, LoserIsCovered

(* A pull: the rows the device will not ask for again are merged.           *)
LEMMA ApplyHighWater ==
  ASSUME HighWater, TypeInv', ApplyRemote
  PROVE  HighWater'
  <1>0. TypeInv /\ TypeOK /\ mem \in Data /\ relay' = relay /\ stamps' = stamps
        /\ relay \in [Keys -> Register]
    BY DEF ApplyRemote, HighWater, TypeInv, TypeOK
  <1>1. PICK some \in SUBSET Keys, now \in ServerNows, clock \in HLC :
           /\ MergedClock(Rows(some), clock)
           /\ Pulled(some, clock) \in Data /\ Pulled(some, clock).version = 2
           /\ SaveIgnored(Pulled(some, clock), Later(serverRef, now))
    BY <1>0, ApplySaves
  <1> DEFINE base == Adopted(Rows(some), {}, clock)
             data == Pulled(some, clock)
  <1>2. Rows(some) \in [Keys -> Register] /\ data.records = base.records /\ base \in Data
    BY <1>0, <1>1, PulledType, AdoptedType
  <1>3. data.known = [k \in Keys |-> IF k \in some THEN relay[k] ELSE mem.known[k]]
    <2>1. base.known = mem.known
      BY <1>0, <1>2, AdoptedFields
    <2>2. data.known = [k \in Keys |-> IF k \in some THEN relay[k] ELSE base.known[k]]
      BY <1>2 DEF Pulled, Data
    <2> QED
      BY <2>1, <2>2
  <1>4. data.acked = base.acked
    BY <1>2 DEF Pulled, Data
  <1>5. \A k \in Keys : Rows(some)[k] = IF k \in some THEN relay[k] ELSE NoRecord
    BY DEF Rows
  <1>6. \A k \in Keys :
          /\ base.records[k] = IF Rows(some)[k] # NoRecord /\ RecordWins(Rows(some)[k], mem.records[k])
                               THEN Rows(some)[k] ELSE mem.records[k]
          /\ base.acked[k] => \/ mem.acked[k]
                              \/ Rows(some)[k] # NoRecord /\ RecordWins(Rows(some)[k], mem.records[k])
    BY <1>0, <1>2, AdoptedType, AdoptedFields
  <1> HIDE DEF base, data
  <1>7. ASSUME NEW k \in Keys, data.known[k] # NoRecord
        PROVE  /\ data.records[k] # NoRecord
               /\ data.acked[k] => Covers(data.records[k], data.known[k])
               /\ Covers(relay[k], data.known[k])
    <2>1. CASE k \in some
      <3>1. data.known[k] = relay[k] /\ Rows(some)[k] = relay[k] /\ relay[k] \in Pool(k)
        BY <1>3, <1>5, <1>7, <2>1 DEF Pool
      <3>2. CASE RecordWins(relay[k], mem.records[k])
        BY <1>2, <1>6, <1>7, <3>1, <3>2 DEF Covers
      <3>3. CASE ~RecordWins(relay[k], mem.records[k])
        BY <1>2, <1>6, <1>7, <3>1, <3>3, LosingRow DEF Covers
      <3> QED
        BY <3>2, <3>3
    <2>2. CASE k \notin some
      BY <1>2, <1>3, <1>4, <1>5, <1>6, <1>7, <2>2 DEF HighWater, Honest
    <2> QED
      BY <2>1, <2>2
  <1>8. Honest(data, relay')
    BY <1>0, <1>7 DEF Honest
  <1>9. \A k \in Keys : data.records[k] \in Pool(k) \union {NoRecord, relay'[k]}
    BY <1>0, <1>2, <1>5, <1>6 DEF Pool
  <1>10. \A k \in Keys : relay'[k] \in Pool(k) \union {NoRecord}
    BY <1>0 DEF Pool
  <1>11. Honest(Upgraded(snap), relay')
    BY <1>0 DEF HighWater
  <1>12. data \in Data /\ data.version = 2 /\ SaveIgnored(data, Later(serverRef, now))
    BY <1>1 DEF data
  <1> QED
    BY <1>0, <1>8, <1>9, <1>10, <1>11, <1>12, SaveHighWater

(* A push and its answer: what is acknowledged has merged what the relay    *)
(* had, and so the rows that were asked for before.                         *)
LEMMA AckHighWater ==
  ASSUME HighWater, TypeInv', AckPush
  PROVE  HighWater'
  <1>0. TypeInv /\ TypeOK /\ mem \in Data /\ relay' = AfterPush /\ stamps' = stamps
        /\ relay \in [Keys -> Register]
    BY DEF AckPush, HighWater, TypeInv, TypeOK
  <1>1. PICK now \in ServerNows, clock \in HLC :
           /\ MergedClock(AckRows, clock)
           /\ Adopted(AckRows, Acks, clock) \in Data
           /\ Adopted(AckRows, Acks, clock).version = 2
           /\ SaveIgnored(Adopted(AckRows, Acks, clock), Later(serverRef, now))
    BY <1>0, AckSaves
  <1> DEFINE data == Adopted(AckRows, Acks, clock)
  <1>2. AckRows \in [Keys -> Register]
    BY <1>0, AckRowsType DEF AckRows
  <1>3. data.known = mem.known
    BY <1>0, <1>2, AdoptedFields
  <1>4. \A k \in Keys :
          /\ data.records[k] = IF AckRows[k] # NoRecord /\ RecordWins(AckRows[k], mem.records[k])
                               THEN AckRows[k] ELSE mem.records[k]
          /\ data.acked[k] => \/ mem.acked[k]
                              \/ AckRows[k] # NoRecord /\ RecordWins(AckRows[k], mem.records[k])
                              \/ k \in Acks
    BY <1>0, <1>2, AdoptedType, AdoptedFields
  <1>5. \A k \in Keys : AckRows[k] = IF k \in Outbox THEN AfterPush[k] ELSE NoRecord
    BY DEF AckRows
  <1>6. Advances
    BY <1>0, PushAdvances DEF Advances
  <1>7. Honest(mem, relay') /\ Honest(Upgraded(snap), relay')
    <2>1. Upgraded(snap) \in Data
      BY <1>0, UpgradedType DEF TypeOK
    <2> QED
      BY <1>0, <1>6, <2>1, HonestAdvances DEF HighWater
  <1>8. ASSUME NEW k \in Keys, k \in Acks PROVE mem.records[k] = AckRows[k]
    <2>1. k \in Outbox /\ mem.records[k].hlc = AckRows[k].hlc /\ AckRows[k] = AfterPush[k]
      BY <1>5, <1>8 DEF Acks
    <2>2. mem.records[k] \in Pool(k)
      BY <2>1 DEF Pool, Outbox
    <2>3. AfterPush[k] # NoRecord
      BY <2>1, <2>2 DEF AfterPush, RecordWins, Wins, Pool
    <2>4. AfterPush[k] \in Pool(k)
      BY <1>0, <2>3, PushAdvances
    <2> QED
      BY <2>1, <2>2, <2>4 DEF HighWater, OneStamp
  <1> HIDE DEF data
  <1>9. ASSUME NEW k \in Keys, data.known[k] # NoRecord
        PROVE  /\ data.records[k] # NoRecord
               /\ data.acked[k] => Covers(data.records[k], data.known[k])
               /\ Covers(relay'[k], data.known[k])
    <2>1. /\ mem.records[k] # NoRecord /\ Covers(relay'[k], mem.known[k])
          /\ mem.acked[k] => Covers(mem.records[k], mem.known[k])
          /\ data.known[k] = mem.known[k]
      BY <1>3, <1>7, <1>9 DEF Honest
    <2>2. k \in Outbox => ~mem.acked[k] /\ AckRows[k] = relay'[k]
      BY <1>0, <1>5 DEF Outbox
    <2>3. CASE AckRows[k] # NoRecord /\ RecordWins(AckRows[k], mem.records[k])
      <3>1. data.records[k] = relay'[k]
        BY <1>4, <1>5, <2>2, <2>3
      <3> QED
        BY <1>4, <2>1, <2>3, <3>1
    <2>4. CASE ~(AckRows[k] # NoRecord /\ RecordWins(AckRows[k], mem.records[k]))
      <3>1. data.records[k] = mem.records[k] /\ (data.acked[k] => mem.acked[k] \/ k \in Acks)
        BY <1>4, <2>4
      <3>2. k \in Acks => mem.records[k] = relay'[k]
        BY <1>8, <2>2 DEF Acks
      <3> QED
        BY <2>1, <3>1, <3>2
    <2> QED
      BY <2>3, <2>4
  <1>10. Honest(data, relay')
    BY <1>9 DEF Honest
  <1>11. \A k \in Keys : relay'[k] \in Pool(k) \union {NoRecord}
    BY <1>0, PushAdvances
  <1>12. \A k \in Keys : data.records[k] \in Pool(k) \union {NoRecord, relay'[k]}
    BY <1>0, <1>4, <1>5 DEF Pool
  <1>13. data \in Data /\ data.version = 2 /\ SaveIgnored(data, Later(serverRef, now))
    BY <1>1 DEF data
  <1> QED
    BY <1>0, <1>7, <1>10, <1>11, <1>12, <1>13, SaveHighWater

(* The relay moves on without this device.                                  *)
LEMMA RelayHighWater ==
  ASSUME HighWater, TypeInv', PushArrives \/ \E k \in Keys : OtherPush(k)
  PROVE  HighWater'
  <1>0. TypeInv /\ TypeOK /\ mem \in Data /\ relay \in [Keys -> Register]
        /\ UNCHANGED <<mem, snap, journal, stamps>>
    BY DEF PushArrives, OtherPush, HighWater, TypeInv, TypeOK, process, disk
  <1>1. Advances /\ \A k \in Keys : relay'[k] \in Pool(k) \union Remotes[k] \union {NoRecord}
    <2>1. CASE PushArrives
      BY <1>0, <2>1, PushAdvances DEF PushArrives, Advances
    <2>2. ASSUME NEW k \in Keys, OtherPush(k)
          PROVE  Advances /\ \A j \in Keys : relay'[j] \in Pool(j) \union Remotes[j] \union {NoRecord}
      <3>1. PICK r \in Remotes[k] : RecordWins(r, relay[k]) /\ relay' = [relay EXCEPT ![k] = r]
        BY <2>2 DEF OtherPush
      <3>2. r # NoRecord
        BY BasicTypes
      <3>3. \A j \in Keys : relay'[j] = IF j = k THEN r ELSE relay[j]
        BY <1>0, <3>1
      <3> QED
        BY <3>1, <3>2, <3>3 DEF Advances, Covers, Pool
    <2> QED
      BY <2>1, <2>2
  <1>2. Upgraded(snap) \in Data /\ Upgraded(snap)' = Upgraded(snap)
    BY <1>0, UpgradedType DEF TypeOK
  <1>3. Honest(mem, relay') /\ Honest(Upgraded(snap), relay')
    BY <1>0, <1>1, <1>2, HonestAdvances DEF HighWater
  <1>4. ASSUME NEW k \in Keys, NEW r \in Pool(k)' PROVE r \in Pool(k) \/ r \in Remotes[k]
    BY <1>0, <1>1, <1>2 DEF Pool
  <1>5. Origins' /\ OneStamp'
    BY <1>0, <1>4, PoolMoves DEF HighWater
  <1> QED
    BY <1>0, <1>2, <1>3, <1>5 DEF HighWater, Honest

LEMMA HighWaterStep == HighWater /\ [Next]_vars => HighWater'
  <1> SUFFICES ASSUME HighWater, [Next]_vars PROVE HighWater'
    OBVIOUS
  <1>0. TypeInv /\ TypeInv' /\ mem \in Data /\ mem.version = 2
    BY TypeStep DEF HighWater, TypeInv, TypeOK, Version2
  <1>1. CASE Load
    BY <1>0, <1>1, LoadHighWater
  <1>2. CASE Close
    BY <1>0, <1>2, CloseHighWater
  <1>3. CASE Kill
    <2>1. mem' = Blank /\ UNCHANGED <<snap, journal, relay, stamps>>
      BY <1>3 DEF Kill, disk
    <2>2. ASSUME NEW k \in Keys, NEW r \in Pool(k)' PROVE r \in Pool(k)
      BY <2>1 DEF Pool, Blank, NoEntries
    <2>3. Origins' /\ OneStamp'
      BY <2>1, <2>2, PoolMoves DEF HighWater
    <2>4. Honest(mem', relay') /\ Honest(Upgraded(snap)', relay')
      BY <2>1, BlankHonest DEF HighWater
    <2> QED
      BY <1>0, <2>3, <2>4 DEF HighWater, Honest
  <1>4. CASE Snapshot \/ Resave
    <2>1. SaveIgnored(mem, serverRef) /\ UNCHANGED <<relay, stamps>>
      BY <1>4 DEF Snapshot, Resave
    <2>2. \A k \in Keys : mem.records[k] \in Pool(k) \union {NoRecord, relay'[k]}
      BY DEF Pool
    <2>3. \A k \in Keys : relay'[k] \in Pool(k) \union {NoRecord}
      BY <2>1 DEF Pool
    <2> QED
      BY <1>0, <2>1, <2>2, <2>3, SaveHighWater DEF HighWater
  <1>5. ASSUME NEW k \in Keys, SetDecision(k) PROVE HighWater'
    BY <1>0, <1>5, DecisionHighWater
  <1>6. CASE ApplyRemote
    BY <1>0, <1>6, ApplyHighWater
  <1>7. CASE AckPush
    BY <1>0, <1>7, AckHighWater
  <1>8. CASE ResetForEpoch
    <2> DEFINE data == [mem EXCEPT !.acked = [k \in Keys |-> FALSE], !.known = NoEntries]
    <2>1. data \in Data /\ data.version = 2 /\ data.records = mem.records
      BY <1>0, ResetType
    <2>2. data.known = NoEntries
      BY <1>0 DEF Data
    <2>3. SaveIgnored(data, serverRef) /\ UNCHANGED <<relay, stamps>>
      BY <1>8 DEF ResetForEpoch
    <2> HIDE DEF data
    <2>4. Honest(data, relay')
      BY <2>2 DEF Honest, NoEntries
    <2>5. \A k \in Keys : data.records[k] \in Pool(k) \union {NoRecord, relay'[k]}
      BY <2>1 DEF Pool
    <2>6. \A k \in Keys : relay'[k] \in Pool(k) \union {NoRecord}
      BY <2>3 DEF Pool
    <2> QED
      BY <1>0, <2>1, <2>3, <2>4, <2>5, <2>6, SaveHighWater DEF HighWater
  <1>9. CASE PushArrives \/ \E k \in Keys : OtherPush(k)
    BY <1>0, <1>9, RelayHighWater
  <1>10. CASE SetCursor \/ HearClock \/ UNCHANGED vars
    <2>1. UNCHANGED <<mem, snap, journal, relay, stamps>>
      BY <1>10 DEF SetCursor, HearClock, vars, process, disk
    <2> QED
      BY <1>0, <2>1 DEF HighWater, Origins, OneStamp, Pool, Own, Honest
  <1> QED
    BY <1>1, <1>2, <1>3, <1>4, <1>5, <1>6, <1>7, <1>8, <1>9, <1>10 DEF Next

(* The pull high-water and the acknowledgements, across merges, decisions,  *)
(* crashes and replays: a row the device will not ask for again has been    *)
(* merged by what it holds, unless that is still to be pushed.              *)
THEOREM SessionHighWater == Spec => []HighWaterHonest
  <1>1. HighWater => HighWaterHonest
    BY DEF HighWater, Honest, HighWaterHonest
  <1> QED
    BY <1>1, HighWaterInit, HighWaterStep, PTL DEF Spec

=============================================================================
