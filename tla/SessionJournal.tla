--------------------------- MODULE SessionJournal ---------------------------
(***************************************************************************)
(* One device's Session (internal/cull/session.go and sessionsync.go): the *)
(* registers in memory, the snapshot file that is rewritten on a timer and *)
(* after every merge, the journal that makes a decision durable between    *)
(* snapshots, and the node clock that stamps decisions (hlc.go).  What the *)
(* program relies on is that snapshot plus journal always hold every       *)
(* decision, and that a decision wins over what it replaces.               *)
(*                                                                         *)
(* Every method runs under the session's lock, so it is one step; it may   *)
(* be cut short by the death of the process wherever it writes a file.     *)
(* Replay overwrites key by key, so of the journal only the last readable  *)
(* entry of each key matters, and whether its last line is half written.   *)
(* (A line cut exactly before its line feed replays; it is then the same   *)
(* as a process that died just after the append.)                          *)
(*                                                                         *)
(* The relay is the winner of all that was pushed to it (FujiSync models   *)
(* the protocol); a row's version says nothing here beyond "acknowledged". *)
(* No file is fsynced: a power cut is outside this model.                  *)
(***************************************************************************)
EXTENDS SyncCore, FiniteSets

CONSTANTS
    Self,       (* this device, by the rank of its id *)
    Keys,       (* canonical shot keys *)
    Values,     (* values of a decision *)
    Walls,      (* readings of the local clock, in any order *)
    Nonces,     (* random parts of a stamp; no two stamps are equal *)
    Remotes,    (* Remotes[k]: registers of shot k other devices may push *)
    ServerNows, (* the relay's clock, as it comes with its answers *)
    MaxSkew,    (* how far ahead of that clock a stamp may be: 24 h *)
    MaxEdits,   (* bound: decisions taken *)
    MaxErrors,  (* bound: file operations that fail *)
    Faults      (* "kill", "append", "save", "remove": what may fail *)

ASSUME SelfAssumption == Self \in Nat \ {0}
ASSUME ClockAssumption == Walls \subseteq Nat \ {0} /\ ServerNows \subseteq Nat /\ MaxSkew \in Nat
ASSUME StampAssumption == Nonces \subseteq Nat \ {0}
ASSUME ValueAssumption == "none" \notin Values
ASSUME RemoteAssumption ==   (* a stamp has its device's id, and stands for one register *)
    /\ Remotes \in [Keys -> SUBSET [val : Values, hlc : HLC, mig : BOOLEAN]]
    /\ \A k \in Keys : \A r, s \in Remotes[k] : r.hlc.dev # Self /\ (r.hlc = s.hlc => r = s)
ASSUME BoundAssumption == MaxEdits \in Nat /\ MaxErrors \in Nat

VARIABLES
    up,         (* the process runs *)
    mem,        (* Session.data, or Blank when there is no process *)
    serverRef,  (* the last relay clock this process has seen *)
    dirty,      (* the snapshot is behind *)
    snap,       (* the session file *)
    journal,    (* the last readable entry for each key, or NoRecord *)
    torn,       (* the journal ends in half a line *)
    relay,      (* the relay's register of each shot *)
    stamps,     (* history: the stamps of this device's decisions *)
    errors,     (* file operations that failed so far *)
    valid,      (* history, valid[k]: the last decision of shot k that was
                   reported as saved, and every register held since *)
    behind      (* history: the node clock may be behind a register: the
                   journal was replayed after it was set, or the clamp
                   turned it back *)

disk == <<snap, journal, torn>>
process == <<up, mem, serverRef, dirty>>
history == <<valid, behind>>
vars == <<process, disk, relay, stamps, errors, history>>

-----------------------------------------------------------------------------

Register == [val : Values, hlc : HLC, mig : BOOLEAN] \union {NoRecord}

(* sessionData.  known is what the pull high-water stands for: the rows of *)
(* the relay this device will not ask for again.  A version 1 file holds   *)
(* values without clocks; its node clock is the file's UpdatedAt.          *)
Data == [version : {1, 2}, records : [Keys -> Register], acked : [Keys -> BOOLEAN],
         known : [Keys -> Register], node : HLC]

NoEntries == [k \in Keys |-> NoRecord]

Blank == [version |-> 2, records |-> NoEntries, acked |-> [k \in Keys |-> FALSE],
          known |-> NoEntries, node |-> ZeroHLC]

\* Mutant of Upgraded: shots without a decision get a register as well.
UpgradedBlanks(data) ==
    IF data.version = 2 THEN data
    ELSE [data EXCEPT
             !.version = 2,
             !.records = [k \in Keys |->
                 [val |-> data.records[k].val, mig |-> TRUE,
                  hlc |-> [wall |-> data.node.wall, ctr |-> 0, dev |-> Self, nonce |-> 0]]]]

(* migrateV1Locked: decisions of a version 1 file get the file's time.     *)
Upgraded(data) ==
    IF data.version = 2 THEN data
    ELSE [data EXCEPT
             !.version = 2,
             !.records = [k \in Keys |->
                 IF data.records[k] = NoRecord THEN NoRecord
                 ELSE [val |-> data.records[k].val, mig |-> TRUE,
                       hlc |-> [wall |-> data.node.wall, ctr |-> 0,
                                dev |-> Self, nonce |-> 0]]]]

\* Mutant of Replayed: a replayed register keeps the acknowledgement of the
\* one the snapshot has.
ReplayedKeepsAck(data, entries) ==
    [data EXCEPT !.records = [k \in Keys |-> IF entries[k] # NoRecord THEN entries[k] ELSE @[k]]]

(* replayJournalLocked: the journal's entries are put over the snapshot's. *)
Replayed(data, entries) ==
    [data EXCEPT
        !.records = [k \in Keys |-> IF entries[k] # NoRecord THEN entries[k] ELSE @[k]],
        !.acked = [k \in Keys |-> @[k] /\ entries[k] = NoRecord]]

(* initV2Locked: the clocks the node clock is seeded from.                 *)
Seeds(data, now) ==
    {[data.node EXCEPT !.wall = IF data.node.wall > now THEN data.node.wall ELSE now]}
        \union {data.records[k].hlc : k \in Keys}

(* What the next start will find for shot k.                               *)
Recovered(k) ==
    IF journal[k] # NoRecord THEN journal[k] ELSE Upgraded(snap).records[k]

-----------------------------------------------------------------------------
(* saveLocked: write a file aside, rename it over the snapshot, remove the *)
(* journal.  It ends in one of these ways:                                 *)
(*   "saved"  all of that                                                  *)
(*   "fails"  an error before the rename is done: nothing has changed      *)
(*   "stays"  the journal cannot be removed, which is only logged          *)
(*   "dies"   the process is killed between the rename and the removal     *)

Ends(failed) ==
    {"saved"}
    \union (IF "save" \in Faults /\ failed < MaxErrors THEN {"fails"} ELSE {})
    \union (IF "remove" \in Faults /\ failed < MaxErrors THEN {"stays"} ELSE {})
    \union (IF "kill" \in Faults THEN {"dies"} ELSE {})

Reported(end) == end \in {"saved", "stays"}   (* it returned no error *)

\* Mutant of SaveLocked: the journal goes before the snapshot is written.
SaveRetiresFirst(data, end, half) ==
    /\ snap' = IF end \in {"fails", "dies"} THEN snap ELSE data
    /\ journal' = IF end = "stays" THEN journal ELSE NoEntries
    /\ torn' = (half /\ end = "stays")
    /\ up' = (end # "dies")
    /\ mem' = IF end = "dies" THEN Blank ELSE data
    /\ dirty' = (dirty /\ end = "fails")

(* half: the journal ends in half a line.                                  *)
SaveLocked(data, end, half) ==
    /\ snap' = IF end = "fails" THEN snap ELSE data
    /\ journal' = IF end = "saved" THEN NoEntries ELSE journal
    /\ torn' = (half /\ end # "saved")
    /\ up' = (end # "dies")
    /\ mem' = IF end = "dies" THEN Blank ELSE data
    /\ dirty' = (dirty /\ end = "fails")

Failures(end) == IF end \in {"fails", "stays"} THEN 1 ELSE 0

(* A method that changes the data to data and the relay's clock to ref, and *)
(* saves; a merge ignores the error, so does the snapshot loop.            *)
SaveIgnored(data, ref) ==
    \E end \in Ends(errors) :
        /\ SaveLocked(data, end, torn)
        /\ serverRef' = IF end = "dies" THEN 0 ELSE ref
        /\ errors' = errors + Failures(end)
        /\ valid' = [k \in Keys |-> valid[k] \union {data.records[k]}]

-----------------------------------------------------------------------------
(* A fresh install, an existing session, or a file of version 1.           *)

Init ==
    /\ up = FALSE /\ mem = Blank /\ serverRef = 0 /\ dirty = FALSE
    /\ \/ snap = Blank
       \/ \E w \in Walls, v \in Values, some \in SUBSET Keys :
             snap = [Blank EXCEPT
                        !.version = 1, !.node.wall = w,
                        !.records = [k \in Keys |->
                            IF k \in some THEN [NoRecord EXCEPT !.val = v] ELSE NoRecord]]
    /\ journal = NoEntries /\ torn = FALSE
    /\ relay = NoEntries
    /\ stamps = {} /\ errors = 0
    /\ valid = [k \in Keys |-> {Upgraded(snap).records[k]}]
    /\ behind = FALSE

-----------------------------------------------------------------------------
(* loadSession: read the snapshot, seed the clock, replay, save.  If the   *)
(* save fails the session does not open.                                   *)

Load ==
    /\ ~up
    /\ \E now \in Walls : \E seed \in Seeds(Upgraded(snap), now) : \E end \in Ends(errors) :
           LET seeded == [Upgraded(snap) EXCEPT
                             !.node = [wall |-> seed.wall, ctr |-> seed.ctr,
                                       dev |-> Self, nonce |-> 0]]
           IN  /\ \A s \in Seeds(Upgraded(snap), now) : ~Less(seed, s)
               /\ IF end = "fails"
                  THEN UNCHANGED <<process, disk, history>>
                  ELSE /\ SaveLocked(Replayed(seeded, journal), end, torn)
                       /\ serverRef' = 0
                       /\ behind' = (journal # NoEntries)
                       /\ UNCHANGED valid
               /\ errors' = errors + Failures(end)
    /\ UNCHANGED <<relay, stamps>>

Kill ==
    /\ up /\ "kill" \in Faults
    /\ up' = FALSE /\ mem' = Blank /\ serverRef' = 0 /\ dirty' = FALSE
    /\ UNCHANGED <<disk, relay, stamps, errors, history>>

(* Close: a last snapshot if it is needed, then the process ends.          *)
Close ==
    /\ up
    /\ up' = FALSE /\ mem' = Blank /\ serverRef' = 0 /\ dirty' = FALSE
    /\ IF dirty
       THEN \E end \in Ends(errors) :
               /\ snap' = IF end = "fails" THEN snap ELSE mem
               /\ journal' = IF end = "saved" THEN NoEntries ELSE journal
               /\ torn' = (torn /\ end # "saved")
               /\ errors' = errors + Failures(end)
       ELSE UNCHANGED <<disk, errors>>
    /\ UNCHANGED <<relay, stamps, history>>

(* snapshotLoop.                                                           *)
Snapshot ==
    /\ up /\ dirty
    /\ SaveIgnored(mem, serverRef)
    /\ UNCHANGED <<relay, stamps, behind>>

(* SetResolvers, SetCameraSlug, MarkImported, ClearImported: save, dirty   *)
(* or not.                                                                 *)
Resave ==
    /\ up
    /\ SaveIgnored(mem, serverRef)
    /\ UNCHANGED <<relay, stamps, behind>>

(* SetCursor: only remembered by the next snapshot.                        *)
SetCursor ==
    /\ up
    /\ dirty' = TRUE
    /\ UNCHANGED <<up, mem, serverRef, disk, relay, stamps, errors, history>>

-----------------------------------------------------------------------------
(* SetDecision.  The append ends in one of these ways:                     *)
(*   "written"  the line is in the file (behind half a line, it is lost)   *)
(*   "nothing"  an error, and nothing was written                          *)
(*   "torn"     an error, and half a line was written                      *)
(*   "dies"     the process is killed with half a line written             *)

AppendEnds ==
    {"written"}
    \union (IF "append" \in Faults /\ errors < MaxErrors THEN {"nothing", "torn"} ELSE {})
    \union (IF "kill" \in Faults THEN {"dies"} ELSE {})

(* nextHLCLocked.                                                          *)
NextClock(now) ==
    Tick(mem.node, Self, now, IF serverRef > 0 THEN serverRef + MaxSkew ELSE 0)

Decided(k, v, clock, nonce) ==
    [mem EXCEPT !.records[k] = [val |-> v, hlc |-> [clock EXCEPT !.nonce = nonce], mig |-> FALSE],
                !.acked[k] = FALSE,
                !.node = clock]

(* The append worked.                                                      *)
Journalled(data, k) ==
    /\ mem' = data /\ up' = TRUE /\ dirty' = TRUE
    /\ journal' = IF torn THEN journal ELSE [journal EXCEPT ![k] = data.records[k]]
    /\ torn' = FALSE
    /\ valid' = [valid EXCEPT ![k] = {data.records[k]}]
    /\ UNCHANGED <<snap, serverRef, errors>>

(* The append failed: write the whole file.                                *)
FellBack(data, k, end, half) ==
    /\ SaveLocked(data, end, half)
    /\ errors' = errors + 1 + Failures(end)
    /\ valid' = [valid EXCEPT ![k] = IF Reported(end) THEN {data.records[k]}
                                     ELSE @ \union {data.records[k]}]
    /\ serverRef' = IF end = "dies" THEN 0 ELSE serverRef

DiedAppending ==
    /\ up' = FALSE /\ mem' = Blank /\ serverRef' = 0 /\ dirty' = FALSE
    /\ torn' = TRUE
    /\ UNCHANGED <<snap, journal, errors, valid>>

SetDecision(k) ==
    /\ up /\ Cardinality(stamps) < MaxEdits
    /\ \E v \in Values, now \in Walls, nonce \in Nonces, append \in AppendEnds :
           LET clock == NextClock(now)
               data  == Decided(k, v, clock, nonce)
           IN  /\ data.records[k].hlc \notin stamps
               /\ stamps' = stamps \union {data.records[k].hlc}
               /\ behind' = (behind \/ (serverRef > 0 /\ mem.node.wall > serverRef + MaxSkew))
               /\ \/ append = "written" /\ Journalled(data, k)
                  \/ /\ append \in {"nothing", "torn"}
                     /\ \E end \in Ends(errors + 1) :
                            FellBack(data, k, end, torn \/ append = "torn")
                  \/ append = "dies" /\ DiedAppending
    /\ UNCHANGED relay

-----------------------------------------------------------------------------
(* The sync half.                                                          *)

Later(ref, now) == IF now > ref THEN now ELSE ref

(* Rows that win are taken, clean; registers of acks become clean too.     *)
Adopted(rows, acks, clock) ==
    LET won == {k \in Keys : rows[k] # NoRecord /\ RecordWins(rows[k], mem.records[k])}
    IN  [mem EXCEPT
            !.records = [k \in Keys |-> IF k \in won THEN rows[k] ELSE @[k]],
            !.acked = [k \in Keys |-> @[k] \/ k \in won \union acks],
            !.node = clock]

(* The node clock after merging rows: the latest of it and what was taken. *)
MergedClock(rows, clock) ==
    LET clocks == {mem.node} \union
                  {rows[k].hlc : k \in {j \in Keys : rows[j] # NoRecord
                                                     /\ RecordWins(rows[j], mem.records[j])}}
    IN  clock \in clocks /\ \A c \in clocks : ~Less(clock, c)

Rows(some) == [k \in Keys |-> IF k \in some THEN relay[k] ELSE NoRecord]

(* The answer to a pull: rows above the high-water, which moves past them. *)
ApplyRemote ==
    /\ up
    /\ \E some \in SUBSET {k \in Keys : relay[k] # mem.known[k]}, now \in ServerNows :
       \E clock \in {mem.node} \union {relay[k].hlc : k \in some} :
           /\ some # {}
           /\ MergedClock(Rows(some), clock)
           /\ SaveIgnored([Adopted(Rows(some), {}, clock) EXCEPT
                              !.known = [k \in Keys |-> IF k \in some THEN relay[k] ELSE @[k]]],
                          Later(serverRef, now))
    /\ UNCHANGED <<relay, stamps, behind>>

(* A pull without rows, or any answer that changes nothing: only the       *)
(* relay's clock is remembered, and nothing is saved.                      *)
HearClock ==
    /\ up
    /\ \E now \in ServerNows : serverRef' = Later(serverRef, now)
    /\ UNCHANGED <<up, mem, dirty, disk, relay, stamps, errors, history>>

Outbox == {k \in Keys : mem.records[k] # NoRecord /\ ~mem.acked[k]}

AfterPush == [k \in Keys |-> IF k \in Outbox /\ RecordWins(mem.records[k], relay[k])
                             THEN mem.records[k] ELSE relay[k]]

(* The outbox reaches the relay, and the answer is lost.                   *)
PushArrives ==
    /\ up /\ Outbox # {}
    /\ relay' = AfterPush
    /\ UNCHANGED <<process, disk, stamps, errors, history>>

(* It reaches the relay, and AckPush merges the winners of the answer.     *)
AckPush ==
    /\ up /\ Outbox # {}
    /\ relay' = AfterPush
    /\ LET rows == [k \in Keys |-> IF k \in Outbox THEN AfterPush[k] ELSE NoRecord]
           acks == {k \in Outbox : mem.records[k].hlc = rows[k].hlc}
       IN  \E now \in ServerNows, clock \in {mem.node} \union {rows[k].hlc : k \in Outbox} :
               /\ MergedClock(rows, clock)
               /\ SaveIgnored(Adopted(rows, acks, clock), Later(serverRef, now))
    /\ UNCHANGED <<stamps, behind>>

(* The relay started over.  What it then lacks is FujiSync's subject; here *)
(* the other devices have filled it again.                                 *)
ResetForEpoch ==
    /\ up
    /\ SaveIgnored([mem EXCEPT !.acked = [k \in Keys |-> FALSE], !.known = NoEntries], serverRef)
    /\ UNCHANGED <<relay, stamps, behind>>

(* Another device pushes.                                                  *)
OtherPush(k) ==
    /\ \E r \in Remotes[k] : RecordWins(r, relay[k]) /\ relay' = [relay EXCEPT ![k] = r]
    /\ UNCHANGED <<process, disk, stamps, errors, history>>

-----------------------------------------------------------------------------

Next ==
    \/ Load \/ Kill \/ Close \/ Snapshot \/ Resave \/ SetCursor
    \/ \E k \in Keys : SetDecision(k)
    \/ ApplyRemote \/ HearClock \/ PushArrives \/ AckPush \/ ResetForEpoch
    \/ \E k \in Keys : OtherPush(k)

Spec == Init /\ [][Next]_vars

-----------------------------------------------------------------------------
(* Properties.                                                             *)

TypeOK ==
    /\ up \in BOOLEAN /\ dirty \in BOOLEAN /\ torn \in BOOLEAN /\ behind \in BOOLEAN
    /\ mem \in Data /\ snap \in Data /\ serverRef \in Nat
    /\ journal \in [Keys -> Register] /\ relay \in [Keys -> Register]
    /\ stamps \subseteq HLC /\ errors \in 0 .. MaxErrors
    /\ valid \in [Keys -> SUBSET Register]

(* A decision that was reported as saved survives whatever happens to the  *)
(* process: the next start finds it, or what the session held for that     *)
(* shot later - never what it replaced.                                    *)
DecisionsSurvive == \A k \in Keys : Recovered(k) \in valid[k]

(* A register only changes to one that wins over it, and so does not come  *)
(* back from the next merge - unless the node clock is behind.             *)
Supersedes(k) ==
    up /\ up' /\ mem'.records[k] # mem.records[k]
        => RecordWins(mem'.records[k], mem.records[k])

EditsWin == [][~behind' => \A k \in Keys : Supersedes(k)]_vars

(* What the comments of the clock promise: that holds in any case.         *)
EditsAlwaysWin == [][\A k \in Keys : Supersedes(k)]_vars

(* A device that will not ask for a row again still holds it or a winner,  *)
(* or will push what it holds instead and be told.                         *)
HighWaterHonest ==
    up => \A k \in Keys : mem.known[k] # NoRecord =>
              /\ mem.records[k] # NoRecord
              /\ mem.acked[k] => Covers(mem.records[k], mem.known[k])

=============================================================================
