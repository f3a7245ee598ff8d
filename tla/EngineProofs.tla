---------------------------- MODULE EngineProofs ----------------------------
(***************************************************************************)
(* Proofs about the smaller parts of the engine: what is on the server     *)
(* (Presence), previews (Previews), the session that decisions go to       *)
(* (Startup) and bursts (Bursts); and about the instance that checks them  *)
(* together with the streams (MCEngine).  They hold for any catalog, any   *)
(* number of requests and cameras, and with every fault of the modules.    *)
(***************************************************************************)
EXTENDS MCEngine, VideoStreamProofs

-----------------------------------------------------------------------------
(* Presence.                                                               *)

Marks == [Frames -> {"-", "0", "1"}]
True(marks) == \A s \in Frames : marks[s] = "1" => s \in server \cup unsent

AskerTypes ==
    asker \in [at : {"queue", "ask", "book", "flush", "write"}, tick : BOOLEAN,
               answer : [Frames -> {"-", "duplicate", "unsupported", "accept"}]]
ImportTypes == importing \in [shots : SUBSET Frames, uploads : BOOLEAN, over : BOOLEAN]
MarkTypes == present \in Marks /\ saved \in Marks /\ snapshot \in Marks

(* Whatever says that a shot is on the server is right: what is known and what is
   on its way to the disk, but for what an import marked that did not upload, and
   what the server has answered. *)
AllTrue ==
    /\ True(present) /\ True(saved) /\ True(snapshot)
    /\ \A s \in Frames : asker.answer[s] = "duplicate" => s \in server

PresenceInv == MarkTypes /\ AskerTypes /\ ImportTypes /\ AllTrue

LEMMA PresenceStarts == PresenceInit => PresenceInv
  <1> SUFFICES ASSUME PresenceInit PROVE PresenceInv
    OBVIOUS
  <1>1. MarkTypes /\ AskerTypes /\ ImportTypes
    BY DEF PresenceInit, MarkTypes, AskerTypes, ImportTypes, Marks, Nothing, Waiting, NoImport
  <1>2. AllTrue
    BY DEF PresenceInit, AllTrue, True, Nothing, Waiting, NoImport
  <1> QED BY <1>1, <1>2 DEF PresenceInv

(* The steps that change none of it but the place of the worker. *)
LEMMA WaitingIsAsker ==
  ASSUME NEW at \in {"queue", "ask", "book", "flush", "write"}, NEW tick \in BOOLEAN,
         asker' = [Waiting EXCEPT !.at = at, !.tick = tick] \/ asker' = [Waiting EXCEPT !.at = at]
  PROVE  AskerTypes' /\ \A s \in Frames : asker'.answer[s] = "-"
  BY DEF Waiting, Nothing, AskerTypes

LEMMA AskerSteps ==
  ASSUME PresenceInv, AskerStep
  PROVE  PresenceInv'
  <1> USE DEF PresenceInv
  <1>0. AfterBooking = Waiting \/ AfterBooking = [Waiting EXCEPT !.at = "flush"]
    BY Zenon DEF AfterBooking
  <1>a. ASSUME asker' = AfterBooking
        PROVE  AskerTypes' /\ \A s \in Frames : asker'.answer[s] = "-"
    <2>1. asker' = Waiting \/ asker' = [Waiting EXCEPT !.at = "flush"]
      BY <1>0, <1>a, Zenon
    <2>2. CASE asker' = Waiting
      BY <2>2 DEF Waiting, Nothing, AskerTypes
    <2>3. CASE asker' = [Waiting EXCEPT !.at = "flush"]
      BY <2>3 DEF Waiting, Nothing, AskerTypes
    <2> QED BY <2>1, <2>2, <2>3
  <1>1. CASE Take
    <2>1. asker' = asker \/ asker' = [asker EXCEPT !.at = "ask"]
      BY <1>1 DEF Take
    <2>2. AskerTypes' /\ asker'.answer = asker.answer
      BY <2>1 DEF AskerTypes
    <2> QED BY <1>1, <2>2 DEF Take, MarkTypes, ImportTypes, AllTrue, True, Marks
  <1>2. CASE Tick
    <2>1. AskerTypes' /\ \A s \in Frames : asker'.answer[s] = "-"
      BY <1>2, WaitingIsAsker DEF Tick
    <2> QED BY <1>2, <2>1 DEF Tick, MarkTypes, ImportTypes, AllTrue, True, Marks
  <1>3. CASE ServerAnswers
    <2>1. CASE asker' = [asker EXCEPT !.at = "book",
                             !.answer = [s \in Frames |-> IF s \in ids THEN Verdict(s) ELSE "-"]]
      <3>1. AskerTypes' /\ \A s \in Frames : asker'.answer[s] = "duplicate" => s \in server
        BY <2>1 DEF AskerTypes, Verdict
      <3> QED BY <1>3, <3>1 DEF ServerAnswers, MarkTypes, ImportTypes, AllTrue, True, Marks
    <2>2. CASE asker' = AfterBooking
      <3>1. AskerTypes' /\ \A s \in Frames : asker'.answer[s] = "-"
        BY <1>a, <2>2
      <3> QED BY <1>3, <3>1 DEF ServerAnswers, MarkTypes, ImportTypes, AllTrue, True, Marks
    <2> QED BY <1>3, <2>1, <2>2 DEF ServerAnswers
  <1>4. CASE Book
    <2>1. AskerTypes' /\ \A s \in Frames : asker'.answer[s] = "-"
      BY <1>a, <1>4 DEF Book
    <2>2. present' \in Marks /\ True(present)'
      BY <1>4 DEF Book, Badge, MarkTypes, Marks, True, AllTrue
    <2> QED BY <1>4, <2>1, <2>2 DEF Book, MarkTypes, ImportTypes, AllTrue, True, Marks
  <1>5. CASE FlushTakes
    <2>1. AskerTypes' /\ \A s \in Frames : asker'.answer[s] = "-"
      BY <1>5 DEF FlushTakes, Waiting, Nothing, AskerTypes
    <2> QED BY <1>5, <2>1 DEF FlushTakes, MarkTypes, ImportTypes, AllTrue, True, Marks
  <1>6. CASE FlushWrites
    <2>1. AskerTypes' /\ \A s \in Frames : asker'.answer[s] = "-"
      BY <1>6 DEF FlushWrites, Waiting, Nothing, AskerTypes
    <2> QED BY <1>6, <2>1 DEF FlushWrites, MarkTypes, ImportTypes, AllTrue, True, Marks
  <1> QED BY <1>1, <1>2, <1>3, <1>4, <1>5, <1>6 DEF AskerStep

LEMMA ImportSteps ==
  ASSUME PresenceInv, ImportBegins \/ ImportUploads \/ ImportFails \/ MarkUploaded
  PROVE  PresenceInv'
  <1> USE DEF PresenceInv
  <1>1. CASE ImportBegins
    <2>1. importing' \in [shots : SUBSET Frames, uploads : BOOLEAN, over : BOOLEAN]
      BY <1>1 DEF ImportBegins
    <2> QED BY <1>1, <2>1 DEF ImportBegins, MarkTypes, AskerTypes, ImportTypes, AllTrue, True, Marks
  <1>2. CASE ImportUploads
    <2>1. server \subseteq server'
      BY <1>2 DEF ImportUploads
    <2> QED BY <1>2, <2>1 DEF ImportUploads, MarkTypes, AskerTypes, ImportTypes, AllTrue, True, Marks
  <1>3. CASE ImportFails
    <2>1. ImportTypes' /\ importing'.over
      BY <1>3 DEF ImportFails, NoImport, ImportTypes
    <2> QED BY <1>3, <2>1 DEF ImportFails, MarkTypes, AskerTypes, AllTrue, True, Marks
  <1>4. CASE MarkUploaded
    <2>1. ImportTypes' /\ importing'.over
      BY <1>4 DEF MarkUploaded, NoImport, ImportTypes
    <2>2. importing.shots \subseteq server \cup unsent' /\ unsent \subseteq unsent'
      BY <1>4 DEF MarkUploaded
    <2>3. present' \in Marks /\ True(present)'
      BY <1>4, <2>2 DEF MarkUploaded, MarkTypes, Marks, True, AllTrue
    <2> QED BY <1>4, <2>1, <2>3 DEF MarkUploaded, MarkTypes, AskerTypes, AllTrue, True, Marks
  <1> QED BY <1>1, <1>2, <1>3, <1>4

LEMMA PresenceKept ==
  ASSUME PresenceInv, [PresenceNext]_presenceVars
  PROVE  PresenceInv'
  <1>1. CASE AskerStep
    BY <1>1, AskerSteps
  <1>2. CASE \E s \in Frames : Lands(s) \/ Evicted(s)
    BY <1>2
    DEF Lands, Evicted, PresenceInv, MarkTypes, AskerTypes, ImportTypes, AllTrue, True, Marks
  <1>3. CASE ImportBegins \/ ImportUploads \/ ImportFails \/ MarkUploaded
    BY <1>3, ImportSteps
  <1>4. CASE Reboot
    <2>1. AskerTypes' /\ \A s \in Frames : asker'.answer[s] = "-"
      BY <1>4 DEF Reboot, Waiting, Nothing, AskerTypes
    <2>2. ImportTypes' /\ importing'.over
      BY <1>4 DEF Reboot, NoImport, ImportTypes
    <2>3. MarkTypes' /\ UNCHANGED <<server, unsent, saved>> /\ present' = saved /\ snapshot' = Nothing
      BY <1>4 DEF Reboot, PresenceInv, MarkTypes, Marks, Nothing
    <2> QED BY <2>1, <2>2, <2>3 DEF PresenceInv, AllTrue, True, Nothing
  <1>5. CASE UNCHANGED presenceVars
    BY <1>5 DEF presenceVars, PresenceInv, MarkTypes, AskerTypes, ImportTypes, AllTrue, True, Marks
  <1> QED BY <1>1, <1>2, <1>3, <1>4, <1>5 DEF PresenceNext

(* A badge is true, in memory and on disk, or an import put it up that was told not
   to upload, whatever request was under way, whatever failed, and after a restart. *)
THEOREM BadgesAreTrue == PresenceSpec => []BadgeHonest
  <1>1. PresenceInv => BadgeHonest
    BY DEF PresenceInv, AllTrue, True, BadgeHonest
  <1>2. PresenceInv /\ [PresenceNext]_presenceVars => PresenceInv'
    BY PresenceKept
  <1> QED BY <1>1, <1>2, PresenceStarts, PTL DEF PresenceSpec

(* The types, which do not need what is true of the badges. *)
QueueTypes == queue \in Seq(Frames) /\ Len(queue) <= QueueMax
SetTypes ==
    /\ server \subseteq Frames \ Refused /\ unsent \subseteq Frames
    /\ held \subseteq Frames /\ ids \subseteq Frames
FlagTypes == changed \in BOOLEAN /\ unwritten \in BOOLEAN

LEMMA QueueKept ==
  ASSUME QueueTypes, SetTypes, [PresenceNext]_presenceVars
  PROVE  QueueTypes'
  <1> USE PresenceAssumption DEF QueueTypes
  <1>1. ASSUME NEW s \in Frames, Lands(s) PROVE QueueTypes'
    <2>1. queue' = queue \/ (queue' = Append(queue, s) /\ Len(queue) < QueueMax)
      BY <1>1 DEF Lands, Enqueue
    <2> QED BY <2>1
  <1>2. CASE Take
    <2>1. queue' = Tail(queue) /\ queue # <<>>
      BY <1>2 DEF Take
    <2> QED BY <2>1
  <1>3. CASE Reboot
    <2>1. PICK n \in 0..QueueMax : queue' \in [1..n -> {s \in held : saved[s] = "-"}]
      BY <1>3 DEF Reboot
    <2>2. queue' \in [1..n -> Frames]
      BY <2>1 DEF SetTypes
    <2>3. queue' \in Seq(Frames) /\ Len(queue') = n
      BY <2>2
    <2> QED BY <2>3
  <1>4. CASE UNCHANGED queue
    BY <1>4
  <1> QED
    BY <1>1, <1>2, <1>3, <1>4
    DEF PresenceNext, AskerStep, Tick, ServerAnswers, Book, FlushTakes, FlushWrites, Evicted,
        ImportBegins, ImportUploads, ImportFails, MarkUploaded, presenceVars

LEMMA SetsKept ==
  ASSUME QueueTypes, SetTypes, ImportTypes, [PresenceNext]_presenceVars
  PROVE  SetTypes'
  <1> USE PresenceAssumption DEF SetTypes
  <1>1. CASE Take
    <2>1. Head(queue) \in Frames
      BY <1>1 DEF Take, QueueTypes
    <2> QED BY <1>1, <2>1 DEF Take
  <1>2. CASE ImportUploads
    BY <1>2 DEF ImportUploads, ImportTypes
  <1>3. CASE \E s \in Frames : Lands(s) \/ Evicted(s)
    BY <1>3 DEF Lands, Evicted
  <1>4. CASE MarkUploaded
    BY <1>4 DEF MarkUploaded, ImportTypes
  <1>5. CASE ids' \in {ids, {}} /\ UNCHANGED <<server, held, unsent>>
    BY <1>5
  <1> QED
    BY <1>1, <1>2, <1>3, <1>4, <1>5
    DEF PresenceNext, AskerStep, Tick, ServerAnswers, Book, FlushTakes, FlushWrites,
        ImportBegins, ImportFails, Reboot, presenceVars

LEMMA FlagsKept ==
  ASSUME FlagTypes, [PresenceNext]_presenceVars
  PROVE  FlagTypes'
  BY Zenon DEF FlagTypes, PresenceNext, AskerStep, Take, Tick, ServerAnswers, Book, FlushTakes, FlushWrites,
        Lands, Evicted, ImportBegins, ImportUploads, ImportFails, MarkUploaded, Reboot, presenceVars

LEMMA PresenceMarksKept ==
  ASSUME MarkTypes, [PresenceNext]_presenceVars
  PROVE  MarkTypes'
  <1>2. CASE Book \/ MarkUploaded
    BY <1>2 DEF Book, Badge, MarkUploaded, MarkTypes, Marks
  <1>3. CASE present' \in {present, saved} /\ saved' \in {saved, snapshot} /\ snapshot' \in {snapshot, present, Nothing}
    BY <1>3 DEF MarkTypes, Marks, Nothing
  <1> QED
    BY <1>2, <1>3
    DEF PresenceNext, AskerStep, Take, Tick, ServerAnswers, FlushTakes, FlushWrites, Lands, Evicted,
        ImportBegins, ImportUploads, ImportFails, Reboot, presenceVars

LEMMA AskerKept ==
  ASSUME AskerTypes, [PresenceNext]_presenceVars
  PROVE  AskerTypes'
  <1>0. AfterBooking = Waiting \/ AfterBooking = [Waiting EXCEPT !.at = "flush"]
    BY Zenon DEF AfterBooking
  <1>1. ASSUME \/ asker' = Waiting \/ asker' = AfterBooking \/ asker' = [Waiting EXCEPT !.at = "write"]
               \/ asker' = [Waiting EXCEPT !.at = "flush", !.tick = TRUE]
               \/ asker' = [Waiting EXCEPT !.at = "ask", !.tick = TRUE]
        PROVE  AskerTypes'
    <2>1. CASE asker' = Waiting
      BY <2>1 DEF Waiting, Nothing, AskerTypes
    <2>2. CASE asker' = AfterBooking /\ asker' # Waiting
      BY <1>0, <2>2, WaitingIsAsker
    <2> QED BY <1>1, <2>1, <2>2, WaitingIsAsker
  <1>2. CASE Take
    BY <1>2 DEF Take, AskerTypes
  <1>3. CASE Tick
    <2>1. asker' = [Waiting EXCEPT !.at = "flush", !.tick = TRUE]
          \/ asker' = [Waiting EXCEPT !.at = "ask", !.tick = TRUE]
      BY <1>3, Zenon DEF Tick
    <2> QED BY <1>1, <2>1
  <1>4. CASE ServerAnswers
    <2>1. CASE asker' = [asker EXCEPT !.at = "book",
                             !.answer = [s \in Frames |-> IF s \in ids THEN Verdict(s) ELSE "-"]]
      BY <2>1 DEF AskerTypes, Verdict
    <2> QED BY <1>1, <1>4, <2>1 DEF ServerAnswers
  <1>5. CASE asker' = asker
    BY <1>5 DEF AskerTypes
  <1>6. CASE FlushTakes
    <2>1. asker' = Waiting \/ asker' = [Waiting EXCEPT !.at = "write"]
      BY <1>6, Zenon DEF FlushTakes
    <2> QED BY <1>1, <2>1
  <1> QED
    BY <1>1, <1>2, <1>3, <1>4, <1>5, <1>6
    DEF PresenceNext, AskerStep, Book, FlushWrites, Lands, Evicted,
        ImportBegins, ImportUploads, ImportFails, MarkUploaded, Reboot, presenceVars

LEMMA ImportsKept ==
  ASSUME ImportTypes, [PresenceNext]_presenceVars
  PROVE  ImportTypes'
  <1>1. CASE ImportBegins
    <2>1. PICK shots \in SUBSET Frames, uploads \in BOOLEAN :
              importing' = [shots |-> shots, uploads |-> uploads, over |-> FALSE]
      BY <1>1 DEF ImportBegins
    <2> QED BY <2>1 DEF ImportTypes
  <1>2. CASE importing' = NoImport
    BY <1>2 DEF NoImport, ImportTypes
  <1>3. CASE importing' = importing
    BY <1>3 DEF ImportTypes
  <1> QED
    BY <1>1, <1>2, <1>3
    DEF PresenceNext, AskerStep, Take, Tick, ServerAnswers, Book, FlushTakes, FlushWrites, Lands,
        Evicted, ImportUploads, ImportFails, MarkUploaded, Reboot, presenceVars

(* Whether or not imports upload: what is known of the server keeps its types,
   the queue never grows beyond its capacity, and no shot of a type that the
   server refuses gets there. *)
THEOREM PresenceTypes == PresenceSpec => []PresenceTypeOK
  <1> DEFINE Types == MarkTypes /\ AskerTypes /\ ImportTypes /\ QueueTypes /\ SetTypes /\ FlagTypes
  <1>1. PresenceInit => Types
    <2> SUFFICES ASSUME PresenceInit PROVE Types
      OBVIOUS
    <2>1. QueueTypes
      BY PresenceAssumption DEF PresenceInit, QueueTypes
    <2>2. SetTypes /\ FlagTypes
      BY DEF PresenceInit, SetTypes, FlagTypes
    <2> QED BY <2>1, <2>2, PresenceStarts DEF PresenceInv
  <1>2. Types /\ [PresenceNext]_presenceVars => Types'
    BY PresenceMarksKept, AskerKept, ImportsKept, QueueKept, SetsKept, FlagsKept
  <1>3. Types => PresenceTypeOK
    BY DEF QueueTypes, SetTypes, FlagTypes, MarkTypes, Marks, AskerTypes, PresenceTypeOK
  <1> QED BY <1>1, <1>2, <1>3, PTL DEF PresenceSpec

(* What the disk still lacks of what is known is flagged as changed, or is what the
   worker is writing at this moment, or was given up when the last write failed. *)
OnItsWayToDisk ==
    /\ asker.at = "write" => changed \/ snapshot = present
    /\ changed \/ unwritten \/ saved = present \/ asker.at = "write"

NothingForgotten ==
    saved = present \/ unwritten \/ changed \/ (asker.at = "write" /\ snapshot = present)

LEMMA WayKept ==
  ASSUME OnItsWayToDisk, AskerTypes, [PresenceNext]_presenceVars
  PROVE  OnItsWayToDisk'
  <1> USE DEF OnItsWayToDisk
  <1>1. CASE changed'
    BY <1>1
  <1>2. CASE Take \/ Tick \/ ServerAnswers
    <2>1. asker.at # "write" /\ UNCHANGED <<changed, unwritten, saved, present, snapshot>>
      BY <1>2 DEF Take, Tick, ServerAnswers
    <2>2. asker'.at # "write"
      <3>1. AfterBooking.at # "write"
        BY DEF AfterBooking, Waiting
      <3>2. CASE Take
        BY <2>1, <3>2 DEF Take
      <3>3. CASE Tick
        BY <3>3 DEF Tick, Waiting
      <3>4. CASE ServerAnswers
        <4>1. asker \in [at : {"queue", "ask", "book", "flush", "write"}, tick : BOOLEAN,
                         answer : [Frames -> {"-", "duplicate", "unsupported", "accept"}]]
          BY DEF AskerTypes
        <4>2. CASE asker' = [asker EXCEPT !.at = "book",
                                 !.answer = [s \in Frames |-> IF s \in ids THEN Verdict(s) ELSE "-"]]
          BY <4>1, <4>2
        <4> QED BY <3>1, <3>4, <4>2 DEF ServerAnswers
      <3> QED BY <1>2, <3>2, <3>3, <3>4
    <2> QED BY <2>1, <2>2
  <1>3. CASE Book \/ MarkUploaded
    BY <1>1, <1>3 DEF Book, MarkUploaded
  <1>4. CASE FlushTakes
    BY <1>4 DEF FlushTakes, Waiting
  <1>5. CASE FlushWrites
    BY <1>5 DEF FlushWrites, Waiting
  <1>6. CASE Reboot
    BY <1>6 DEF Reboot, Waiting
  <1>7. CASE \/ \E s \in Frames : Lands(s) \/ Evicted(s)
             \/ ImportBegins \/ ImportUploads \/ ImportFails \/ UNCHANGED presenceVars
    <2>1. UNCHANGED <<asker, changed, unwritten, saved, present, snapshot>>
      BY <1>7 DEF Lands, Evicted, ImportBegins, ImportUploads, ImportFails, presenceVars
    <2> QED BY <2>1
  <1> QED BY <1>2, <1>3, <1>4, <1>5, <1>6, <1>7 DEF PresenceNext, AskerStep

(* Whatever is marked while the file is being written, and wherever the process
   dies: no mark is in memory alone without the worker knowing that it has to
   write, except after a write that failed. *)
THEOREM MarksReachTheDisk == PresenceSpec => []NothingForgotten
  <1>1. PresenceInit => AskerTypes /\ OnItsWayToDisk
    BY PresenceStarts DEF PresenceInv, PresenceInit, OnItsWayToDisk, Waiting
  <1>2. AskerTypes /\ OnItsWayToDisk /\ [PresenceNext]_presenceVars => (AskerTypes /\ OnItsWayToDisk)'
    BY WayKept, AskerKept
  <1>3. OnItsWayToDisk => NothingForgotten
    BY DEF OnItsWayToDisk, NothingForgotten
  <1> QED BY <1>1, <1>2, <1>3, PTL DEF PresenceSpec

-----------------------------------------------------------------------------
(* Previews.                                                               *)

Writers == {r \in Requests : getter[r].at \in {"upright", "sideways"}}
Encoders == {r \in Requests : getter[r].at \in {"decode", "upright", "sideways", "forget"}}

PreviewTypes ==
    /\ getter \in [Requests ->
           [at : {"idle", "wait", "claim", "once", "decode", "upright", "sideways", "forget"}, job : Nat]]
    /\ served \in [Requests -> {"none", "frame", "upright", "sideways"}]
    /\ preview \in {"none", "upright", "sideways"}

(* The job of the path is the only one that is not over. *)
JobsOver ==
    /\ jobs \in 0..MaxJobs /\ jobOf \in 0..jobs
    /\ job \in [1..MaxJobs -> {"new", "running", "done", "failed"}]
    /\ \A j \in 1..MaxJobs : jobs < j => job[j] = "new"
    /\ \A j \in 1..jobs : job[j] \in {"new", "running"} <=> j = jobOf

(* One goroutine encodes, for the job of the path; who writes aside, encodes. *)
OneEncoder ==
    /\ writing = Writers
    /\ \A r \in Encoders : jobOf # 0 /\ getter[r].job = jobOf /\ job[jobOf] = "running"
    /\ \A q, r \in Encoders : q = r
    /\ \A r \in Requests : getter[r].at = "once" => getter[r].job \in 1..jobs

PreviewInv == PreviewTypes /\ JobsOver /\ OneEncoder

LEMMA PreviewsStart == PreviewsInit => PreviewInv
  BY PreviewsAssumption
  DEF PreviewsInit, PreviewInv, PreviewTypes, JobsOver, OneEncoder, Writers, Encoders, Resting

LEMMA RequestStep ==
  ASSUME PreviewInv, NEW r \in Requests, Get(r) \/ GetStep(r)
  PROVE  PreviewInv'
  <1> USE PreviewsAssumption DEF PreviewInv, Go, Doing, Serve, Resting
  <1>1. CASE Get(r) \/ FrameReady(r) \/ JoinOnce(r)
    <2>1. PreviewTypes'
      BY <1>1 DEF Get, FrameReady, JoinOnce, PreviewTypes
    <2>2. JobsOver'
      BY <1>1 DEF Get, FrameReady, JoinOnce, JobsOver
    <2>3. Encoders' = Encoders /\ Writers' = Writers /\ UNCHANGED <<writing, jobOf, job, jobs>>
      BY <1>1 DEF Get, FrameReady, JoinOnce, PreviewTypes, Encoders, Writers
    <2>4. \A q \in Requests : q # r => getter'[q] = getter[q]
      BY <1>1 DEF Get, FrameReady, JoinOnce, PreviewTypes
    <2>5. getter'[r].at \in {"idle", "wait", "claim"}
      BY <1>1 DEF Get, FrameReady, JoinOnce, PreviewTypes
    <2>6. OneEncoder'
      BY <2>3, <2>4, <2>5 DEF OneEncoder, Encoders
    <2> QED BY <2>1, <2>2, <2>6
  <1>2. CASE Claim(r)
    <2>1. jobs \in Nat /\ jobOf \in 0..jobs
      BY <1>2 DEF JobsOver
    <2>2. PICK k \in Nat : /\ getter' = [getter EXCEPT ![r] = [at |-> "once", job |-> k]]
                           /\ k = jobOf' /\ k \in 1..jobs'
                           /\ jobOf # 0 => jobOf' = jobOf
      BY <1>2, <2>1 DEF Claim
    <2>3. PreviewTypes' /\ \A q \in Requests : q # r => getter'[q] = getter[q]
      BY <1>2, <2>2 DEF Claim, PreviewTypes
    <2>4. JobsOver'
      BY <1>2 DEF Claim, JobsOver
    <2>5. Encoders' = Encoders /\ Writers' = Writers /\ jobs' >= jobs /\ UNCHANGED <<job, writing>>
      BY <1>2, <2>1, <2>2 DEF Claim, PreviewTypes, Encoders, Writers
    <2>6. \A q \in Requests : getter'[q].at = "once" => getter'[q].job \in 1..jobs'
      BY <2>1, <2>2, <2>3, <2>4, <2>5 DEF PreviewTypes, JobsOver, OneEncoder
    <2>7. \A q \in Encoders : jobOf' # 0 /\ getter'[q].job = jobOf' /\ job'[jobOf'] = "running"
      <3>1. \A q \in Encoders : q \in Requests /\ q # r
        BY <1>2 DEF Claim, Encoders
      <3> QED BY <2>2, <2>3, <2>5, <3>1 DEF OneEncoder
    <2>8. OneEncoder'
      BY <2>5, <2>6, <2>7 DEF OneEncoder
    <2> QED BY <2>3, <2>4, <2>8
  <1>3. CASE RunOnce(r)
    <2>1. getter[r].job \in 1..jobs /\ getter[r].job = jobOf /\ Encoders = {}
      BY <1>3 DEF RunOnce, OneEncoder, JobsOver
    <2>2. PreviewTypes'
      BY <1>3 DEF RunOnce, PreviewTypes
    <2>3. JobsOver' /\ job'[jobOf] = "running"
      BY <1>3, <2>1 DEF RunOnce, JobsOver
    <2>4. Encoders' = {r} /\ Writers' = Writers
      BY <1>3, <2>1 DEF RunOnce, PreviewTypes, Encoders, Writers
    <2>5. OneEncoder'
      BY <1>3, <2>1, <2>3, <2>4 DEF RunOnce, PreviewTypes, OneEncoder
    <2> QED BY <2>2, <2>3, <2>5
  <1>4. CASE Decode(r)
    <2>1. r \in Encoders /\ r \notin Writers /\ jobOf \in 1..jobs /\ getter[r].job = jobOf
      BY <1>4 DEF Decode, Encoders, Writers, OneEncoder, JobsOver
    <2>2. CASE getter' = [getter EXCEPT ![r].at = IF turned THEN "upright" ELSE "sideways"]
               /\ writing' = writing \cup {r} /\ UNCHANGED <<job, jobOf, jobs, served, preview>>
      <3>1. getter' = [getter EXCEPT ![r].at = "upright"] \/ getter' = [getter EXCEPT ![r].at = "sideways"]
        BY <2>2
      <3>2. PreviewTypes'
        BY <2>2, <3>1 DEF PreviewTypes
      <3>5. JobsOver'
        BY <2>2 DEF JobsOver
      <3>3. Encoders' = Encoders /\ Writers' = Writers \cup {r}
        BY <2>1, <3>1 DEF PreviewTypes, Encoders, Writers
      <3>4. OneEncoder'
        BY <2>1, <2>2, <3>1, <3>3 DEF PreviewTypes, OneEncoder
      <3> QED BY <3>2, <3>4, <3>5
    <2>3. CASE /\ job' = [job EXCEPT ![getter[r].job] = "failed"] /\ jobOf' = 0
               /\ served' = [served EXCEPT ![r] = "frame"] /\ getter' = [getter EXCEPT ![r] = Resting]
               /\ UNCHANGED <<writing, jobs, preview>>
      <3>1. PreviewTypes'
        BY <2>3 DEF PreviewTypes
      <3>2. JobsOver'
        BY <2>1, <2>3 DEF JobsOver
      <3>3. Encoders' = {} /\ Writers' = Writers
        BY <2>1, <2>3 DEF PreviewTypes, OneEncoder, Encoders, Writers
      <3>4. OneEncoder'
        BY <2>3, <3>3 DEF PreviewTypes, OneEncoder
      <3> QED BY <3>1, <3>2, <3>4
    <2> QED BY <1>4, <2>2, <2>3 DEF Decode
  <1>5. CASE Rename(r)
    <2>1. writing = {r} /\ Encoders = {r}
      BY <1>5 DEF Rename, OneEncoder, Encoders, Writers
    <2>0. getter[r].at \in {"upright", "sideways"} /\ preview' = getter[r].at
      BY <1>5, <2>1 DEF Rename
    <2>2. PreviewTypes'
      BY <1>5, <2>0 DEF Rename, PreviewTypes
    <2>5. JobsOver'
      BY <1>5 DEF Rename, JobsOver
    <2>3. Encoders' = Encoders /\ Writers' = {} /\ writing' = {}
      BY <1>5, <2>1 DEF Rename, PreviewTypes, Encoders, Writers, OneEncoder
    <2>4. OneEncoder'
      BY <1>5, <2>1, <2>3 DEF Rename, PreviewTypes, OneEncoder
    <2> QED BY <2>2, <2>4, <2>5
  <1>6. CASE Forget(r)
    <2>1. r \in Encoders /\ r \notin Writers /\ jobOf \in 1..jobs /\ getter[r].job = jobOf
      BY <1>6 DEF Forget, Encoders, Writers, OneEncoder, JobsOver
    <2>2. PreviewTypes'
      BY <1>6 DEF Forget, PreviewTypes
    <2>3. JobsOver'
      BY <1>6, <2>1 DEF Forget, JobsOver
    <2>4. Encoders' = {} /\ Writers' = Writers
      BY <1>6, <2>1 DEF Forget, PreviewTypes, OneEncoder, Encoders, Writers
    <2>5. OneEncoder'
      BY <1>6, <2>4 DEF Forget, PreviewTypes, OneEncoder
    <2> QED BY <2>2, <2>3, <2>5
  <1> QED BY <1>1, <1>2, <1>3, <1>4, <1>5, <1>6 DEF GetStep

LEMMA PreviewKept ==
  ASSUME PreviewInv, [PreviewsNext]_previewVars
  PROVE  PreviewInv'
  <1>1. CASE Pull \/ HarvestOrient \/ Evict \/ UNCHANGED previewVars
    BY <1>1 DEF Pull, HarvestOrient, Evict, previewVars, PreviewInv, PreviewTypes, JobsOver, OneEncoder,
                Encoders, Writers
  <1> QED BY <1>1, RequestStep DEF PreviewsNext

(* No request is sent, and the cache never holds, a preview that two
   goroutines wrote at once, however many requests and encodes there are. *)
THEOREM PreviewsAreWhole == PreviewsSpec => []PreviewWhole
  <1>1. PreviewInv => PreviewWhole
    BY DEF PreviewInv, PreviewTypes, PreviewWhole
  <1>2. PreviewInv /\ [PreviewsNext]_previewVars => PreviewInv'
    BY PreviewKept
  <1> QED BY <1>1, <1>2, PreviewsStart, PTL DEF PreviewsSpec

(* A job that runs has the goroutine that runs it. *)
SomebodyEncodes == jobOf # 0 /\ job[jobOf] = "running" => Encoders # {}

(* Who waits for a job that runs has somebody to wait for; any other job it can
   run itself, or it is over. *)
WaitersHaveEncoder ==
    \A r \in Requests : Doing(r, "once") =>
       \/ job[getter[r].job] \in {"new", "done", "failed"}
       \/ \E q \in Encoders : getter[q].job = getter[r].job

LEMMA EncoderStays ==
  ASSUME PreviewInv, SomebodyEncodes, [PreviewsNext]_previewVars
  PROVE  SomebodyEncodes'
  <1> USE DEF PreviewInv, SomebodyEncodes, Go, Doing, Serve, Resting
  <1>1. CASE UNCHANGED <<jobOf, job, getter>>
    BY <1>1 DEF Encoders
  <1>2. ASSUME NEW r \in Requests, Get(r) \/ FrameReady(r) \/ JoinOnce(r) \/ Rename(r)
        PROVE  SomebodyEncodes'
    <2>1. UNCHANGED <<jobOf, job>>
      BY <1>2 DEF Get, FrameReady, JoinOnce, Rename
    <2>2. \A q \in Requests : q # r => getter'[q] = getter[q]
      BY <1>2 DEF Get, FrameReady, JoinOnce, Rename, PreviewTypes
    <2>3. r \in Encoders => getter'[r].at = "forget"
      BY <1>2 DEF Get, FrameReady, JoinOnce, Rename, PreviewTypes, Encoders
    <2> QED BY <2>1, <2>2, <2>3 DEF Encoders
  <1>3. ASSUME NEW r \in Requests, Claim(r) PROVE SomebodyEncodes'
    <2>1. \A q \in Encoders : getter'[q] = getter[q]
      BY <1>3 DEF Claim, PreviewTypes, Encoders
    <2>2. jobOf' = jobOf \/ job[jobOf'] = "new"
      BY <1>3, PreviewsAssumption DEF Claim, JobsOver
    <2>3. job' = job
      BY <1>3 DEF Claim
    <2> QED BY <2>1, <2>2, <2>3 DEF Encoders
  <1>4. ASSUME NEW r \in Requests, RunOnce(r) PROVE SomebodyEncodes'
    <2>1. getter'[r].at = "decode"
      BY <1>4 DEF RunOnce, PreviewTypes
    <2> QED BY <2>1 DEF Encoders
  <1>5. ASSUME NEW r \in Requests, Decode(r) PROVE SomebodyEncodes'
    <2>1. CASE jobOf' = 0
      BY <2>1
    <2>2. CASE jobOf' # 0
      <3>1. getter'[r].at \in {"upright", "sideways"}
        BY <1>5, <2>2 DEF Decode, PreviewTypes
      <3> QED BY <3>1 DEF Encoders
    <2> QED BY <2>1, <2>2
  <1>6. ASSUME NEW r \in Requests, Forget(r) PROVE SomebodyEncodes'
    BY <1>6 DEF Forget
  <1> QED BY <1>1, <1>2, <1>3, <1>4, <1>5, <1>6
          DEF PreviewsNext, GetStep, Pull, HarvestOrient, Evict, previewVars

(* No request is left waiting for an encode that nobody makes: however requests
   overlap, encodes fail, and the frame and its preview are evicted meanwhile. *)
THEOREM RequestsHaveEncoder == PreviewsSpec => []WaitersHaveEncoder
  <1>1. PreviewsInit => PreviewInv /\ SomebodyEncodes
    BY PreviewsStart DEF PreviewsInit, SomebodyEncodes
  <1>2. PreviewInv /\ SomebodyEncodes /\ [PreviewsNext]_previewVars => (PreviewInv /\ SomebodyEncodes)'
    BY PreviewKept, EncoderStays
  <1>3. PreviewInv /\ SomebodyEncodes => WaitersHaveEncoder
    <2> SUFFICES ASSUME PreviewInv, SomebodyEncodes, NEW r \in Requests, Doing(r, "once"),
                        job[getter[r].job] \notin {"new", "done", "failed"}
                 PROVE  \E q \in Encoders : getter[q].job = getter[r].job
      BY DEF WaitersHaveEncoder
    <2>1. getter[r].job \in 1..jobs /\ jobs \in 0..MaxJobs
      BY DEF PreviewInv, OneEncoder, JobsOver, Doing
    <2>2. job[getter[r].job] = "running"
      BY <2>1, PreviewsAssumption DEF PreviewInv, JobsOver
    <2>3. getter[r].job = jobOf /\ jobOf # 0
      BY <2>1, <2>2, PreviewsAssumption DEF PreviewInv, JobsOver
    <2>4. PICK q \in Encoders : TRUE
      BY <2>2, <2>3 DEF SomebodyEncodes
    <2> QED BY <2>3, <2>4 DEF PreviewInv, OneEncoder
  <1> QED BY <1>1, <1>2, <1>3, PTL DEF PreviewsSpec

(* A request that holds a job holds one that was made. *)
LEMMA JobsHeld ==
  ASSUME PreviewInv, \A r \in Requests : getter[r].job <= jobs, [PreviewsNext]_previewVars
  PROVE  \A r \in Requests : getter'[r].job <= jobs'
  <1> USE DEF PreviewInv, PreviewTypes, Go, Serve, Resting
  <1>0. jobs \in Nat /\ jobOf \in 0..jobs
    BY PreviewsAssumption DEF JobsOver
  <1>1. ASSUME NEW q \in Requests, Claim(q) PROVE \A r \in Requests : getter'[r].job <= jobs'
    <2>1. jobs' \in Nat /\ jobs <= jobs'
      BY <1>0, <1>1 DEF Claim
    <2>2. PICK k \in 0..jobs' : getter' = [getter EXCEPT ![q] = [at |-> "once", job |-> k]]
      BY <1>0, <1>1 DEF Claim
    <2> QED BY <1>0, <2>1, <2>2
  <1>2. ASSUME NEW q \in Requests,
               Get(q) \/ FrameReady(q) \/ RunOnce(q) \/ JoinOnce(q) \/ Decode(q) \/ Rename(q) \/ Forget(q)
        PROVE  \A r \in Requests : getter'[r].job <= jobs'
    <2>1. jobs' = jobs /\ \A r \in Requests : getter'[r].job \in {getter[r].job, 0}
      BY <1>2 DEF Get, FrameReady, RunOnce, JoinOnce, Decode, Rename, Forget
    <2> QED BY <1>0, <2>1
  <1>3. CASE UNCHANGED <<getter, jobs>>
    BY <1>3
  <1> QED BY <1>1, <1>2, <1>3 DEF PreviewsNext, GetStep, Pull, HarvestOrient, Evict, previewVars

LEMMA FrameKept ==
  ASSUME frame \in {"none", "ready"}, turned \in BOOLEAN, [PreviewsNext]_previewVars
  PROVE  frame' \in {"none", "ready"} /\ turned' \in BOOLEAN
  BY DEF PreviewsNext, GetStep, Get, FrameReady, Claim, RunOnce, JoinOnce, Decode, Rename, Forget,
         Pull, HarvestOrient, Evict, previewVars

(* The state of a preview keeps its types. *)
THEOREM PreviewsTyped == PreviewsSpec => []PreviewsTypeOK
  <1> DEFINE Types == /\ PreviewInv /\ frame \in {"none", "ready"} /\ turned \in BOOLEAN
                      /\ \A r \in Requests : getter[r].job <= jobs
  <1>1. PreviewsInit => Types
    BY PreviewsStart DEF PreviewsInit, Resting
  <1>2. Types /\ [PreviewsNext]_previewVars => Types'
    BY PreviewKept, JobsHeld, FrameKept
  <1>3. Types => PreviewsTypeOK
    <2> SUFFICES ASSUME Types PROVE PreviewsTypeOK
      OBVIOUS
    <2>1. \A r \in Requests : getter[r].job \in 0..jobs
      BY PreviewsAssumption DEF PreviewInv, PreviewTypes, JobsOver
    <2>2. writing \subseteq Requests
      BY DEF PreviewInv, OneEncoder, Writers
    <2> QED BY <2>1, <2>2 DEF PreviewInv, PreviewTypes, JobsOver, PreviewsTypeOK
  <1> QED BY <1>1, <1>2, <1>3, PTL DEF PreviewsSpec

-----------------------------------------------------------------------------
(* Startup.                                                                *)

SameBody(a, b) == a = NoBody \/ b = NoBody \/ a = b

(* One camera is attached, identified and discovered, if several of these
   happened at all; only its session takes the place of the default one. *)
OneCamera ==
    phase # "off" =>
        /\ SameBody(identity, attached) /\ SameBody(index.of, attached)
        /\ SameBody(identity, index.of)
        /\ session \in {NoBody, identity}
        /\ phase \in {"keying", "building", "ready"} => index.of # NoBody

Handling == request # "none" => phase = "ready" /\ request = session

StartupInv ==
    /\ OneCamera /\ Handling /\ SessionOwn
    /\ decided \in [Bodies \cup {NoBody} -> SUBSET (Bodies \cup {NoBody})]
    /\ {session, identity, index.of, attached} \subseteq Bodies \cup {NoBody}

LEMMA StartupStarts == StartupInit => StartupInv
  BY DEF StartupInit, StartupInv, OneCamera, Handling, SessionOwn, NoIndex

LEMMA StartupKept ==
  ASSUME StartupInv, ~Swaps, [StartupNext]_avars
  PROVE  StartupInv'
  <1> USE DEF StartupInv, SessionOwn
  <1>1. CASE \E b \in Bodies, n \in FileNames : Shoot(b, n)
    BY <1>1 DEF Shoot, app, OneCamera, Handling, SameBody
  <1>2. CASE \E b \in Bodies : Rebind(b)
    BY <1>2 DEF Rebind, app, OneCamera, Handling, SameBody
  <1>3. CASE \E b \in Bodies : Attach(b)
    BY <1>3 DEF Attach, app, OneCamera, Handling, SameBody
  <1>4. CASE Detach
    BY <1>4 DEF Detach, app, OneCamera, Handling, SameBody
  <1>5. CASE Start
    BY <1>5 DEF Start, world, NoIndex, OneCamera, Handling, SameBody
  <1>6. CASE Discover
    <2>1. identity' \in {identity, attached} /\ index'.of = attached /\ attached # NoBody /\ phase' = "keying"
      BY <1>6 DEF Discover, Told
    <2>2. phase = "discovering" /\ UNCHANGED <<attached, session, request, decided>>
      BY <1>6 DEF Discover, world
    <2>3. identity = NoBody \/ identity' = identity
      BY <1>6 DEF Discover, Told
    <2> QED BY <2>1, <2>2, <2>3 DEF OneCamera, Handling, SameBody
  <1>7. CASE DiscoverFails
    <2>1. identity' \in {identity, attached} /\ (identity = NoBody \/ identity' = identity)
      BY <1>7 DEF DiscoverFails, Told
    <2>2. UNCHANGED <<attached, phase, index, session, request, decided>>
      BY <1>7 DEF DiscoverFails, world
    <2> QED BY <1>7, <2>1, <2>2 DEF OneCamera, Handling, SameBody
  <1>8. CASE Rekey
    BY <1>8 DEF Rekey, world, OneCamera, Handling, SameBody
  <1>9. CASE FinishInit
    BY <1>9 DEF FinishInit, world, OneCamera, Handling, SameBody
  <1>10. CASE Request
    BY <1>10 DEF Request, LetIn, world, OneCamera, Handling, SameBody
  <1>11. CASE Decide
    <2>1. phase = "ready" /\ request = session /\ index.of # NoBody
      BY <1>11 DEF Decide, OneCamera, Handling
    <2>2. request \in Bodies => index.of = request
      BY <2>1, StartupAssumption DEF OneCamera, SameBody
    <2>3. SessionOwn'
      BY <1>11, <2>2 DEF Decide
    <2> QED BY <1>11, <2>3 DEF Decide, world, OneCamera, Handling, SameBody
  <1>12. CASE Rescan
    BY <1>12 DEF Rescan, world, app, OneCamera, Handling, SameBody
  <1>13. CASE Stop
    BY <1>13 DEF Stop, world, OneCamera, Handling, SameBody
  <1>14. CASE UNCHANGED avars
    BY <1>14 DEF avars, world, app, OneCamera, Handling, SameBody
  <1> QED BY <1>1, <1>2, <1>3, <1>4, <1>5, <1>6, <1>7, <1>8, <1>9, <1>10, <1>11, <1>12, <1>13, <1>14
          DEF StartupNext, StartupStep

(* If the camera is not exchanged while discovery runs, a decision is about a
   picture of the camera whose session it is in, for any number of cameras,
   starts, failures and sessions that could not be read. *)
THEOREM SessionsAreOwn ==
  ASSUME ~Swaps
  PROVE  StartupSpec => []SessionOwn
  <1>1. StartupInv /\ [StartupNext]_avars => StartupInv'
    BY StartupKept
  <1>2. StartupInv => SessionOwn
    BY DEF StartupInv
  <1> QED BY <1>1, <1>2, StartupStarts, PTL DEF StartupSpec

(* Whether or not the camera is exchanged, a handler that was let in works on
   the session of the application: none is let in before the session was keyed. *)
THEOREM NoHandlerOnOldSession == StartupSpec => []NoOldSession
  <1>1. StartupInit => Handling
    BY DEF StartupInit, Handling
  <1>2. Handling /\ [StartupNext]_avars => Handling'
    BY DEF Handling, StartupNext, StartupStep, avars, world, app, Shoot, Rebind, Attach, Detach, Start,
           Discover, DiscoverFails, Rekey, FinishInit, Request, LetIn, Decide, Rescan, Stop
  <1>3. Handling => NoOldSession
    BY DEF Handling, NoOldSession
  <1> QED BY <1>1, <1>2, <1>3, PTL DEF StartupSpec

(* Whatever the catalog cache held and whatever the camera did not answer, a
   handle that discovery found reads the file it is listed for. *)
THEOREM IndexIsTrue == StartupSpec => IndexTrue
  <1> DEFINE Step == phase = "discovering" /\ phase' = "keying" =>
                        \A n \in FileNames : index'.entries[n] # Unknown =>
                            /\ index'.entries[n].handle = binding[attached][n]
                            /\ index'.bulk => index'.entries[n].pic = card[attached][n]
  <1>1. [StartupNext]_avars => [Step]_avars
    <2> SUFFICES ASSUME StartupNext, phase = "discovering", phase' = "keying",
                        NEW n \in FileNames, index'.entries[n] # Unknown
                 PROVE  /\ index'.entries[n].handle = binding[attached][n]
                        /\ index'.bulk => index'.entries[n].pic = card[attached][n]
      OBVIOUS
    <2>1. Discover
      BY DEF StartupNext, StartupStep, Shoot, Rebind, Attach, Detach, Start, DiscoverFails, Rekey,
             FinishInit, Request, Decide, Rescan, Stop, app
    <2>2. PICK bulk \in BOOLEAN, answered \in BOOLEAN :
              index' = [of |-> attached, bulk |-> bulk, entries |-> Entries(bulk, answered)]
      BY <2>1 DEF Discover
    <2>3. index'.entries[n] \in {Diffed(bulk)[n], FullyListed[n]} \ {Unknown} /\ index'.bulk = bulk
      BY <2>2 DEF Entries, Listing
    <2>4. FullyListed[n] = Live(n) /\ (bulk => Diffed(bulk)[n] = Live(n)) /\ Diffed(bulk)[n].handle = Live(n).handle
      BY DEF FullyListed, Diffed, Live
    <2> QED BY <2>3, <2>4 DEF Live
  <1> QED BY <1>1, PTL DEF StartupSpec, IndexTrue

Cards == [Bodies -> [FileNames -> 0..MaxPictures]]
Phases == {"off", "discovering", "keying", "building", "ready"}

LEMMA CardsKept ==
  ASSUME card \in Cards, binding \in [Bodies -> Bindings], taken \in Nat, taken <= MaxPictures,
         [StartupNext]_avars
  PROVE  card' \in Cards /\ binding' \in [Bodies -> Bindings] /\ taken' \in Nat /\ taken' <= MaxPictures
  <1> USE StartupAssumption DEF Cards
  <1>1. ASSUME NEW b \in Bodies, NEW n \in FileNames, Shoot(b, n)
        PROVE  card' \in Cards /\ UNCHANGED binding /\ taken' \in Nat /\ taken' <= MaxPictures
    <2>1. taken' \in 0..MaxPictures /\ card' = [card EXCEPT ![b] = [card[b] EXCEPT ![n] = taken']]
      BY <1>1 DEF Shoot
    <2>2. [card[b] EXCEPT ![n] = taken'] \in [FileNames -> 0..MaxPictures]
      BY <2>1
    <2> QED BY <1>1, <2>1, <2>2 DEF Shoot
  <1>2. ASSUME NEW b \in Bodies, Rebind(b) PROVE UNCHANGED <<card, taken>> /\ binding' \in [Bodies -> Bindings]
    BY <1>2 DEF Rebind
  <1>3. CASE UNCHANGED <<card, taken, binding>>
    BY <1>3
  <1> QED
    BY <1>1, <1>2, <1>3
    DEF StartupNext, StartupStep, Attach, Detach, Start, Discover, DiscoverFails, Rekey, FinishInit,
        Request, Decide, Rescan, Stop, world, avars

(* What is keyed has been discovered: a decision is about a camera. *)
SessionsOf == Bodies \cup {NoBody}
Keyed ==
    /\ attached \in SessionsOf /\ identity \in SessionsOf /\ index.of \in SessionsOf /\ session \in SessionsOf
    /\ phase \in Phases
    /\ phase \in {"keying", "building", "ready"} => index.of \in Bodies
    /\ request \in SessionsOf \cup {"none"}
    /\ request # "none" => phase = "ready" /\ request \in SessionsOf
    /\ decided \in [SessionsOf -> SUBSET Bodies]

LEMMA KeyedKept ==
  ASSUME Keyed, [StartupNext]_avars
  PROVE  Keyed'
  <1> USE StartupAssumption DEF Keyed, Phases, SessionsOf
  <1>1. CASE Discover
    <2>1. identity' \in {identity, attached} /\ index'.of = attached /\ attached # NoBody /\ phase' = "keying"
      BY <1>1 DEF Discover, Told
    <2>2. phase = "discovering" /\ UNCHANGED <<attached, session, request, decided>>
      BY <1>1 DEF Discover, world
    <2> QED BY <2>1, <2>2
  <1>2. CASE DiscoverFails
    <2>1. identity' \in {identity, attached}
      BY <1>2 DEF DiscoverFails, Told
    <2> QED BY <1>2, <2>1 DEF DiscoverFails, world
  <1>3. CASE Decide
    <2>1. request \in SessionsOf /\ index.of \in Bodies
      BY <1>3 DEF Decide
    <2>2. decided' \in [SessionsOf -> SUBSET Bodies]
      BY <1>3, <2>1 DEF Decide
    <2> QED BY <1>3, <2>2 DEF Decide, world
  <1>4. CASE Rekey \/ FinishInit \/ Request \/ Start \/ Stop \/ Rescan \/ Detach
    BY <1>4 DEF Rekey, FinishInit, Request, LetIn, Start, Stop, Rescan, Detach, NoIndex, world, app
  <1>5. ASSUME NEW b \in Bodies, Rebind(b) \/ Attach(b) \/ \E n \in FileNames : Shoot(b, n) PROVE Keyed'
    BY <1>5 DEF Rebind, Attach, Shoot, app
  <1>6. CASE UNCHANGED avars
    BY <1>6 DEF avars, world, app
  <1> QED BY <1>1, <1>2, <1>3, <1>4, <1>5, <1>6 DEF StartupNext, StartupStep

(* Whether or not the camera is exchanged: the state keeps its types, and a
   decision is never made before there is a camera that it is about. *)
THEOREM StartupTyped == StartupSpec => []StartupTypeOK
  <1> DEFINE Types == /\ card \in Cards /\ binding \in [Bodies -> Bindings]
                      /\ taken \in Nat /\ taken <= MaxPictures /\ Keyed
  <1>1. StartupInit => Types
    BY StartupAssumption DEF StartupInit, Cards, Keyed, Phases, SessionsOf, NoIndex
  <1>2. Types /\ [StartupNext]_avars => Types'
    BY CardsKept, KeyedKept
  <1>3. Types => StartupTypeOK
    BY DEF Cards, Keyed, Phases, SessionsOf, StartupTypeOK
  <1> QED BY <1>1, <1>2, <1>3, PTL DEF StartupSpec

-----------------------------------------------------------------------------
(* Bursts.  What BurstBest finds by walking through the catalog is stated   *)
(* without the walk: a run is what lies between two breaks.                 *)

BurstTypes ==
    /\ takenAt \in [Roll -> Nat] /\ sharp \in [Roll -> 0..BestScore]
    /\ \A i \in ClipsAt : takenAt[i] = 0 /\ sharp[i] = 0

LEMMA BurstsStart == BurstsInit => BurstTypes
  BY BurstAssumption DEF BurstsInit, BurstTypes

LEMMA BurstsKept ==
  ASSUME BurstTypes, [BurstsNext]_burstVars
  PROVE  BurstTypes'
  <1> USE BurstAssumption DEF BurstTypes
  <1>1. ASSUME NEW i \in Roll, NEW t \in 1..LastSecond, NoteTaken(i, t) PROVE BurstTypes'
    BY <1>1 DEF NoteTaken
  <1>2. ASSUME NEW i \in Roll, NEW score \in 1..BestScore, NoteSharp(i, score) PROVE BurstTypes'
    BY <1>2 DEF NoteSharp
  <1>3. CASE UNCHANGED burstVars
    BY <1>3 DEF burstVars
  <1> QED BY <1>1, <1>2, <1>3 DEF BurstsNext

(* Frame j and the next one are of one burst: what Continues says of any run. *)
Joined(j) == Continues(j, j)

LEMMA JoinedAre == \A i, j : Continues(i, j) <=> Joined(j)
  BY DEF Continues, Joined

(* b is the end of the run that a is in; a the first frame, from lo on, of the
   run that b is in. *)
Ends(a, b) == b \in a..RollSize /\ ~Joined(b) /\ \A m \in a..(b - 1) : Joined(m)
Begins(lo, a, b) == a \in lo..b /\ (a = lo \/ ~Joined(a - 1)) /\ \A m \in a..(b - 1) : Joined(m)

LEMMA EndExists ==
  ASSUME NEW a \in Roll
  PROVE  \E b \in Roll : Ends(a, b)
  <1> USE BurstAssumption DEF Roll
  <1> DEFINE breaks == {b \in a..RollSize : ~Joined(b)}
  <1>1. RollSize \in breaks
    BY DEF Joined, Continues
  <1>2. breaks \subseteq Nat /\ breaks # {}
    BY <1>1
  <1> HIDE DEF breaks
  <1>3. PICK b \in breaks : \A y \in breaks : b <= y
    BY <1>2, Smallest
  <1> QED BY <1>3 DEF breaks, Ends

LEMMA EndUnique ==
  ASSUME NEW a \in Roll, NEW b \in Roll, NEW c \in Roll, Ends(a, b), Ends(a, c)
  PROVE  b = c
  BY BurstAssumption DEF Roll, Ends

LEMMA BeginExists ==
  ASSUME NEW lo \in Roll, NEW b \in Roll, lo <= b
  PROVE  \E a \in Roll : Begins(lo, a, b)
  <1> USE BurstAssumption DEF Roll
  <1> DEFINE heads == {a \in lo..b : \A m \in a..(b - 1) : Joined(m)}
  <1>1. b \in heads
    OBVIOUS
  <1>2. heads \subseteq Nat /\ heads # {}
    BY <1>1
  <1> HIDE DEF heads
  <1>3. PICK a \in heads : \A y \in heads : a <= y
    BY <1>2, Smallest
  <1>4. a \in lo..b /\ \A m \in a..(b - 1) : Joined(m)
    BY <1>3 DEF heads
  <1>5. ASSUME a # lo, Joined(a - 1) PROVE FALSE
    <2>1. a - 1 \in heads
      BY <1>4, <1>5 DEF heads
    <2> QED BY <1>3, <1>4, <2>1
  <1> QED BY <1>4, <1>5 DEF Begins

LEMMA BeginUnique ==
  ASSUME NEW lo \in Roll, NEW a \in Roll, NEW c \in Roll, NEW b \in Roll,
         Begins(lo, a, b), Begins(lo, c, b)
  PROVE  a = c
  BY BurstAssumption DEF Roll, Begins

(* RunEnd is the end of the run: by the function that recurs as RunEnd does. *)
Reaches(i, g) == g = [j \in Roll |-> IF Continues(i, j) THEN g[j + 1] ELSE j]

LEMMA RunEndDef == ASSUME NEW i PROVE RunEnd(i) = (CHOOSE g : Reaches(i, g))[i]
  BY DEF RunEnd, Reaches

LEMMA ReachesEnd ==
  ASSUME NEW i, NEW g, Reaches(i, g), NEW j \in Roll
  PROVE  Ends(j, g[j])
  <1> USE BurstAssumption DEF Roll
  <1> DEFINE astray == {d \in Nat : RollSize - d \in Roll /\ ~Ends(RollSize - d, g[RollSize - d])}
  <1>1. SUFFICES ASSUME astray # {} PROVE FALSE
    <2>1. RollSize - j \in Nat /\ RollSize - (RollSize - j) = j
      OBVIOUS
    <2> QED BY <2>1
  <1>2. astray \subseteq Nat
    OBVIOUS
  <1> HIDE DEF astray
  <1>3. PICK d \in astray : \A y \in astray : d <= y
    BY <1>1, <1>2, Smallest
  <1> DEFINE k == RollSize - d
  <1>4. d \in Nat /\ k \in Roll /\ ~Ends(k, g[k])
    BY <1>3 DEF astray
  <1>5. g[k] = IF Joined(k) THEN g[k + 1] ELSE k
    BY <1>4, JoinedAre DEF Reaches
  <1>6. Joined(k)
    BY <1>4, <1>5 DEF Ends
  <1>7. k + 1 \in Roll
    BY <1>4, <1>6 DEF Joined, Continues
  <1>8. d - 1 \in Nat /\ RollSize - (d - 1) = k + 1 /\ ~(d <= d - 1)
    BY <1>4, <1>7
  <1>9. Ends(k + 1, g[k + 1])
    BY <1>3, <1>7, <1>8 DEF astray
  <1> HIDE DEF k
  <1>10. g[k] = g[k + 1] /\ g[k] \in (k + 1)..RollSize /\ ~Joined(g[k])
         /\ \A m \in (k + 1)..(g[k] - 1) : Joined(m)
    BY <1>5, <1>6, <1>9 DEF Ends
  <1>11. \A m \in k..(g[k] - 1) : m = k \/ m \in (k + 1)..(g[k] - 1)
    BY <1>4, <1>10
  <1>12. g[k] \in k..RollSize
    BY <1>4, <1>10
  <1> QED BY <1>4, <1>6, <1>10, <1>11, <1>12 DEF Ends

LEMMA RunEndIs ==
  ASSUME NEW i \in Roll
  PROVE  RunEnd(i) \in Roll /\ Ends(i, RunEnd(i))
  <1> USE BurstAssumption DEF Roll
  <1> DEFINE last(j) == CHOOSE b \in Roll : Ends(j, b)
             g == [j \in Roll |-> last(j)]
  <1>1. \A j \in Roll : last(j) \in Roll /\ Ends(j, last(j))
    BY EndExists
  <1> HIDE DEF last
  <1>2. ASSUME NEW j \in Roll PROVE g[j] = IF Joined(j) THEN g[j + 1] ELSE j
    <2>1. CASE Joined(j)
      <3>1. j + 1 \in Roll
        BY <2>1 DEF Joined, Continues
      <3>2. Ends(j + 1, last(j + 1)) /\ last(j + 1) \in Roll
        BY <1>1, <3>1
      <3>3. Ends(j, last(j + 1))
        <4>1. \A m \in j..(last(j + 1) - 1) : m = j \/ m \in (j + 1)..(last(j + 1) - 1)
          BY <3>2
        <4> QED BY <2>1, <3>2, <4>1 DEF Ends
      <3>4. last(j) = last(j + 1)
        BY <1>1, <3>2, <3>3, EndUnique
      <3> QED BY <2>1, <3>1, <3>4
    <2>2. CASE ~Joined(j)
      <3>1. Ends(j, j)
        BY <2>2 DEF Ends
      <3>2. last(j) = j
        BY <1>1, <3>1, EndUnique
      <3> QED BY <2>2, <3>2
    <2> QED BY <2>1, <2>2
  <1>3. Reaches(i, g)
    BY <1>2, JoinedAre DEF Reaches
  <1>4. Reaches(i, CHOOSE h : Reaches(i, h))
    BY <1>3
  <1>5. Ends(i, RunEnd(i))
    BY <1>4, ReachesEnd, RunEndDef
  <1> QED BY <1>5 DEF Ends

(* The frames from lo on that are the best of their run, if the walk starts at lo. *)
BestFrom(lo) ==
    {k \in Roll : lo <= k /\ \E a, b \in Roll : Begins(lo, a, k) /\ Ends(k, b) /\ k \in Winner(a, b)}

(* Behind a break, it is the same whether the walk starts before the break or after. *)
LEMMA BehindBreak ==
  ASSUME NEW lo \in Roll, NEW e \in Roll, lo <= e, ~Joined(e), NEW a \in Roll, NEW k \in Roll, e < k
  PROVE  Begins(lo, a, k) <=> Begins(e + 1, a, k)
  BY BurstAssumption DEF Roll, Begins

(* The walk over one run, and over one video. *)
LEMMA WalkRun ==
  ASSUME NEW lo \in Roll, NEW e \in Roll, Ends(lo, e)
  PROVE  BestFrom(lo) = Winner(lo, e) \cup BestFrom(e + 1)
  <1> USE BurstAssumption DEF Roll
  <1>1. lo <= e /\ ~Joined(e)
    BY DEF Ends
  <1>2. ASSUME NEW k \in Roll, e < k
        PROVE  k \in BestFrom(lo) <=> k \in BestFrom(e + 1)
    BY <1>1, <1>2, BehindBreak DEF BestFrom
  <1>3. ASSUME NEW k \in Roll, k <= e
        PROVE  k \in BestFrom(lo) <=> k \in Winner(lo, e)
    <2>1. CASE lo <= k
      <3>1. Begins(lo, lo, k) /\ Ends(k, e)
        BY <1>3, <2>1 DEF Begins, Ends
      <3>2. \A a, b \in Roll : Begins(lo, a, k) /\ Ends(k, b) => a = lo /\ b = e
        BY <3>1, BeginUnique, EndUnique
      <3> QED BY <2>1, <3>1, <3>2 DEF BestFrom
    <2>2. CASE ~(lo <= k)
      BY <2>2 DEF BestFrom, Winner
    <2> QED BY <2>1, <2>2
  <1>4. \A k \in BestFrom(e + 1) : k \in Roll /\ e < k
    BY DEF BestFrom
  <1>5. \A k \in Winner(lo, e) : k \in Roll /\ k <= e
    BY DEF Winner
  <1>6. BestFrom(lo) \subseteq Roll
    BY DEF BestFrom
  <1> HIDE DEF Roll
  <1>7. \A k \in Roll : k <= e \/ e < k
    BY DEF Roll
  <1> QED BY <1>2, <1>3, <1>4, <1>5, <1>6, <1>7

LEMMA WalkVideo ==
  ASSUME BurstTypes, NEW lo \in ClipsAt
  PROVE  BestFrom(lo) = BestFrom(lo + 1)
  <1> USE BurstAssumption
  <1>1. lo \in Roll /\ Ends(lo, lo)
    BY DEF Roll, Ends, Joined, Continues, BurstTypes
  <1>2. Winner(lo, lo) = {}
    BY <1>1 DEF Winner, BurstTypes, Roll
  <1> QED BY <1>1, <1>2, WalkRun

LEMMA WalkEnds == BestFrom(RollSize + 1) = {}
  BY BurstAssumption DEF BestFrom, Roll

(* BurstBest is the walk. *)
Walks(g) ==
    g = [i \in 1..(RollSize + 1) |->
            IF i > RollSize THEN {}
            ELSE IF i \in ClipsAt THEN g[i + 1]
            ELSE Winner(i, RunEnd(i)) \cup g[RunEnd(i) + 1]]

LEMMA BurstBestDef == BurstBest = (CHOOSE g : Walks(g))[1]
  BY DEF BurstBest, Walks

LEMMA WalkIsBest ==
  ASSUME BurstTypes, NEW g, Walks(g), NEW i \in 1..(RollSize + 1)
  PROVE  g[i] = BestFrom(i)
  <1> USE BurstAssumption
  <1> DEFINE astray == {d \in Nat : RollSize + 1 - d \in 1..(RollSize + 1)
                                    /\ g[RollSize + 1 - d] # BestFrom(RollSize + 1 - d)}
  <1>1. SUFFICES ASSUME astray # {} PROVE FALSE
    <2>1. RollSize + 1 - i \in Nat /\ RollSize + 1 - (RollSize + 1 - i) = i
      OBVIOUS
    <2> QED BY <2>1
  <1>2. astray \subseteq Nat
    OBVIOUS
  <1> HIDE DEF astray
  <1>3. PICK d \in astray : \A y \in astray : d <= y
    BY <1>1, <1>2, Smallest
  <1> DEFINE k == RollSize + 1 - d
  <1>4. d \in Nat /\ k \in 1..(RollSize + 1) /\ g[k] # BestFrom(k)
    BY <1>3 DEF astray
  <1>5. ASSUME NEW n \in 1..(RollSize + 1), k < n PROVE g[n] = BestFrom(n)
    <2>1. RollSize + 1 - n \in Nat /\ RollSize + 1 - (RollSize + 1 - n) = n /\ ~(d <= RollSize + 1 - n)
      BY <1>4, <1>5
    <2> QED BY <1>3, <2>1 DEF astray
  <1> HIDE DEF k
  <1>6. k # RollSize + 1
    BY <1>4, WalkEnds DEF Walks
  <1>7. k \in Roll
    BY <1>4, <1>6 DEF Roll
  <1>a. \A n \in Roll : n \in 1..(RollSize + 1) /\ ~(n > RollSize)
    BY DEF Roll
  <1>b. \A n \in Roll : g[n] = IF n \in ClipsAt THEN g[n + 1]
                               ELSE Winner(n, RunEnd(n)) \cup g[RunEnd(n) + 1]
    BY <1>a DEF Walks
  <1>8. CASE k \in ClipsAt
    <2>1. g[k] = g[k + 1]
      BY <1>7, <1>8, <1>b
    <2>2. g[k + 1] = BestFrom(k + 1)
      BY <1>5, <1>7 DEF Roll
    <2> QED BY <1>4, <1>8, <2>1, <2>2, WalkVideo
  <1>9. CASE k \notin ClipsAt
    <2> DEFINE e == RunEnd(k)
    <2>1. e \in Roll /\ Ends(k, e) /\ e + 1 \in 1..(RollSize + 1) /\ k < e + 1
      BY <1>7, RunEndIs DEF Roll, Ends
    <2>2. g[k] = Winner(k, e) \cup g[e + 1]
      BY <1>7, <1>9, <1>b
    <2> HIDE DEF e
    <2>3. g[e + 1] = BestFrom(e + 1)
      BY <1>5, <2>1
    <2> QED BY <1>4, <1>7, <2>1, <2>2, <2>3, WalkRun
  <1> QED BY <1>8, <1>9

LEMMA BurstBestIs ==
  ASSUME BurstTypes
  PROVE  BurstBest = BestFrom(1)
  <1> USE BurstAssumption
  <1> DEFINE g == [i \in 1..(RollSize + 1) |-> BestFrom(i)]
  <1>1. ASSUME NEW i \in 1..(RollSize + 1)
        PROVE  g[i] = IF i > RollSize THEN {}
                      ELSE IF i \in ClipsAt THEN g[i + 1]
                      ELSE Winner(i, RunEnd(i)) \cup g[RunEnd(i) + 1]
    <2>1. CASE i > RollSize
      BY <2>1, WalkEnds
    <2>2. CASE i \in ClipsAt /\ ~(i > RollSize)
      BY <2>2, WalkVideo DEF Roll
    <2>3. CASE i \notin ClipsAt /\ ~(i > RollSize)
      <3>1. i \in Roll
        BY <2>3 DEF Roll
      <3>2. RunEnd(i) \in Roll /\ Ends(i, RunEnd(i))
        BY <3>1, RunEndIs
      <3>3. RunEnd(i) + 1 \in 1..(RollSize + 1)
        BY <3>2 DEF Roll
      <3>4. BestFrom(i) = Winner(i, RunEnd(i)) \cup BestFrom(RunEnd(i) + 1)
        BY <3>1, <3>2, WalkRun
      <3> QED BY <2>3, <3>3, <3>4
    <2> QED BY <2>1, <2>2, <2>3
  <1>2. Walks(g)
    BY <1>1 DEF Walks
  <1>3. Walks(CHOOSE h : Walks(h))
    BY <1>2
  <1> QED BY <1>3, WalkIsBest, BurstBestDef

LEMMA DoubletonSize ==
  ASSUME NEW x, NEW y, x # y
  PROVE  Cardinality({x, y}) = 2
  <1>1. IsFiniteSet({x}) /\ Cardinality({x}) = 1
    BY FS_Singleton
  <1>2. Cardinality({x} \cup {y}) = Cardinality({x}) + 1
    BY <1>1, FS_AddElement
  <1>3. {x, y} = {x} \cup {y}
    OBVIOUS
  <1>4. Cardinality({x} \cup {y}) = 2
    BY <1>1, <1>2
  <1> QED BY <1>3, <1>4

(* The best of one run: of two measured frames there is one, never two, and it
   has beaten another. *)
LEMMA WinnerExists ==
  ASSUME BurstTypes, NEW a \in Roll, NEW b \in Roll, NEW i \in a..b, NEW j \in a..b,
         i # j, sharp[i] > 0, sharp[j] > 0
  PROVE  \E k \in Winner(a, b) : TRUE
  <1>0. \A n \in Roll : sharp[n] \in Nat
    BY DEF BurstTypes
  <1> USE BurstAssumption DEF Roll, BurstTypes
  <1> DEFINE measured == {m \in a..b : sharp[m] > 0}
             short == {BestScore - sharp[m] : m \in a..b}
  <1>1. short \subseteq Nat /\ short # {}
    <2>1. \A m \in a..b : m \in Roll /\ sharp[m] \in 0..BestScore
      OBVIOUS
    <2> QED BY <2>1
  <1> HIDE DEF short
  <1>2. PICK d \in short : \A y \in short : d <= y
    BY <1>1, Smallest
  <1> DEFINE top == {m \in a..b : BestScore - sharp[m] = d}
  <1>3. top \subseteq Nat /\ top # {}
    <2>1. PICK m \in a..b : d = BestScore - sharp[m]
      BY DEF short
    <2>2. m \in top
      BY <2>1
    <2>3. top \subseteq a..b /\ a..b \subseteq Nat
      OBVIOUS
    <2> HIDE DEF top
    <2> QED BY <2>2, <2>3
  <1> HIDE DEF top
  <1>4. PICK k \in top : \A y \in top : k <= y
    BY <1>3, Smallest
  <1>5. k \in a..b /\ BestScore - sharp[k] = d
    BY <1>4 DEF top
  <1>6. ASSUME NEW m \in a..b
        PROVE  sharp[m] < sharp[k] \/ (sharp[m] = sharp[k] /\ k <= m)
    <2>1. BestScore - sharp[m] \in short /\ m \in Roll /\ k \in Roll
      BY <1>5 DEF short
    <2>2. d <= BestScore - sharp[m] /\ sharp[m] \in Nat /\ sharp[k] \in Nat
      <3>1. d <= BestScore - sharp[m]
        BY <1>2, <2>1
      <3> QED BY <1>0, <2>1, <3>1
    <2>3. CASE BestScore - sharp[m] = d
      <3>1. m \in top
        BY <2>3 DEF top
      <3> QED BY <1>4, <1>5, <2>2, <2>3, <3>1
    <2> QED BY <1>5, <2>2, <2>3
  <1>7. Cardinality(measured) >= 2
    <2>1. IsFiniteSet(measured) /\ Cardinality(measured) \in Nat
      <3>1. IsFiniteSet(a..b)
        BY FS_Interval
      <3>2. measured \subseteq a..b
        OBVIOUS
      <3> HIDE DEF measured
      <3> QED BY <3>1, <3>2, FS_Subset, FS_CardinalityType
    <2>2. {i, j} \subseteq measured
      OBVIOUS
    <2> HIDE DEF measured
    <2>3. Cardinality({i, j}) = 2
      BY DoubletonSize
    <2>4. Cardinality({i, j}) <= Cardinality(measured)
      BY <2>1, <2>2, FS_Subset
    <2> QED BY <2>1, <2>3, <2>4
  <1>8. sharp[k] > 0
    <2>1. sharp[i] < sharp[k] \/ sharp[i] = sharp[k]
      BY <1>6
    <2>2. k \in Roll /\ i \in Roll
      BY <1>5
    <2>3. sharp[k] \in Nat /\ sharp[i] \in Nat
      BY <1>0, <2>2
    <2> QED BY <2>1, <2>3
  <1> QED BY <1>5, <1>6, <1>7, <1>8 DEF Winner

LEMMA WinnerOnly ==
  ASSUME BurstTypes, NEW a \in Roll, NEW b \in Roll, NEW k \in Winner(a, b), NEW l \in Winner(a, b)
  PROVE  k = l
  <1>1. {k, l} \subseteq a..b /\ {k, l} \subseteq Roll
    BY BurstAssumption DEF Winner, Roll
  <1>2. sharp[k] \in Nat /\ sharp[l] \in Nat
    BY <1>1, BurstAssumption DEF BurstTypes
  <1>3. /\ sharp[l] < sharp[k] \/ (sharp[l] = sharp[k] /\ k <= l)
        /\ sharp[k] < sharp[l] \/ (sharp[k] = sharp[l] /\ l <= k)
    BY <1>1 DEF Winner
  <1> QED BY <1>1, <1>2, <1>3, BurstAssumption DEF Roll

LEMMA WinnerHasBeaten ==
  ASSUME NEW a \in Roll, NEW b \in Roll, NEW k \in Winner(a, b)
  PROVE  \E i \in (a..b) \ {k} : sharp[i] > 0
  <1> DEFINE measured == {m \in a..b : sharp[m] > 0}
  <1>1. SUFFICES ASSUME measured \subseteq {k} PROVE FALSE
    OBVIOUS
  <1>2. Cardinality(measured) >= 2
    BY DEF Winner
  <1> HIDE DEF measured
  <1>3. IsFiniteSet({k}) /\ Cardinality({k}) = 1
    BY FS_Singleton
  <1>4. Cardinality(measured) <= Cardinality({k}) /\ Cardinality(measured) \in Nat
    BY <1>1, <1>3, FS_Subset, FS_CardinalityType
  <1> QED BY <1>2, <1>3, <1>4

(* SameBurst, as BestOfBurst says it, is to be in one run. *)
LEMMA SameAreJoined ==
  ASSUME BurstTypes, NEW i \in Roll, NEW j \in Roll, i <= j
  PROVE  /\ SameBurst(i, j) <=> \A m \in i..(j - 1) : Joined(m)
         /\ SameBurst(j, i) <=> SameBurst(i, j)
  <1> USE BurstAssumption
  <1>1. ASSUME NEW m \in i..(j - 1) PROVE Near(m, m + 1) <=> Joined(m)
    <2>1. m \in Roll /\ m + 1 \in Roll
      BY <1>1 DEF Roll
    <2>2. takenAt[m] \in Nat /\ takenAt[m + 1] \in Nat
          /\ (m \in ClipsAt => takenAt[m] = 0)
      BY <2>1 DEF BurstTypes
    <2>3. Near(m, m + 1) <=> /\ m \notin ClipsAt /\ m + 1 \notin ClipsAt /\ takenAt[m] > 0
                             /\ takenAt[m] <= takenAt[m + 1] /\ takenAt[m + 1] <= takenAt[m] + BurstGap
      BY <2>2 DEF Near
    <2>4. Joined(m) <=> /\ m + 1 \notin ClipsAt
                        /\ takenAt[m] # 0 /\ takenAt[m + 1] # 0
                        /\ takenAt[m] <= takenAt[m + 1] /\ takenAt[m + 1] - takenAt[m] <= BurstGap
      BY <2>1 DEF Joined, Continues
    <2> QED BY <2>2, <2>3, <2>4
  <1>2. SameBurst(i, j) <=> \A m \in i..(j - 1) : Near(m, m + 1)
    <2>1. CASE i < j
      BY <2>1 DEF SameBurst
    <2>2. CASE i = j
      BY <2>2 DEF SameBurst
    <2> QED BY <2>1, <2>2 DEF Roll
  <1>3. SameBurst(j, i) <=> \A m \in i..(j - 1) : Near(m, m + 1)
    <2>1. CASE i < j
      <3>1. ~(j < i)
        BY <2>1 DEF Roll
      <3> QED BY <3>1 DEF SameBurst
    <2>2. CASE i = j
      BY <2>2 DEF SameBurst
    <2> QED BY <2>1, <2>2 DEF Roll
  <1> QED BY <1>1, <1>2, <1>3

LEMMA RunIsBurst ==
  ASSUME BurstTypes, NEW i \in Roll, NEW a \in Roll, NEW b \in Roll, Begins(1, a, i), Ends(i, b),
         NEW j \in Roll
  PROVE  /\ SameBurst(i, j) <=> j \in a..b
         /\ j \in a..b => Begins(1, a, j) /\ Ends(j, b)
  <1> USE BurstAssumption
  <1>1. a <= i /\ i <= b /\ ~Joined(b) /\ (a = 1 \/ ~Joined(a - 1))
        /\ (\A m \in a..(i - 1) : Joined(m)) /\ (\A m \in i..(b - 1) : Joined(m))
    BY DEF Begins, Ends, Roll
  <1>2. \A m \in a..(b - 1) : Joined(m)
    <2>1. \A m \in a..(b - 1) : m \in a..(i - 1) \/ m \in i..(b - 1)
      BY <1>1 DEF Roll
    <2> QED BY <1>1, <2>1
  <1>3. CASE j \in a..b
    <2>1. Begins(1, a, j) /\ Ends(j, b)
      BY <1>1, <1>2, <1>3 DEF Begins, Ends, Roll
    <2>2. CASE i <= j
      <3>1. \A m \in i..(j - 1) : m \in i..(b - 1)
        BY <1>1, <1>3, <2>2 DEF Roll
      <3> QED BY <1>1, <1>3, <2>1, <2>2, <3>1, SameAreJoined
    <2>3. CASE j <= i
      <3>1. \A m \in j..(i - 1) : m \in a..(i - 1)
        BY <1>1, <1>3, <2>3 DEF Roll
      <3> QED BY <1>1, <1>3, <2>1, <2>3, <3>1, SameAreJoined
    <2> QED BY <2>2, <2>3 DEF Roll
  <1>4. CASE j < a
    <2>1. a - 1 \in j..(i - 1) /\ ~Joined(a - 1) /\ j <= i
      BY <1>1, <1>4 DEF Roll
    <2> QED BY <1>4, <2>1, SameAreJoined DEF Roll
  <1>5. CASE b < j
    <2>1. b \in i..(j - 1) /\ i <= j
      BY <1>1, <1>5 DEF Roll
    <2> QED BY <1>1, <1>5, <2>1, SameAreJoined DEF Roll
  <1> QED BY <1>3, <1>4, <1>5 DEF Roll

LEMMA EveryFrameInRun ==
  ASSUME NEW i \in Roll
  PROVE  \E a, b \in Roll : Begins(1, a, i) /\ Ends(i, b)
  <1>1. 1 \in Roll /\ 1 <= i
    BY BurstAssumption DEF Roll
  <1> QED BY <1>1, EndExists, BeginExists

LEMMA BestIsOfBurst ==
  ASSUME BurstTypes
  PROVE  BestOfBurst
  <1>1. BurstBest = BestFrom(1)
    BY BurstBestIs
  <1>2. ASSUME NEW i \in Roll, NEW j \in Roll, i # j, SameBurst(i, j), sharp[i] > 0, sharp[j] > 0
        PROVE  /\ ~({i, j} \subseteq BurstBest)
               /\ \E k \in BurstBest : SameBurst(i, k) /\ sharp[k] >= sharp[i]
    <2>1. PICK a \in Roll, b \in Roll : Begins(1, a, i) /\ Ends(i, b)
      BY EveryFrameInRun
    <2>2. i \in a..b /\ j \in a..b /\ Begins(1, a, j) /\ Ends(j, b)
      <3>1. i \in a..b
        BY <2>1 DEF Begins, Ends, Roll
      <3> QED BY <1>2, <2>1, <3>1, RunIsBurst
    <2>3. \A m \in a..b : m \in Roll /\ (m \in BurstBest <=> m \in Winner(a, b))
      <3>1. ASSUME NEW m \in a..b PROVE m \in Roll /\ 1 <= m
        BY BurstAssumption DEF Roll
      <3>2. ASSUME NEW m \in a..b PROVE Begins(1, a, m) /\ Ends(m, b)
        BY <2>1, <3>1, RunIsBurst
      <3>3. ASSUME NEW m \in a..b, NEW c \in Roll, NEW d \in Roll, Begins(1, c, m), Ends(m, d)
            PROVE  c = a /\ d = b
        <4>1. 1 \in Roll
          BY BurstAssumption DEF Roll
        <4> QED BY <3>1, <3>2, <3>3, <4>1, BeginUnique, EndUnique
      <3> QED BY <1>1, <3>1, <3>2, <3>3 DEF BestFrom
    <2>4. ~({i, j} \subseteq BurstBest)
      BY <1>2, <2>2, <2>3, WinnerOnly
    <2>5. PICK k \in Winner(a, b) : TRUE
      BY <1>2, <2>2, WinnerExists
    <2>6. k \in a..b /\ (sharp[i] < sharp[k] \/ sharp[i] = sharp[k])
      BY <2>2, <2>5 DEF Winner
    <2>7. k \in BurstBest /\ SameBurst(i, k)
      BY <2>1, <2>3, <2>5, <2>6, RunIsBurst
    <2>8. sharp[k] >= sharp[i]
      <3>1. sharp[i] \in Nat /\ sharp[k] \in Nat
        BY <2>3, <2>6, BurstAssumption DEF BurstTypes
      <3> QED BY <2>6, <3>1
    <2> QED BY <2>4, <2>7, <2>8
  <1>3. ASSUME NEW k \in BurstBest
        PROVE  /\ \E i \in Roll \ {k} : SameBurst(i, k) /\ sharp[i] > 0
               /\ \A i \in Roll : SameBurst(i, k) => sharp[i] <= sharp[k]
    <2>1. k \in Roll
      BY <1>1 DEF BestFrom
    <2>2. PICK a \in Roll, b \in Roll : Begins(1, a, k) /\ Ends(k, b) /\ k \in Winner(a, b)
      BY <1>1 DEF BestFrom
    <2>3. ASSUME NEW i \in Roll PROVE SameBurst(i, k) <=> i \in a..b
      <3>1. SameBurst(k, i) <=> i \in a..b
        BY <2>1, <2>2, RunIsBurst
      <3>2. SameBurst(k, i) <=> SameBurst(i, k)
        BY <2>1, SameAreJoined, BurstAssumption DEF Roll
      <3> QED BY <3>1, <3>2
    <2>4. PICK i \in (a..b) \ {k} : sharp[i] > 0
      BY <2>2, WinnerHasBeaten
    <2>5. i \in Roll \ {k}
      BY <2>4, BurstAssumption DEF Roll
    <2>6. ASSUME NEW m \in Roll, SameBurst(m, k) PROVE sharp[m] <= sharp[k]
      <3>1. sharp[m] < sharp[k] \/ sharp[m] = sharp[k]
        BY <2>2, <2>3, <2>6 DEF Winner
      <3>2. sharp[m] \in Nat /\ sharp[k] \in Nat
        BY <2>1, BurstAssumption DEF BurstTypes
      <3> QED BY <3>1, <3>2
    <2> QED BY <2>3, <2>4, <2>5, <2>6
  <1> QED BY <1>2, <1>3 DEF BestOfBurst

(* In whatever order capture times and scores come in: of the measured frames
   of every burst one and only one is shown as the best, and no frame is that
   has not beaten another. *)
THEOREM BestAreOfBurst == BurstsSpec => []BestOfBurst
  <1>1. BurstTypes /\ [BurstsNext]_burstVars => BurstTypes'
    BY BurstsKept
  <1>2. BurstTypes => BestOfBurst
    BY BestIsOfBurst
  <1> QED BY <1>1, <1>2, BurstsStart, PTL DEF BurstsSpec

-----------------------------------------------------------------------------
(* The parts together, with the streams.                                   *)

allVars == <<part, svars, avars, presenceVars, previewVars, burstVars>>

LEMMA StreamPart == MCInit /\ [][MCNext]_allVars => StreamSpec
  <1>1. MCInit => StreamInit
    BY DEF MCInit
  <1>2. [MCNext]_allVars => [StreamNext]_svars
    BY DEF MCNext, allVars
  <1> QED BY <1>1, <1>2, PTL DEF StreamSpec

LEMMA StartPart == MCInit /\ [][MCNext]_allVars => StartupSpec
  <1>1. MCInit => StartupInit
    BY DEF MCInit
  <1>2. [MCNext]_allVars => [StartupNext]_avars
    BY DEF MCNext, allVars
  <1> QED BY <1>1, <1>2, PTL DEF StartupSpec

LEMMA PresencePart == MCInit /\ [][MCNext]_allVars => PresenceSpec
  <1>1. MCInit => PresenceInit
    BY DEF MCInit
  <1>2. [MCNext]_allVars => [PresenceNext]_presenceVars
    BY DEF MCNext, allVars
  <1> QED BY <1>1, <1>2, PTL DEF PresenceSpec

LEMMA PreviewPart == MCInit /\ [][MCNext]_allVars => PreviewsSpec
  <1>1. MCInit => PreviewsInit
    BY DEF MCInit
  <1>2. [MCNext]_allVars => [PreviewsNext]_previewVars
    BY DEF MCNext, allVars
  <1> QED BY <1>1, <1>2, PTL DEF PreviewsSpec

LEMMA BurstPart == MCInit /\ [][MCNext]_allVars => BurstsSpec
  <1>1. MCInit => BurstsInit
    BY DEF MCInit
  <1>2. [MCNext]_allVars => [BurstsNext]_burstVars
    BY DEF MCNext, allVars
  <1> QED BY <1>1, <1>2, PTL DEF BurstsSpec

LEMMA PartsOnly == MCSpec => MCInit /\ [][MCNext]_allVars
  BY PTL DEF MCSpec, allVars

(* Whichever part of the engine runs, the state of all of them keeps its types:
   each part does on its own variables only what its specification allows. *)
THEOREM EngineTyped == MCSpec => []MCTypeOK
  <1>1. StreamTypeOK /\ StartupTypeOK /\ PresenceTypeOK /\ PreviewsTypeOK => MCTypeOK
    BY DEF MCTypeOK
  <1> QED BY <1>1, PartsOnly, StreamPart, StartPart, PresencePart, PreviewPart,
             StreamTyped, StartupTyped, PresenceTypes, PreviewsTyped, PTL

=============================================================================
