---------------------------- MODULE VideoStream ----------------------------
(***************************************************************************)
(* Playing videos off the camera (internal/cull/stream.go) and the other   *)
(* readers of parts of files (prefetch.go), over the link of CameraLink.   *)
(*                                                                         *)
(* A part is read through a session, a child process that has the camera   *)
(* for itself (internal/mtppart/serve.go).  The prefetcher keeps one, for  *)
(* its worker, an import and the heads of videos; a stream has its own.    *)
(* Sessions are numbered as they are opened.  A session answers one        *)
(* request at a time, and nothing in an answer says which request it is    *)
(* for: bytes left in the pipe would be taken for the next answer.         *)
(*                                                                         *)
(* streamMu is held from one step to the next only while a stream is       *)
(* opened, see lock; it is released while the camera is read.              *)
(***************************************************************************)
EXTENDS CameraLink

CONSTANTS
    Clips,        (* videos *)
    Chunks,       (* chunks of a video; 0 is its head *)
    Viewers,      (* goroutines that read a stream or the head of a video *)
    Nobody,       (* holds no lock, is no clip *)
    MaxSessions,  (* bound: sessions started *)
    MaxReads,     (* bound: calls of the viewers *)
    MaxWork,      (* bound: things the worker starts *)
    MaxMishaps    (* bound: faults of the camera *)

ASSUME StreamAssumption ==
    /\ {"stream", "import"} = Owners /\ 0 \in Chunks
    /\ Nobody \notin Viewers \cup Clips
    /\ {MaxSessions, MaxReads, MaxWork, MaxMishaps} \subseteq Nat

VARIABLES
    opened,    (* sessions started so far *)
    open,      (* those whose process runs *)
    poisoned,  (* those whose framing is not to be trusted *)
    dirty,     (* those with bytes in the pipe that nobody will ask for *)
    stream,    (* p.stream: its session, or 0 *)
    parts,     (* p.partsSrv, or 0 *)
    playing,   (* the clip of the stream *)
    cached,    (* the chunks the stream holds *)
    inflight,  (* inflight[n]: the chunks being read *)
    lock,      (* who holds streamMu while a stream is opened *)
    viewer,    (* viewer[v]: what the goroutine does *)
    using,     (* using[u]: the session the worker or the import reads, or 0 *)
    sick,      (* partSick *)
    reads, works, mishaps

sessVars == <<opened, open, poisoned, dirty>>
streamVars == <<stream, playing, cached, inflight>>
countVars == <<reads, works, mishaps>>
svars == <<linkVars, sessVars, streamVars, parts, lock, viewer, using, sick, countVars>>

Sessions == 1..MaxSessions
Answers == {"bytes", "foreign", "garbage", "error"}
Idle == [at |-> "idle", clip |-> Nobody, chunk |-> 0, from |-> 0, got |-> "nothing"]

StreamInit ==
    /\ LinkInit
    /\ opened = 0 /\ open = {} /\ poisoned = {} /\ dirty = {}
    /\ stream = 0 /\ parts = 0
    /\ playing = Nobody
    /\ cached = {} /\ inflight = [n \in Sessions |-> {}]
    /\ lock = Nobody
    /\ viewer = [v \in Viewers |-> Idle]
    /\ using = [u \in {"worker", "import"} |-> 0]
    /\ sick = FALSE
    /\ reads = 0 /\ works = 0 /\ mishaps = 0

Mishap == mishaps < MaxMishaps /\ mishaps' = mishaps + 1

-----------------------------------------------------------------------------
(* Sessions.                                                               *)

StartServer ==
    /\ opened < MaxSessions
    /\ opened' = opened + 1

(* What a session answers to a request, and how that leaves it.  An answer
   that cannot be parsed leaves its payload in the pipe; whatever is in the
   pipe is what the next request gets. *)
\* Mutant of Answer: a session that lost its framing is used again.
AnswerAnyway(n, got) ==
    \/ n \notin open /\ got = "error" /\ UNCHANGED <<poisoned, dirty, mishaps>>
    \/ /\ n \in open
       /\ got = IF n \in dirty THEN "foreign" ELSE "bytes"
       /\ UNCHANGED <<poisoned, dirty, mishaps>>
    \/ /\ n \in open
       /\ got = "error" /\ Mishap
       /\ dirty' = dirty \cup {n}
       /\ UNCHANGED poisoned

Answer(n, got) ==
    \/ n \in open \cap poisoned /\ got = "error" /\ UNCHANGED <<poisoned, dirty, mishaps>>
    \/ n \notin open /\ got = "error" /\ UNCHANGED <<poisoned, dirty, mishaps>>
    \/ /\ n \in open \ poisoned
       /\ got = IF n \in dirty THEN "foreign" ELSE "bytes"
       /\ UNCHANGED <<poisoned, dirty, mishaps>>
    \/ /\ n \in open \ poisoned
       /\ got \in {"garbage", "error"} /\ Mishap
       /\ UNCHANGED <<poisoned, dirty>>
    \/ /\ n \in open \ poisoned
       /\ got = "error" /\ Mishap
       /\ poisoned' = poisoned \cup {n}
       /\ dirty' = dirty \cup {n}

(* closePartsServer: what takes the camera over ends the shared session. *)
ClosePartsServer ==
    /\ parts' = 0
    /\ open' = open \ {parts}

(* A failed read ends the session it was on, never a newer one. *)
ClosePartsServerIf(n) ==
    IF parts = n THEN ClosePartsServer ELSE UNCHANGED <<parts, open>>

(* The worker and the import read through the shared session. *)
Reads(u) ==
    \/ u = "worker" /\ worker \in {"sweep", "probe"}
    \/ u = "import" /\ owner["import"] = "owns"

PartsBegin(u) ==
    /\ Reads(u) /\ using[u] = 0
    /\ \/ /\ parts = 0 /\ StartServer
          /\ parts' = opened' /\ open' = open \cup {opened'}
       \/ parts # 0 /\ UNCHANGED <<parts, opened, open>>
    /\ using' = [using EXCEPT ![u] = parts']
    /\ UNCHANGED <<linkVars, poisoned, dirty, streamVars, lock, viewer, sick, countVars>>

PartsEnd(u) ==
    /\ using[u] # 0
    /\ \E got \in Answers :
          /\ Answer(using[u], got)
          /\ IF got = "error" THEN ClosePartsServerIf(using[u])
             ELSE IF got = "garbage" /\ u = "worker" THEN ClosePartsServer
             ELSE UNCHANGED <<parts, open>>
          /\ sick' = (sick \/ (got = "garbage" /\ u = "worker"))
    /\ using' = [using EXCEPT ![u] = 0]
    /\ UNCHANGED <<linkVars, opened, streamVars, lock, viewer, reads, works>>

-----------------------------------------------------------------------------
(* A viewer asks for a chunk of a clip (StreamReader, then ReadAt).        *)

Set(v, r) == viewer' = [viewer EXCEPT ![v] = r]
At(v, at) == viewer[v].at = at

View(v, c, k) ==
    /\ At(v, "idle") /\ reads < MaxReads /\ reads' = reads + 1
    /\ Set(v, [Idle EXCEPT !.at = "ensure", !.clip = c, !.chunk = k])
    /\ UNCHANGED <<linkVars, sessVars, streamVars, parts, lock, using, sick, works, mishaps>>

(* streamFetch: a chunk is at hand, being read by another goroutine, or read
   from the camera. *)
Fetch(v, n) ==
    LET k == viewer[v].chunk
    IN IF k \in cached
       THEN Set(v, Idle) /\ UNCHANGED inflight
       ELSE IF k \in inflight[n]
       THEN Set(v, [viewer[v] EXCEPT !.at = "join", !.from = n]) /\ UNCHANGED inflight
       ELSE /\ Set(v, [viewer[v] EXCEPT !.at = "read", !.from = n])
            /\ inflight' = [inflight EXCEPT ![n] = @ \cup {k}]

(* The stream is this clip's already. *)
EnsureSame(v) ==
    /\ At(v, "ensure") /\ lock = Nobody
    /\ stream # 0 /\ playing = viewer[v].clip
    /\ Fetch(v, stream)
    /\ UNCHANGED <<linkVars, sessVars, stream, playing, cached, parts, lock, using, sick, countVars>>

(* closeStreamLocked *)
CloseStreamLocked ==
    IF stream = 0 THEN UNCHANGED <<linkVars, stream, playing, cached, open>>
    ELSE /\ Resume("stream")
         /\ open' = open \ {stream}
         /\ stream' = 0 /\ playing' = Nobody /\ cached' = {}

EnsureClose(v) ==
    /\ At(v, "ensure") /\ lock = Nobody
    /\ stream # 0 /\ playing # viewer[v].clip
    /\ CloseStreamLocked
    /\ lock' = v
    /\ UNCHANGED <<opened, poisoned, dirty, inflight, parts, viewer, using, sick, countVars>>

EnsureClaim(v) ==
    /\ At(v, "ensure") /\ lock \in {Nobody, v}
    /\ stream = 0
    /\ IF sick
       THEN Set(v, Idle) /\ lock' = Nobody /\ UNCHANGED linkVars
       ELSE Set(v, [viewer[v] EXCEPT !.at = "drain"]) /\ lock' = v /\ PauseAndDrain("stream")
    /\ UNCHANGED <<sessVars, streamVars, parts, using, sick, countVars>>

\* Mutant of EnsureStart: the shared session is forgotten, not closed.
EnsureStartBeside(v) ==
    /\ At(v, "drain")
    /\ Drained("stream")
    /\ StartServer
    /\ parts' = 0 /\ open' = open \cup {opened'}
    /\ stream' = opened'
    /\ playing' = viewer[v].clip
    /\ inflight' = [inflight EXCEPT ![opened'] = {0}]
    /\ Set(v, [viewer[v] EXCEPT !.at = "head", !.from = opened'])
    /\ lock' = Nobody
    /\ UNCHANGED <<poisoned, dirty, cached, using, sick, countVars>>

(* The stream is claimed before its head is read, which drops the lock. *)
EnsureStart(v) ==
    /\ At(v, "drain")
    /\ Drained("stream")
    /\ StartServer
    /\ parts' = 0 /\ open' = (open \ {parts}) \cup {opened'}
    /\ stream' = opened'
    /\ playing' = viewer[v].clip
    /\ inflight' = [inflight EXCEPT ![opened'] = {0}]
    /\ Set(v, [viewer[v] EXCEPT !.at = "head", !.from = opened'])
    /\ lock' = Nobody
    /\ UNCHANGED <<poisoned, dirty, cached, using, sick, countVars>>

EnsureStartFails(v) ==
    /\ At(v, "drain")
    /\ Drained("stream")
    /\ Mishap \/ (opened = MaxSessions /\ UNCHANGED mishaps)
    /\ ClosePartsServer
    /\ Set(v, [viewer[v] EXCEPT !.at = "resume"])
    /\ UNCHANGED <<opened, poisoned, dirty, streamVars, lock, using, sick, reads, works>>

EnsureResume(v) ==
    /\ At(v, "resume")
    /\ Resume("stream")
    /\ Set(v, Idle)
    /\ lock' = Nobody
    /\ UNCHANGED <<sessVars, streamVars, parts, using, sick, countVars>>

(* The camera answers, without the lock. *)
CameraAnswers(v) ==
    /\ viewer[v].at \in {"read", "head"} /\ viewer[v].got = "nothing"
    /\ \E got \in Answers :
          /\ Answer(viewer[v].from, got)
          /\ Set(v, [viewer[v] EXCEPT !.got = got])
    /\ UNCHANGED <<linkVars, opened, open, streamVars, parts, lock, using, sick, reads, works>>

Back(v, at) == At(v, at) /\ viewer[v].got # "nothing" /\ lock = Nobody

\* Mutant of ReadBack: a failed read leaves its chunk marked as being read.
ReadBackShut(v) ==
    /\ Back(v, "read")
    /\ LET n == viewer[v].from
           k == viewer[v].chunk
       IN IF viewer[v].got = "error" THEN UNCHANGED <<inflight, cached>>
          ELSE /\ inflight' = [inflight EXCEPT ![n] = @ \ {k}]
               /\ cached' = IF stream = n THEN cached \cup {k} ELSE cached
    /\ Set(v, Idle)
    /\ UNCHANGED <<linkVars, sessVars, stream, playing, parts, lock, using, sick, countVars>>

ReadBack(v) ==
    /\ Back(v, "read")
    /\ LET n == viewer[v].from
           k == viewer[v].chunk
       IN /\ inflight' = [inflight EXCEPT ![n] = @ \ {k}]
          /\ cached' = IF stream = n /\ viewer[v].got # "error" THEN cached \cup {k} ELSE cached
    /\ Set(v, Idle)
    /\ UNCHANGED <<linkVars, sessVars, stream, playing, parts, lock, using, sick, countVars>>

\* Mutant of HeadFailed: the stream is forgotten but its pause is not given back.
HeadFailedPaused(v) ==
    /\ Back(v, "head")
    /\ viewer[v].got \in {"error", "garbage"} \/ stream # viewer[v].from
    /\ sick' = (sick \/ (viewer[v].got = "garbage" /\ stream = viewer[v].from))
    /\ inflight' = [inflight EXCEPT ![viewer[v].from] = @ \ {0}]
    /\ stream' = 0 /\ playing' = Nobody /\ open' = open \ {stream} /\ cached' = {}
    /\ Set(v, Idle)
    /\ UNCHANGED <<linkVars, opened, poisoned, dirty, parts, lock, using, countVars>>

(* The head is read.  If that failed, or the stream is another one by now,
   whatever stream there is is closed. *)
HeadFailed(v) ==
    /\ Back(v, "head")
    /\ viewer[v].got \in {"error", "garbage"} \/ stream # viewer[v].from
    /\ sick' = (sick \/ (viewer[v].got = "garbage" /\ stream = viewer[v].from))
    /\ inflight' = [inflight EXCEPT ![viewer[v].from] = @ \ {0}]
    /\ CloseStreamLocked
    /\ Set(v, Idle)
    /\ UNCHANGED <<opened, poisoned, dirty, parts, lock, using, countVars>>

HeadBack(v) ==
    /\ Back(v, "head")
    /\ viewer[v].got \notin {"error", "garbage"} /\ stream = viewer[v].from
    /\ cached' = cached \cup {0}
    /\ LET k == viewer[v].chunk
           others == inflight[stream] \ {0}
           next(at) == Set(v, [viewer[v] EXCEPT !.at = at, !.got = "nothing"])
       IN IF k \in cached'
          THEN Set(v, Idle) /\ inflight' = [inflight EXCEPT ![stream] = others]
          ELSE IF k \in others
          THEN next("join") /\ inflight' = [inflight EXCEPT ![stream] = others]
          ELSE next("read") /\ inflight' = [inflight EXCEPT ![stream] = others \cup {k}]
    /\ UNCHANGED <<linkVars, sessVars, stream, playing, parts, lock, using, sick, countVars>>

(* The chunk another goroutine was reading is there, or not. *)
JoinBack(v) ==
    /\ At(v, "join") /\ lock = Nobody
    /\ viewer[v].chunk \notin inflight[viewer[v].from]
    /\ IF stream # viewer[v].from THEN Set(v, Idle) /\ UNCHANGED inflight
       ELSE Fetch(v, stream)
    /\ UNCHANGED <<linkVars, sessVars, stream, playing, cached, parts, lock, using, sick, countVars>>

(* The janitor, a cursor that moved elsewhere, a pull of the whole file. *)
CloseStream ==
    /\ lock = Nobody /\ stream # 0
    /\ CloseStreamLocked
    /\ UNCHANGED <<opened, poisoned, dirty, inflight, parts, lock, viewer, using, sick,
                   countVars>>

(* VideoHead looks whether the link is busy, and reads. *)
Peek(v, c) ==
    /\ At(v, "idle") /\ reads < MaxReads /\ reads' = reads + 1
    /\ lock = Nobody /\ stream = 0
    /\ Set(v, [Idle EXCEPT !.at = "peek", !.clip = c])
    /\ UNCHANGED <<linkVars, sessVars, streamVars, parts, lock, using, sick, works, mishaps>>

PeekBegins(v) ==
    /\ At(v, "peek")
    /\ IF pause > 0 \/ sick \/ (parts = 0 /\ opened = MaxSessions)
       THEN Set(v, Idle) /\ UNCHANGED <<opened, open, parts>>
       ELSE /\ \/ /\ parts = 0 /\ StartServer
                  /\ parts' = opened' /\ open' = open \cup {opened'}
               \/ parts # 0 /\ UNCHANGED <<parts, opened, open>>
            /\ Set(v, [viewer[v] EXCEPT !.at = "peeking", !.from = parts'])
    /\ UNCHANGED <<linkVars, poisoned, dirty, streamVars, lock, using, sick, countVars>>

PeekEnds(v) ==
    /\ At(v, "peeking")
    /\ \E got \in Answers :
          /\ Answer(viewer[v].from, got)
          /\ IF got = "error" THEN ClosePartsServerIf(viewer[v].from)
             ELSE IF got = "garbage" THEN ClosePartsServer
             ELSE UNCHANGED <<parts, open>>
          /\ sick' = (sick \/ got = "garbage")
    /\ Set(v, Idle)
    /\ UNCHANGED <<linkVars, opened, streamVars, lock, using, reads, works>>

-----------------------------------------------------------------------------
(* The worker and the import.                                              *)

Work(what) ==
    /\ works < MaxWork /\ works' = works + 1
    /\ StartWork(what)
    /\ what = "probe" <=> sick
    /\ UNCHANGED <<sessVars, streamVars, parts, lock, viewer, using, sick, reads, mishaps>>

WorkEnds ==
    /\ using["worker"] = 0
    /\ \E what \in {"sweep", "probe"} : EndWork(what)
    /\ sick' = (sick /\ worker # "probe")
    /\ UNCHANGED <<sessVars, streamVars, parts, lock, viewer, using, countVars>>

ImportPauses ==
    /\ works < MaxWork /\ works' = works + 1
    /\ PauseAndDrain("import")
    /\ UNCHANGED <<sessVars, streamVars, parts, lock, viewer, using, sick, reads, mishaps>>

ImportDrained ==
    /\ Drained("import")
    /\ ClosePartsServer
    /\ UNCHANGED <<opened, poisoned, dirty, streamVars, lock, viewer, using, sick, countVars>>

ImportResumes ==
    /\ using["import"] = 0
    /\ Resume("import")
    /\ UNCHANGED <<sessVars, streamVars, parts, lock, viewer, using, sick, countVars>>

-----------------------------------------------------------------------------

ViewerStep(v) ==
    \/ EnsureSame(v) \/ EnsureClose(v) \/ EnsureClaim(v) \/ EnsureStart(v) \/ EnsureStartFails(v)
    \/ EnsureResume(v)
    \/ CameraAnswers(v) \/ ReadBack(v) \/ HeadFailed(v) \/ HeadBack(v) \/ JoinBack(v)
    \/ PeekBegins(v) \/ PeekEnds(v)

StreamNext ==
    \/ \E v \in Viewers : ViewerStep(v)
    \/ \E v \in Viewers, c \in Clips : Peek(v, c) \/ \E k \in Chunks : View(v, c, k)
    \/ CloseStream
    \/ \E u \in {"worker", "import"} : PartsBegin(u) \/ PartsEnd(u)
    \/ \E what \in {"sweep", "probe"} : Work(what)
    \/ WorkEnds \/ ImportPauses \/ ImportDrained \/ ImportResumes

StreamSpec == StreamInit /\ [][StreamNext]_svars

(* Reads of the shared session have a timeout; one of a stream that does not
   end is ended by the janitor, who closes its session.  So some goroutine gets
   on as long as one can: calls being bounded, each gets its turn. *)
StreamFairSpec ==
    /\ StreamSpec
    /\ WF_svars(\E v \in Viewers : ViewerStep(v))
    /\ WF_svars(PartsEnd("worker")) /\ SF_svars(WorkEnds)

-----------------------------------------------------------------------------

StreamTypeOK ==
    /\ LinkTypeOK
    /\ opened \in 0..MaxSessions /\ open \subseteq 1..opened /\ poisoned \subseteq 1..opened /\ dirty \subseteq 1..opened
    /\ stream \in 0..opened /\ parts \in 0..opened
    /\ playing \in Clips \cup {Nobody}
    /\ cached \subseteq Chunks /\ inflight \in [Sessions -> SUBSET Chunks]
    /\ lock \in Viewers \cup {Nobody}
    /\ viewer \in [Viewers ->
          [at : {"idle", "ensure", "drain", "resume", "head", "read", "join", "peek", "peeking"},
           clip : Clips \cup {Nobody}, chunk : Chunks, from : 0..MaxSessions,
           got : Answers \cup {"nothing"}]]
    /\ using \in [{"worker", "import"} -> 0..opened]
    /\ sick \in BOOLEAN

(* No viewer is ever handed bytes that were meant for another request,
   however reads failed before on the session and whoever closed it. *)
NoForeignBytes == \A v \in Viewers : viewer[v].got # "foreign"

(* The prefetcher is paused for a stream exactly as long as there is one:
   no failure on the way leaves the worker stopped for good, and no second
   opener lets it loose on a stream that plays. *)
PausedWhileStreaming ==
    lock = Nobody => owner["stream"] = (IF stream = 0 THEN "away" ELSE "owns")

(* Every child process that has the camera is one somebody will close: the
   stream's, or the prefetcher's. *)
NoSessionLost == open \subseteq {stream, parts}

(* Who asks for a chunk or a head gets it, or an error: no goroutine is left
   waiting for a chunk nobody reads, or for a lock. *)
ViewersAnswered == \A v \in Viewers : (viewer[v].at # "idle") ~> (viewer[v].at = "idle")

(* serve.go:22-23: "The device stays claimed for the Server's whole lifetime;
   all other camera work (prefetch batches, gphoto2 thumbs) must be paused
   while one is open." *)
OneClaim == Cardinality(open) <= 1
=============================================================================
