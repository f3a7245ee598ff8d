------------------------- MODULE VideoStreamProofs -------------------------
(***************************************************************************)
(* Proofs about video streams and the sessions they share the camera with, *)
(* for any number of clips, chunks and viewers, and with every fault.      *)
(***************************************************************************)
EXTENDS VideoStream, CameraLinkProofs

-----------------------------------------------------------------------------
(* The inductive invariant.                                                *)

(* The running processes are the stream's and the shared one, and those two
   are not the same. *)
SessionsKept ==
    /\ open \subseteq {stream, parts}
    /\ stream # 0 => stream \in open /\ stream # parts
    /\ parts # 0 => parts \in open

(* While a stream is opened, one viewer holds the lock, and how far it is says
   what the link has been told. *)
Opening ==
    /\ lock = Nobody => owner["stream"] = (IF stream = 0 THEN "away" ELSE "owns")
    /\ lock # Nobody =>
          /\ stream = 0
          /\ \/ viewer[lock].at = "ensure" /\ owner["stream"] = "away"
             \/ viewer[lock].at = "drain" /\ owner["stream"] = "draining"
             \/ viewer[lock].at = "resume" /\ owner["stream"] = "owns"
    /\ \A v \in Viewers : viewer[v].at \in {"drain", "resume"} => v = lock

(* A session with bytes in its pipe is never read again. *)
Framed == dirty \subseteq poisoned /\ NoForeignBytes

Inv == StreamTypeOK /\ PausesCounted /\ LinkYielded /\ SessionsKept /\ Opening /\ Framed

-----------------------------------------------------------------------------
(* What the steps do to the link.                                          *)

LEMMA CloseOfLink ==
  ASSUME CloseStreamLocked
  PROVE  [LinkNext]_linkVars
  BY StreamAssumption DEF CloseStreamLocked, LinkNext

LEMMA StepsOfLink == [StreamNext]_svars => [LinkNext]_linkVars
  <1> SUFFICES ASSUME [StreamNext]_svars PROVE [LinkNext]_linkVars
    OBVIOUS
  <1>1. ASSUME NEW v \in Viewers, ViewerStep(v) PROVE [LinkNext]_linkVars
    <2>1. CASE EnsureClose(v) \/ HeadFailed(v)
      BY <2>1, CloseOfLink DEF EnsureClose, HeadFailed
    <2>2. CASE EnsureClaim(v) \/ EnsureStart(v) \/ EnsureStartFails(v) \/ EnsureResume(v)
      BY <2>2, StreamAssumption
      DEF EnsureClaim, EnsureStart, EnsureStartFails, EnsureResume, LinkNext
    <2>3. CASE EnsureSame(v) \/ CameraAnswers(v) \/ ReadBack(v) \/ HeadBack(v) \/ JoinBack(v)
               \/ PeekBegins(v) \/ PeekEnds(v)
      BY <2>3 DEF EnsureSame, CameraAnswers, ReadBack, HeadBack, JoinBack, PeekBegins, PeekEnds
    <2> QED BY <1>1, <2>1, <2>2, <2>3 DEF ViewerStep
  <1>2. ASSUME NEW v \in Viewers, NEW c \in Clips, Peek(v, c) \/ \E k \in Chunks : View(v, c, k)
        PROVE  [LinkNext]_linkVars
    BY <1>2 DEF Peek, View
  <1>3. CASE CloseStream
    BY <1>3, CloseOfLink DEF CloseStream
  <1>4. CASE \E u \in {"worker", "import"} : PartsBegin(u) \/ PartsEnd(u)
    BY <1>4 DEF PartsBegin, PartsEnd
  <1>5. CASE WorkEnds \/ \E what \in {"sweep", "probe"} : Work(what)
    BY <1>5 DEF Work, WorkEnds, LinkNext
  <1>6. CASE ImportPauses \/ ImportDrained \/ ImportResumes
    BY <1>6, StreamAssumption DEF ImportPauses, ImportDrained, ImportResumes, LinkNext
  <1>7. CASE UNCHANGED svars
    BY <1>7 DEF svars
  <1> QED BY <1>1, <1>2, <1>3, <1>4, <1>5, <1>6, <1>7 DEF StreamNext

-----------------------------------------------------------------------------
(* What the steps do to the sessions.                                      *)

SessionTypes ==
    /\ opened \in 0..MaxSessions /\ open \subseteq 1..opened
    /\ stream \in 0..opened /\ parts \in 0..opened

StartParts ==
    /\ StartServer /\ parts = 0
    /\ parts' = opened' /\ open' = open \cup {opened'} /\ UNCHANGED stream
CloseParts == ClosePartsServer /\ UNCHANGED <<opened, stream>>
EndStream == stream # 0 /\ stream' = 0 /\ open' = open \ {stream} /\ UNCHANGED <<opened, parts>>
BeginStream ==
    /\ StartServer /\ stream = 0
    /\ parts' = 0 /\ stream' = opened' /\ open' = (open \ {parts}) \cup {opened'}
SameSessions == UNCHANGED <<opened, open, stream, parts>>
SessionNext == StartParts \/ CloseParts \/ EndStream \/ BeginStream \/ SameSessions

LEMMA SessionsStay ==
  ASSUME SessionTypes, SessionsKept, SessionNext
  PROVE  (SessionTypes /\ SessionsKept)'
  <1> USE StreamAssumption DEF SessionTypes, SessionsKept
  <1>1. CASE StartParts
    BY <1>1 DEF StartParts, StartServer
  <1>2. CASE CloseParts
    BY <1>2 DEF CloseParts, ClosePartsServer
  <1>3. CASE EndStream
    BY <1>3 DEF EndStream
  <1>4. CASE BeginStream
    BY <1>4 DEF BeginStream, StartServer
  <1>5. CASE SameSessions
    BY <1>5 DEF SameSessions
  <1> QED BY <1>1, <1>2, <1>3, <1>4, <1>5 DEF SessionNext

LEMMA StepsOfSessions ==
  ASSUME Opening, [StreamNext]_svars
  PROVE  SessionNext
  <1> USE DEF SessionNext, SameSessions
  <1>1. ASSUME NEW v \in Viewers, ViewerStep(v) PROVE SessionNext
    <2>1. CASE EnsureClose(v) \/ HeadFailed(v)
      BY <2>1 DEF EnsureClose, HeadFailed, CloseStreamLocked, EndStream
    <2>2. CASE EnsureStart(v)
      <3>1. stream = 0
        BY <2>2, StreamAssumption DEF EnsureStart, At, Opening
      <3> QED BY <2>2, <3>1 DEF EnsureStart, BeginStream
    <2>3. CASE EnsureStartFails(v)
      BY <2>3 DEF EnsureStartFails, CloseParts, streamVars
    <2>4. CASE PeekEnds(v)
      BY <2>4 DEF PeekEnds, CloseParts, streamVars, ClosePartsServerIf
    <2>5. CASE PeekBegins(v)
      BY <2>5 DEF PeekBegins, StartParts, streamVars, StartServer
    <2>6. CASE EnsureSame(v) \/ EnsureClaim(v) \/ EnsureResume(v) \/ CameraAnswers(v) \/ ReadBack(v)
               \/ HeadBack(v) \/ JoinBack(v)
      BY <2>6
      DEF EnsureSame, EnsureClaim, EnsureResume, CameraAnswers, ReadBack, HeadBack, JoinBack, sessVars,
          streamVars
    <2> QED BY <1>1, <2>1, <2>2, <2>3, <2>4, <2>5, <2>6 DEF ViewerStep
  <1>2. ASSUME NEW v \in Viewers, NEW c \in Clips, Peek(v, c) \/ \E k \in Chunks : View(v, c, k)
        PROVE  SessionNext
    BY <1>2 DEF Peek, View, sessVars, streamVars
  <1>3. CASE CloseStream
    BY <1>3 DEF CloseStream, CloseStreamLocked, EndStream
  <1>4. ASSUME NEW u \in {"worker", "import"}, PartsBegin(u) \/ PartsEnd(u) PROVE SessionNext
    <2>1. CASE PartsBegin(u)
      BY <2>1 DEF PartsBegin, StartParts, streamVars, StartServer
    <2>2. CASE PartsEnd(u)
      BY <2>2 DEF PartsEnd, CloseParts, streamVars, ClosePartsServerIf
    <2> QED BY <1>4, <2>1, <2>2
  <1>5. CASE WorkEnds \/ ImportPauses \/ ImportResumes \/ \E what \in {"sweep", "probe"} : Work(what)
    BY <1>5 DEF Work, WorkEnds, ImportPauses, ImportResumes, sessVars, streamVars
  <1>6. CASE ImportDrained
    BY <1>6 DEF ImportDrained, CloseParts, streamVars
  <1>7. CASE UNCHANGED svars
    BY <1>7 DEF svars, sessVars, streamVars
  <1> QED BY <1>1, <1>2, <1>3, <1>4, <1>5, <1>6, <1>7 DEF StreamNext

-----------------------------------------------------------------------------
(* What the steps make of a viewer.                                        *)

States ==
    [at : {"idle", "ensure", "drain", "resume", "head", "read", "join", "peek", "peeking"},
     clip : Clips \cup {Nobody}, chunk : Chunks, from : 0..MaxSessions,
     got : Answers \cup {"nothing"}]
ViewerTypes == viewer \in [Viewers -> States]

Turn(v, ats, gots) == \E r \in States : Set(v, r) /\ r.at \in ats /\ r.got \in gots

LEMMA TurnKeeps ==
  ASSUME ViewerTypes, NEW v \in Viewers, NEW ats, NEW gots, Turn(v, ats, gots)
  PROVE  /\ ViewerTypes' /\ viewer'[v].at \in ats /\ viewer'[v].got \in gots
         /\ \A u \in Viewers \ {v} : viewer'[u] = viewer[u]
  BY DEF ViewerTypes, Turn, Set

LEMMA ToIdle ==
  ASSUME NEW v \in Viewers, NEW ats, NEW gots, "idle" \in ats, "nothing" \in gots, Set(v, Idle)
  PROVE  Turn(v, ats, gots)
  <1>1. Idle \in States /\ Idle.at = "idle" /\ Idle.got = "nothing"
    BY StreamAssumption DEF Idle, States
  <1> QED BY <1>1 DEF Turn

LEMMA ToPlace ==
  ASSUME ViewerTypes, NEW v \in Viewers, NEW ats,
         NEW at \in {"idle", "ensure", "drain", "resume", "head", "read", "join", "peek", "peeking"} \cap ats,
         NEW n \in 0..MaxSessions,
         \/ Set(v, [viewer[v] EXCEPT !.at = at, !.from = n])
         \/ Set(v, [viewer[v] EXCEPT !.at = at])
  PROVE  Turn(v, ats, {viewer[v].got})
  <1>1. CASE Set(v, [viewer[v] EXCEPT !.at = at, !.from = n])
    <2> DEFINE r == [viewer[v] EXCEPT !.at = at, !.from = n]
    <2>1. r \in States /\ r.at = at /\ r.got = viewer[v].got
      BY DEF ViewerTypes, States
    <2> HIDE DEF r
    <2> QED BY <1>1, <2>1 DEF Turn, r
  <1>2. CASE Set(v, [viewer[v] EXCEPT !.at = at])
    <2> DEFINE r == [viewer[v] EXCEPT !.at = at]
    <2>1. r \in States /\ r.at = at /\ r.got = viewer[v].got
      BY DEF ViewerTypes, States
    <2> HIDE DEF r
    <2> QED BY <1>2, <2>1 DEF Turn, r
  <1> QED BY <1>1, <1>2

Old(v) == {"nothing", viewer[v].got}

LEMMA OldTurn ==
  ASSUME NEW v, NEW ats, Turn(v, ats, {viewer[v].got})
  PROVE  Turn(v, ats, Old(v))
  BY DEF Turn, Old

LEMMA FetchTurns ==
  ASSUME ViewerTypes, NEW v \in Viewers, NEW n \in 0..MaxSessions, Fetch(v, n)
  PROVE  Turn(v, {"idle", "join", "read"}, Old(v))
  <1>1. CASE Set(v, Idle)
    BY <1>1, ToIdle DEF Old
  <1>2. CASE Set(v, [viewer[v] EXCEPT !.at = "join", !.from = n])
    BY <1>2, ToPlace, OldTurn
  <1>3. CASE Set(v, [viewer[v] EXCEPT !.at = "read", !.from = n])
    BY <1>3, ToPlace, OldTurn
  <1> QED BY <1>1, <1>2, <1>3 DEF Fetch

(* The places of a viewer that is not opening a stream. *)
Aside == {"idle", "ensure", "head", "read", "join", "peek", "peeking"}

LEMMA AsideTurn ==
  ASSUME NEW v, NEW ats \in SUBSET Aside, Turn(v, ats, Old(v))
  PROVE  Turn(v, Aside, Old(v))
  BY DEF Turn

LEMMA ClaimTurns ==
  ASSUME ViewerTypes, NEW v \in Viewers, EnsureClaim(v)
  PROVE  \/ Turn(v, {"idle"}, Old(v)) /\ lock' = Nobody /\ UNCHANGED linkVars
         \/ Turn(v, {"drain"}, Old(v)) /\ lock' = v /\ PauseAndDrain("stream")
  <1>1. CASE sick
    BY <1>1, ToIdle DEF EnsureClaim, Old
  <1>2. CASE ~sick
    <2>1. 0 \in 0..MaxSessions
      BY StreamAssumption
    <2>2. Turn(v, {"drain"}, Old(v))
      BY <1>2, <2>1, ToPlace, OldTurn DEF EnsureClaim
    <2> QED BY <1>2, <2>2 DEF EnsureClaim
  <1> QED BY <1>1, <1>2

LEMMA StartTurns ==
  ASSUME ViewerTypes, SessionTypes, NEW v \in Viewers, EnsureStart(v)
  PROVE  Turn(v, {"head"}, Old(v))
  <1>1. opened' \in 0..MaxSessions
    BY StreamAssumption DEF EnsureStart, StartServer, SessionTypes
  <1> QED BY <1>1, ToPlace, OldTurn DEF EnsureStart

LEMMA StartFailsTurns ==
  ASSUME ViewerTypes, NEW v \in Viewers, EnsureStartFails(v)
  PROVE  Turn(v, {"resume"}, Old(v))
  <1>1. 0 \in 0..MaxSessions
    BY StreamAssumption
  <1> QED BY <1>1, ToPlace, OldTurn DEF EnsureStartFails

LEMMA HeadBackTurns ==
  ASSUME ViewerTypes, NEW v \in Viewers, HeadBack(v)
  PROVE  Turn(v, {"idle", "join", "read"}, {"nothing"})
  <1>1. ASSUME NEW at \in {"join", "read"}, Set(v, [viewer[v] EXCEPT !.at = at, !.got = "nothing"])
        PROVE  Turn(v, {"idle", "join", "read"}, {"nothing"})
    <2> DEFINE r == [viewer[v] EXCEPT !.at = at, !.got = "nothing"]
    <2>1. r \in States /\ r.at = at /\ r.got = "nothing"
      BY DEF ViewerTypes, States
    <2> HIDE DEF r
    <2> QED BY <1>1, <2>1 DEF Turn, r
  <1>2. CASE Set(v, Idle)
    BY <1>2, ToIdle
  <1>3. \/ Set(v, Idle)
        \/ \E at \in {"join", "read"} : Set(v, [viewer[v] EXCEPT !.at = at, !.got = "nothing"])
    BY DEF HeadBack
  <1> QED BY <1>1, <1>2, <1>3

LEMMA PeekTurns ==
  ASSUME ViewerTypes, SessionTypes, NEW v \in Viewers, PeekBegins(v) \/ PeekEnds(v)
  PROVE  Turn(v, {"idle", "peeking"}, Old(v))
  <1>1. CASE Set(v, Idle)
    BY <1>1, ToIdle DEF Old
  <1>2. CASE Set(v, [viewer[v] EXCEPT !.at = "peeking", !.from = parts']) /\ PeekBegins(v)
    <2>1. parts' \in 0..MaxSessions
      BY <1>2, StreamAssumption DEF PeekBegins, StartServer, SessionTypes
    <2> QED BY <1>2, <2>1, ToPlace, OldTurn
  <1> QED BY <1>1, <1>2 DEF PeekBegins, PeekEnds

(* The camera's answer. *)
LEMMA AnswerTurns ==
  ASSUME ViewerTypes, NEW v \in Viewers, CameraAnswers(v)
  PROVE  \E got \in Answers : Answer(viewer[v].from, got) /\ Turn(v, {"read", "head"}, {got})
  <1>1. PICK got \in Answers : Answer(viewer[v].from, got) /\ Set(v, [viewer[v] EXCEPT !.got = got])
    BY DEF CameraAnswers
  <1> DEFINE r == [viewer[v] EXCEPT !.got = got]
  <1>2. r \in States /\ r.at \in {"read", "head"} /\ r.got = got
    BY DEF CameraAnswers, ViewerTypes, States
  <1> HIDE DEF r
  <1> QED BY <1>1, <1>2 DEF Turn, r

LEMMA ReadsTurn ==
  ASSUME ViewerTypes, SessionTypes, NEW v \in Viewers,
         EnsureSame(v) \/ ReadBack(v) \/ HeadFailed(v) \/ HeadBack(v) \/ JoinBack(v)
  PROVE  Turn(v, {"idle", "join", "read"}, Old(v))
  <1>1. stream \in 0..MaxSessions
    BY StreamAssumption DEF SessionTypes
  <1>2. CASE EnsureSame(v)
    BY <1>1, <1>2, FetchTurns DEF EnsureSame
  <1>3. CASE ReadBack(v) \/ HeadFailed(v)
    BY <1>3, ToIdle DEF ReadBack, HeadFailed, Old
  <1>4. CASE HeadBack(v)
    BY <1>4, HeadBackTurns DEF Turn, Old
  <1>5. CASE JoinBack(v)
    BY <1>1, <1>5, FetchTurns, ToIdle DEF JoinBack, Old
  <1> QED BY <1>2, <1>3, <1>4, <1>5

LEMMA AskTurns ==
  ASSUME NEW v \in Viewers, NEW c \in Clips, Peek(v, c) \/ \E k \in Chunks : View(v, c, k)
  PROVE  Turn(v, {"peek", "ensure"}, Old(v))
  <1>0. Idle \in States /\ Idle.at = "idle" /\ Idle.got = "nothing"
    BY StreamAssumption DEF Idle, States
  <1>1. CASE Peek(v, c)
    <2> DEFINE r == [Idle EXCEPT !.at = "peek", !.clip = c]
    <2>1. r \in States /\ r.at = "peek" /\ r.got = "nothing"
      BY <1>0 DEF States
    <2> HIDE DEF r
    <2> QED BY <1>1, <2>1 DEF Turn, Peek, Old, r
  <1>2. ASSUME NEW k \in Chunks, View(v, c, k) PROVE Turn(v, {"peek", "ensure"}, Old(v))
    <2> DEFINE r == [Idle EXCEPT !.at = "ensure", !.clip = c, !.chunk = k]
    <2>1. r \in States /\ r.at = "ensure" /\ r.got = "nothing"
      BY <1>0 DEF States
    <2> HIDE DEF r
    <2> QED BY <1>2, <2>1 DEF Turn, View, Old, r
  <1> QED BY <1>1, <1>2

-----------------------------------------------------------------------------
(* Who holds the lock.                                                     *)

LockTypes == lock \in Viewers \cup {Nobody} /\ owner \in [Owners -> {"away", "draining", "owns"}]

(* A step beside the one who opens a stream, if anybody does. *)
LEMMA AsideKeeps ==
  ASSUME ViewerTypes, LockTypes, Opening,
         NEW v \in Viewers, NEW ats \in SUBSET Aside, NEW gots, Turn(v, ats, gots), v # lock,
         UNCHANGED <<lock, stream>>, owner'["stream"] = owner["stream"]
  PROVE  Opening'
  <1>1. viewer'[v].at \notin {"drain", "resume"} /\ \A u \in Viewers \ {v} : viewer'[u] = viewer[u]
    BY TurnKeeps DEF Aside
  <1>2. lock # Nobody => viewer'[lock] = viewer[lock]
    BY <1>1 DEF LockTypes
  <1> QED BY <1>1, <1>2 DEF Opening, LockTypes

LEMMA FrameKeeps ==
  ASSUME LockTypes, Opening, UNCHANGED <<lock, stream, viewer>>, owner'["stream"] = owner["stream"]
  PROVE  Opening'
  BY DEF Opening, LockTypes

(* The stream is closed, or there is none. *)
LEMMA CloseKeeps ==
  ASSUME LockTypes, Opening, lock = Nobody, CloseStreamLocked
  PROVE  owner'["stream"] = "away" /\ stream' = 0
  BY StreamAssumption DEF CloseStreamLocked, Opening, LockTypes, Resume, linkVars

LEMMA OpenerKeeps ==
  ASSUME ViewerTypes, SessionTypes, LockTypes, Opening, NEW v \in Viewers,
         EnsureClose(v) \/ EnsureClaim(v) \/ EnsureStart(v) \/ EnsureStartFails(v) \/ EnsureResume(v)
  PROVE  Opening'
  <1> USE StreamAssumption DEF LockTypes
  <1>1. CASE EnsureClose(v)
    <2>1. owner'["stream"] = "away" /\ stream' = 0 /\ lock' = v /\ viewer' = viewer
          /\ viewer[v].at = "ensure" /\ lock = Nobody
      BY <1>1, CloseKeeps DEF EnsureClose, At
    <2> QED BY <2>1 DEF Opening
  <1>2. CASE EnsureClaim(v)
    <2>1. lock \in {Nobody, v} /\ stream = 0 /\ stream' = 0 /\ viewer[v].at = "ensure"
      BY <1>2 DEF EnsureClaim, At, streamVars
    <2>2. owner["stream"] = "away"
      BY <2>1 DEF Opening
    <2>3. \A u \in Viewers \ {v} : viewer[u].at \notin {"drain", "resume"}
      BY <2>1 DEF Opening
    <2>4. CASE Turn(v, {"idle"}, Old(v)) /\ lock' = Nobody /\ UNCHANGED linkVars
      <3>1. viewer'[v].at = "idle" /\ \A u \in Viewers \ {v} : viewer'[u] = viewer[u]
        BY <2>4, TurnKeeps
      <3> QED BY <2>1, <2>2, <2>3, <2>4, <3>1 DEF Opening, linkVars
    <2>5. CASE Turn(v, {"drain"}, Old(v)) /\ lock' = v /\ PauseAndDrain("stream")
      <3>1. viewer'[v].at = "drain" /\ \A u \in Viewers \ {v} : viewer'[u] = viewer[u]
        BY <2>5, TurnKeeps
      <3>2. owner'["stream"] = "draining"
        BY <2>5 DEF PauseAndDrain
      <3> QED BY <2>1, <2>3, <2>5, <3>1, <3>2 DEF Opening
    <2> QED BY <1>2, <2>4, <2>5, ClaimTurns
  <1>3. CASE EnsureStart(v)
    <2>1. /\ viewer[v].at = "drain" /\ lock' = Nobody /\ stream' = opened'
          /\ opened' = opened + 1 /\ owner'["stream"] = "owns"
      BY <1>3 DEF EnsureStart, At, StartServer, Drained
    <2>2. v = lock
      BY <2>1 DEF Opening
    <2>3. viewer'[v].at = "head" /\ \A u \in Viewers \ {v} : viewer'[u] = viewer[u]
      BY <1>3, StartTurns, TurnKeeps
    <2>4. stream' # 0
      BY <2>1 DEF SessionTypes
    <2> QED BY <2>1, <2>2, <2>3, <2>4 DEF Opening
  <1>4. CASE EnsureStartFails(v)
    <2>1. viewer[v].at = "drain" /\ UNCHANGED <<lock, stream>> /\ owner'["stream"] = "owns"
      BY <1>4 DEF EnsureStartFails, At, Drained, streamVars
    <2>2. v = lock
      BY <2>1 DEF Opening
    <2>3. viewer'[v].at = "resume" /\ \A u \in Viewers \ {v} : viewer'[u] = viewer[u]
      BY <1>4, StartFailsTurns, TurnKeeps
    <2> QED BY <2>1, <2>2, <2>3 DEF Opening
  <1>5. CASE EnsureResume(v)
    <2>1. /\ viewer[v].at = "resume" /\ lock' = Nobody /\ UNCHANGED stream
          /\ owner'["stream"] = "away"
      BY <1>5 DEF EnsureResume, At, Resume, streamVars
    <2>2. v = lock /\ stream = 0
      BY <2>1 DEF Opening
    <2>3. Turn(v, {"idle"}, Old(v))
      BY <1>5, ToIdle DEF EnsureResume, Old
    <2>4. viewer'[v].at = "idle" /\ \A u \in Viewers \ {v} : viewer'[u] = viewer[u]
      BY <2>3, TurnKeeps
    <2> QED BY <2>1, <2>2, <2>4 DEF Opening
  <1> QED BY <1>1, <1>2, <1>3, <1>4, <1>5

LEMMA OpeningKept ==
  ASSUME ViewerTypes, SessionTypes, LockTypes, Opening, [StreamNext]_svars
  PROVE  Opening'
  <1> USE StreamAssumption
  <1>1. ASSUME NEW v \in Viewers, ViewerStep(v) PROVE Opening'
    <2>1. CASE EnsureClose(v) \/ EnsureClaim(v) \/ EnsureStart(v) \/ EnsureStartFails(v)
               \/ EnsureResume(v)
      BY <2>1, OpenerKeeps
    <2>2. CASE EnsureSame(v) \/ ReadBack(v) \/ HeadBack(v) \/ JoinBack(v)
      <3>1. lock = Nobody /\ UNCHANGED <<lock, stream, owner>>
        BY <2>2 DEF EnsureSame, ReadBack, HeadBack, JoinBack, Back, linkVars
      <3>2. Turn(v, {"idle", "join", "read"}, Old(v))
        BY <2>2, ReadsTurn
      <3> QED BY <3>1, <3>2, AsideKeeps DEF Aside
    <2>3. CASE HeadFailed(v)
      <3>1. lock = Nobody /\ lock' = Nobody /\ owner'["stream"] = "away" /\ stream' = 0
        BY <2>3, CloseKeeps DEF HeadFailed, Back
      <3>2. Turn(v, {"idle", "join", "read"}, Old(v))
        BY <2>3, ReadsTurn
      <3>3. viewer'[v].at \in {"idle", "join", "read"} /\ \A u \in Viewers \ {v} : viewer'[u] = viewer[u]
        BY <3>2, TurnKeeps
      <3> QED BY <3>1, <3>3 DEF Opening
    <2>4. CASE CameraAnswers(v)
      <3>1. v # lock /\ UNCHANGED <<lock, stream, owner>>
        BY <2>4 DEF CameraAnswers, Opening, linkVars, streamVars
      <3>2. PICK got \in Answers : Turn(v, {"read", "head"}, {got})
        BY <2>4, AnswerTurns
      <3> QED BY <3>1, <3>2, AsideKeeps DEF Aside
    <2>5. CASE PeekBegins(v) \/ PeekEnds(v)
      <3>1. v # lock /\ UNCHANGED <<lock, stream, owner>>
        BY <2>5 DEF PeekBegins, PeekEnds, At, Opening, linkVars, streamVars
      <3>2. Turn(v, {"idle", "peeking"}, Old(v))
        BY <2>5, PeekTurns
      <3> QED BY <3>1, <3>2, AsideKeeps DEF Aside
    <2> QED BY <1>1, <2>1, <2>2, <2>3, <2>4, <2>5 DEF ViewerStep
  <1>2. ASSUME NEW v \in Viewers, NEW c \in Clips, Peek(v, c) \/ \E k \in Chunks : View(v, c, k)
        PROVE  Opening'
    <2>1. v # lock /\ UNCHANGED <<lock, stream, owner>>
      BY <1>2 DEF Peek, View, At, Opening, linkVars, streamVars
    <2>2. Turn(v, {"peek", "ensure"}, Old(v))
      BY <1>2, AskTurns
    <2> QED BY <2>1, <2>2, AsideKeeps DEF Aside
  <1>3. CASE CloseStream
    <2>1. lock = Nobody /\ UNCHANGED <<lock, viewer>> /\ owner'["stream"] = "away" /\ stream' = 0
      BY <1>3, CloseKeeps DEF CloseStream
    <2> QED BY <2>1 DEF Opening
  <1>4. CASE \E u \in {"worker", "import"} : PartsBegin(u) \/ PartsEnd(u)
    BY <1>4, FrameKeeps DEF PartsBegin, PartsEnd, linkVars, streamVars
  <1>5. CASE WorkEnds \/ \E what \in {"sweep", "probe"} : Work(what)
    BY <1>5, FrameKeeps DEF Work, WorkEnds, StartWork, EndWork, streamVars
  <1>6. CASE ImportPauses \/ ImportDrained \/ ImportResumes
    BY <1>6, FrameKeeps
    DEF ImportPauses, ImportDrained, ImportResumes, PauseAndDrain, Drained, Resume, streamVars, LockTypes
  <1>7. CASE UNCHANGED svars
    BY <1>7, FrameKeeps DEF svars, linkVars, streamVars
  <1> QED BY <1>1, <1>2, <1>3, <1>4, <1>5, <1>6, <1>7 DEF StreamNext

-----------------------------------------------------------------------------
(* Framing.                                                                *)

(* A session that is in step with its client answers what it was asked. *)
LEMMA AnswerIsOwn ==
  ASSUME dirty \subseteq poisoned, NEW n, NEW got, Answer(n, got)
  PROVE  dirty' \subseteq poisoned' /\ got # "foreign"
  BY DEF Answer, Mishap

LEMMA TurnFramed ==
  ASSUME ViewerTypes, Framed, dirty' \subseteq poisoned', NEW v \in Viewers, NEW ats, NEW gots,
         Turn(v, ats, gots), "foreign" \notin gots
  PROVE  Framed'
  BY TurnKeeps DEF Framed, NoForeignBytes

LEMMA OldIsOwn ==
  ASSUME Framed, NEW v \in Viewers
  PROVE  "foreign" \notin Old(v)
  BY DEF Framed, NoForeignBytes, Old

LEMMA FramedKept ==
  ASSUME ViewerTypes, SessionTypes, Framed, [StreamNext]_svars
  PROVE  Framed'
  <1>1. ASSUME NEW v \in Viewers, ViewerStep(v) PROVE Framed'
    <2>1. CASE CameraAnswers(v)
      <3>1. PICK got \in Answers : Answer(viewer[v].from, got) /\ Turn(v, {"read", "head"}, {got})
        BY <2>1, AnswerTurns
      <3>2. dirty' \subseteq poisoned' /\ got # "foreign"
        BY <3>1, AnswerIsOwn DEF Framed
      <3> QED BY <3>1, <3>2, TurnFramed
    <2>2. CASE PeekEnds(v)
      <3>1. dirty' \subseteq poisoned'
        BY <2>2, AnswerIsOwn DEF PeekEnds, Framed
      <3> QED BY <2>2, <3>1, PeekTurns, TurnFramed, OldIsOwn
    <2>3. CASE EnsureClose(v)
      BY <2>3 DEF EnsureClose, Framed, NoForeignBytes
    <2>4. CASE EnsureClaim(v)
      <3>1. dirty' \subseteq poisoned'
        BY <2>4 DEF EnsureClaim, sessVars, Framed
      <3> QED BY <2>4, <3>1, ClaimTurns, TurnFramed, OldIsOwn
    <2>5. CASE EnsureStart(v)
      <3>1. dirty' \subseteq poisoned'
        BY <2>5 DEF EnsureStart, Framed
      <3> QED BY <2>5, <3>1, StartTurns, TurnFramed, OldIsOwn
    <2>6. CASE EnsureStartFails(v)
      <3>1. dirty' \subseteq poisoned'
        BY <2>6 DEF EnsureStartFails, Framed
      <3> QED BY <2>6, <3>1, StartFailsTurns, TurnFramed, OldIsOwn
    <2>7. CASE EnsureResume(v)
      <3>1. dirty' \subseteq poisoned' /\ Turn(v, {"idle"}, Old(v))
        BY <2>7, ToIdle DEF EnsureResume, sessVars, Framed, Old
      <3> QED BY <3>1, TurnFramed, OldIsOwn
    <2>8. CASE EnsureSame(v) \/ ReadBack(v) \/ HeadFailed(v) \/ HeadBack(v) \/ JoinBack(v)
      <3>1. dirty' \subseteq poisoned'
        BY <2>8 DEF EnsureSame, ReadBack, HeadFailed, HeadBack, JoinBack, sessVars, Framed
      <3> QED BY <2>8, <3>1, ReadsTurn, TurnFramed, OldIsOwn
    <2>9. CASE PeekBegins(v)
      <3>1. dirty' \subseteq poisoned'
        BY <2>9 DEF PeekBegins, Framed
      <3> QED BY <2>9, <3>1, PeekTurns, TurnFramed, OldIsOwn
    <2> QED BY <1>1, <2>1, <2>2, <2>3, <2>4, <2>5, <2>6, <2>7, <2>8, <2>9 DEF ViewerStep
  <1>2. ASSUME NEW v \in Viewers, NEW c \in Clips, Peek(v, c) \/ \E k \in Chunks : View(v, c, k)
        PROVE  Framed'
    <2>1. dirty' \subseteq poisoned'
      BY <1>2 DEF Peek, View, sessVars, Framed
    <2> QED BY <1>2, <2>1, AskTurns, TurnFramed, OldIsOwn
  <1>3. CASE \E u \in {"worker", "import"} : PartsEnd(u)
    <2>1. dirty' \subseteq poisoned' /\ UNCHANGED viewer
      BY <1>3, AnswerIsOwn DEF PartsEnd, Framed
    <2> QED BY <2>1 DEF Framed, NoForeignBytes
  <1>4. CASE \/ CloseStream \/ WorkEnds \/ ImportPauses \/ ImportDrained \/ ImportResumes
             \/ \E u \in {"worker", "import"} : PartsBegin(u)
             \/ \E what \in {"sweep", "probe"} : Work(what)
             \/ UNCHANGED svars
    <2>1. UNCHANGED <<dirty, poisoned, viewer>>
      BY <1>4
      DEF CloseStream, WorkEnds, ImportPauses, ImportDrained, ImportResumes, PartsBegin, Work, svars,
          sessVars
    <2> QED BY <2>1 DEF Framed, NoForeignBytes
  <1> QED BY <1>1, <1>2, <1>3, <1>4 DEF StreamNext

-----------------------------------------------------------------------------
(* The rest of the types.                                                  *)

LEMMA ViewersKept ==
  ASSUME ViewerTypes, SessionTypes, [StreamNext]_svars
  PROVE  ViewerTypes'
  <1>1. ASSUME NEW v \in Viewers, ViewerStep(v) PROVE ViewerTypes'
    <2>1. CASE CameraAnswers(v)
      BY <2>1, AnswerTurns, TurnKeeps
    <2>2. CASE EnsureClose(v)
      BY <2>2 DEF EnsureClose, ViewerTypes
    <2>3. CASE EnsureResume(v)
      <3>1. Turn(v, {"idle"}, {"nothing"})
        BY <2>3, ToIdle DEF EnsureResume
      <3> QED BY <3>1, TurnKeeps
    <2>4. CASE EnsureClaim(v)
      BY <2>4, ClaimTurns, TurnKeeps
    <2>5. CASE EnsureStart(v) \/ EnsureStartFails(v)
      BY <2>5, StartTurns, StartFailsTurns, TurnKeeps
    <2>6. CASE EnsureSame(v) \/ ReadBack(v) \/ HeadFailed(v) \/ HeadBack(v) \/ JoinBack(v)
      BY <2>6, ReadsTurn, TurnKeeps
    <2>7. CASE PeekBegins(v) \/ PeekEnds(v)
      BY <2>7, PeekTurns, TurnKeeps
    <2> QED BY <1>1, <2>1, <2>2, <2>3, <2>4, <2>5, <2>6, <2>7 DEF ViewerStep
  <1>2. ASSUME NEW v \in Viewers, NEW c \in Clips, Peek(v, c) \/ \E k \in Chunks : View(v, c, k)
        PROVE  ViewerTypes'
    BY <1>2, AskTurns, TurnKeeps
  <1>3. CASE \/ CloseStream \/ WorkEnds \/ ImportPauses \/ ImportDrained \/ ImportResumes
             \/ \E u \in {"worker", "import"} : PartsBegin(u) \/ PartsEnd(u)
             \/ \E what \in {"sweep", "probe"} : Work(what)
             \/ UNCHANGED svars
    <2>1. UNCHANGED viewer
      BY <1>3
      DEF CloseStream, WorkEnds, ImportPauses, ImportDrained, ImportResumes, PartsBegin, PartsEnd, Work,
          svars
    <2> QED BY <2>1 DEF ViewerTypes
  <1> QED BY <1>1, <1>2, <1>3 DEF StreamNext

LEMMA LockKept ==
  ASSUME lock \in Viewers \cup {Nobody}, [StreamNext]_svars
  PROVE  lock' \in Viewers \cup {Nobody}
  <1>1. ASSUME NEW v \in Viewers, ViewerStep(v) PROVE lock' \in Viewers \cup {Nobody}
    BY <1>1
    DEF ViewerStep, EnsureSame, EnsureClose, EnsureClaim, EnsureStart, EnsureStartFails, EnsureResume,
        CameraAnswers, ReadBack, HeadFailed, HeadBack, JoinBack, PeekBegins, PeekEnds
  <1> QED
    BY <1>1
    DEF StreamNext, Peek, View, CloseStream, PartsBegin, PartsEnd, Work, WorkEnds, ImportPauses,
        ImportDrained, ImportResumes, svars

ChunkTypes ==
    /\ playing \in Clips \cup {Nobody}
    /\ cached \subseteq Chunks /\ inflight \in [Sessions -> SUBSET Chunks]
OtherTypes ==
    /\ poisoned \subseteq 1..opened /\ dirty \subseteq 1..opened
    /\ using \in [{"worker", "import"} -> 0..opened]
    /\ sick \in BOOLEAN

LEMMA ChunksKept ==
  ASSUME ViewerTypes, ChunkTypes, [StreamNext]_svars
  PROVE  ChunkTypes'
  <1> USE StreamAssumption DEF ChunkTypes
  <1>1. ASSUME CloseStreamLocked, UNCHANGED inflight PROVE ChunkTypes'
    BY <1>1 DEF CloseStreamLocked
  <1>2. ASSUME NEW v \in Viewers, ViewerStep(v) PROVE ChunkTypes'
    <2>0. viewer[v].chunk \in Chunks /\ viewer[v].clip \in Clips \cup {Nobody}
      BY DEF ViewerTypes, States
    <2>1. CASE EnsureSame(v) \/ JoinBack(v)
      <3>1. UNCHANGED <<playing, cached>>
        BY <2>1 DEF EnsureSame, JoinBack
      <3>2. \/ UNCHANGED inflight
            \/ \E n : inflight' = [inflight EXCEPT ![n] = @ \cup {viewer[v].chunk}]
        BY <2>1 DEF EnsureSame, JoinBack, Fetch
      <3> QED BY <2>0, <3>1, <3>2
    <2>2. CASE EnsureClose(v)
      BY <1>1, <2>2 DEF EnsureClose
    <2>3. CASE EnsureStart(v)
      BY <2>0, <2>3 DEF EnsureStart
    <2>4. CASE ReadBack(v)
      <3>1. UNCHANGED playing /\ cached' \subseteq cached \cup {viewer[v].chunk}
        BY <2>4 DEF ReadBack
      <3>2. inflight' = [inflight EXCEPT ![viewer[v].from] = @ \ {viewer[v].chunk}]
        BY <2>4 DEF ReadBack
      <3> QED BY <2>0, <3>1, <3>2
    <2>5. CASE HeadFailed(v)
      <3>1. inflight' = [inflight EXCEPT ![viewer[v].from] = @ \ {0}]
        BY <2>5 DEF HeadFailed
      <3>2. playing' \in Clips \cup {Nobody} /\ cached' \subseteq Chunks
        BY <2>5 DEF HeadFailed, CloseStreamLocked
      <3> QED BY <3>1, <3>2
    <2>6. CASE HeadBack(v)
      <3>1. UNCHANGED playing /\ cached' = cached \cup {0}
        BY <2>6 DEF HeadBack
      <3>2. \/ inflight' = [inflight EXCEPT ![stream] = inflight[stream] \ {0}]
            \/ inflight' = [inflight EXCEPT ![stream] = (inflight[stream] \ {0}) \cup {viewer[v].chunk}]
        BY <2>6 DEF HeadBack
      <3> QED BY <2>0, <3>1, <3>2
    <2>7. CASE EnsureClaim(v) \/ EnsureStartFails(v) \/ EnsureResume(v) \/ CameraAnswers(v)
               \/ PeekBegins(v) \/ PeekEnds(v)
      BY <2>7
      DEF EnsureClaim, EnsureStartFails, EnsureResume, CameraAnswers, PeekBegins, PeekEnds, streamVars
    <2> QED BY <1>2, <2>1, <2>2, <2>3, <2>4, <2>5, <2>6, <2>7 DEF ViewerStep
  <1>3. ASSUME NEW v \in Viewers, NEW c \in Clips, Peek(v, c) \/ \E k \in Chunks : View(v, c, k)
        PROVE  ChunkTypes'
    BY <1>3 DEF Peek, View, streamVars
  <1>4. CASE CloseStream
    BY <1>1, <1>4 DEF CloseStream
  <1>5. CASE \/ WorkEnds \/ ImportPauses \/ ImportDrained \/ ImportResumes
             \/ \E u \in {"worker", "import"} : PartsBegin(u) \/ PartsEnd(u)
             \/ \E what \in {"sweep", "probe"} : Work(what)
             \/ UNCHANGED svars
    BY <1>5
    DEF WorkEnds, ImportPauses, ImportDrained, ImportResumes, PartsBegin, PartsEnd, Work, svars, streamVars
  <1> QED BY <1>2, <1>3, <1>4, <1>5 DEF StreamNext

LEMMA AnswerMarksRunning ==
  ASSUME NEW n, NEW got, Answer(n, got)
  PROVE  poisoned' \subseteq poisoned \cup open /\ dirty' \subseteq dirty \cup open
  BY DEF Answer

LEMMA OpenedGrows ==
  ASSUME SessionTypes, SessionTypes', SessionNext
  PROVE  opened \in Nat /\ opened' \in Nat /\ opened <= opened'
  BY StreamAssumption
  DEF SessionTypes, SessionNext, StartParts, CloseParts, EndStream, BeginStream, SameSessions, StartServer

(* Marks are on sessions that have been started. *)
LEMMA MarksKept ==
  ASSUME SessionTypes, OtherTypes, [StreamNext]_svars
  PROVE  poisoned' \subseteq 1..opened /\ dirty' \subseteq 1..opened
  <1> USE DEF SessionTypes, OtherTypes
  <1>1. ASSUME NEW v \in Viewers, CameraAnswers(v) \/ PeekEnds(v)
        PROVE  poisoned' \subseteq 1..opened /\ dirty' \subseteq 1..opened
    BY <1>1, AnswerMarksRunning DEF CameraAnswers, PeekEnds
  <1>2. ASSUME NEW u, PartsEnd(u) PROVE poisoned' \subseteq 1..opened /\ dirty' \subseteq 1..opened
    BY <1>2, AnswerMarksRunning DEF PartsEnd
  <1>3. ASSUME NEW v \in Viewers,
               \/ EnsureSame(v) \/ EnsureClose(v) \/ EnsureClaim(v) \/ EnsureStart(v)
               \/ EnsureStartFails(v) \/ EnsureResume(v) \/ ReadBack(v) \/ HeadFailed(v)
               \/ HeadBack(v) \/ JoinBack(v) \/ PeekBegins(v)
        PROVE  UNCHANGED <<poisoned, dirty>>
    BY <1>3
    DEF EnsureSame, EnsureClose, EnsureClaim, EnsureStart, EnsureStartFails, EnsureResume, ReadBack,
        HeadFailed, HeadBack, JoinBack, PeekBegins, sessVars
  <1>4. CASE UNCHANGED <<poisoned, dirty>>
    BY <1>4
  <1> QED
    BY <1>1, <1>2, <1>3, <1>4
    DEF StreamNext, ViewerStep, Peek, View, CloseStream, PartsBegin, Work, WorkEnds, ImportPauses,
        ImportDrained, ImportResumes, svars, sessVars

LEMMA UsersKept ==
  ASSUME SessionTypes, SessionTypes', OtherTypes, SessionNext, [StreamNext]_svars
  PROVE  using' \in [{"worker", "import"} -> 0..opened']
  <1>1. \A n \in 0..opened : n \in 0..opened'
    BY OpenedGrows
  <1>2. CASE UNCHANGED using
    BY <1>1, <1>2 DEF OtherTypes
  <1>3. ASSUME NEW u \in {"worker", "import"}, PartsBegin(u)
        PROVE  using' \in [{"worker", "import"} -> 0..opened']
    BY <1>1, <1>3 DEF PartsBegin, OtherTypes, SessionTypes
  <1>4. ASSUME NEW u \in {"worker", "import"}, PartsEnd(u)
        PROVE  using' \in [{"worker", "import"} -> 0..opened']
    <2>1. 0 \in 0..opened'
      BY OpenedGrows
    <2> QED BY <1>1, <1>4, <2>1 DEF PartsEnd, OtherTypes
  <1>5. ASSUME NEW v \in Viewers, ViewerStep(v) PROVE UNCHANGED using
    BY <1>5
    DEF ViewerStep, EnsureSame, EnsureClose, EnsureClaim, EnsureStart, EnsureStartFails, EnsureResume,
        CameraAnswers, ReadBack, HeadFailed, HeadBack, JoinBack, PeekBegins, PeekEnds
  <1> QED
    BY <1>2, <1>3, <1>4, <1>5
    DEF StreamNext, Peek, View, CloseStream, Work, WorkEnds, ImportPauses, ImportDrained, ImportResumes,
        svars

LEMMA SickKept ==
  ASSUME sick \in BOOLEAN, [StreamNext]_svars
  PROVE  sick' \in BOOLEAN
  <1>1. ASSUME NEW v \in Viewers, ViewerStep(v) PROVE sick' \in BOOLEAN
    BY <1>1
    DEF ViewerStep, EnsureSame, EnsureClose, EnsureClaim, EnsureStart, EnsureStartFails, EnsureResume,
        CameraAnswers, ReadBack, HeadFailed, HeadBack, JoinBack, PeekBegins, PeekEnds
  <1> QED
    BY <1>1
    DEF StreamNext, Peek, View, CloseStream, PartsBegin, PartsEnd, Work, WorkEnds, ImportPauses,
        ImportDrained, ImportResumes, svars

-----------------------------------------------------------------------------
(* The theorems.                                                           *)

LEMMA TypesAre ==
  StreamTypeOK <=> /\ LinkTypeOK /\ SessionTypes /\ ViewerTypes /\ ChunkTypes /\ OtherTypes
                   /\ lock \in Viewers \cup {Nobody}
  BY DEF StreamTypeOK, SessionTypes, ViewerTypes, ChunkTypes, OtherTypes, States

LEMMA TypesAreNext ==
  StreamTypeOK' <=> /\ LinkTypeOK' /\ SessionTypes' /\ ViewerTypes' /\ ChunkTypes' /\ OtherTypes'
                    /\ lock' \in Viewers \cup {Nobody}
  BY DEF StreamTypeOK, SessionTypes, ViewerTypes, ChunkTypes, OtherTypes, States, LinkTypeOK

LEMMA InitInv == StreamInit => Inv
  <1> SUFFICES ASSUME StreamInit PROVE Inv
    OBVIOUS
  <1>1. LinkInv
    BY LinkStarts DEF StreamInit
  <1>2. Idle \in States /\ Idle.at = "idle" /\ Idle.got = "nothing"
    BY StreamAssumption DEF Idle, States
  <1>3. ViewerTypes /\ \A v \in Viewers : viewer[v].at = "idle" /\ viewer[v].got = "nothing"
    BY <1>2 DEF StreamInit, ViewerTypes
  <1>4. SessionTypes /\ ChunkTypes /\ lock \in Viewers \cup {Nobody}
    BY StreamAssumption DEF StreamInit, SessionTypes, ChunkTypes
  <1>5. OtherTypes
    <2>1. /\ poisoned \subseteq 1..opened /\ dirty \subseteq 1..opened
          /\ using \in [{"worker", "import"} -> 0..opened]
      BY DEF StreamInit
    <2>2. sick \in BOOLEAN
      BY DEF StreamInit
    <2> QED BY <2>1, <2>2 DEF OtherTypes
  <1>6. SessionsKept
    BY DEF StreamInit, SessionsKept
  <1>7. Opening
    BY <1>3, StreamAssumption DEF StreamInit, LinkInit, Opening
  <1>8. Framed
    BY <1>3 DEF StreamInit, Framed, NoForeignBytes
  <1> QED BY <1>1, <1>3, <1>4, <1>5, <1>6, <1>7, <1>8, TypesAre DEF Inv, LinkInv

LEMMA NextInv == Inv /\ [StreamNext]_svars => Inv'
  <1> SUFFICES ASSUME Inv, [StreamNext]_svars PROVE Inv'
    OBVIOUS
  <1>1. /\ LinkInv /\ SessionTypes /\ ViewerTypes /\ ChunkTypes /\ OtherTypes /\ LockTypes
        /\ SessionsKept /\ Opening /\ Framed
    BY TypesAre DEF Inv, LinkInv, LinkTypeOK, LockTypes
  <1>2. LinkInv'
    BY <1>1, StepsOfLink, LinkKept
  <1>3. SessionNext /\ SessionTypes' /\ SessionsKept'
    BY <1>1, StepsOfSessions, SessionsStay
  <1>4. Opening'
    BY <1>1, OpeningKept
  <1>5. Framed'
    BY <1>1, FramedKept
  <1>6. ViewerTypes' /\ ChunkTypes' /\ lock' \in Viewers \cup {Nobody}
    BY <1>1, ViewersKept, ChunksKept, LockKept DEF LockTypes
  <1>7. OtherTypes'
    <2>1. \A n \in 1..opened : n \in 1..opened'
      BY <1>1, <1>3, OpenedGrows
    <2>2. poisoned' \subseteq 1..opened' /\ dirty' \subseteq 1..opened'
      BY <1>1, <2>1, MarksKept
    <2>3. using' \in [{"worker", "import"} -> 0..opened']
      BY <1>1, <1>3, UsersKept
    <2>4. sick' \in BOOLEAN
      BY <1>1, SickKept DEF OtherTypes
    <2> QED BY <2>2, <2>3, <2>4 DEF OtherTypes
  <1> QED BY <1>2, <1>3, <1>4, <1>5, <1>6, <1>7, TypesAreNext DEF Inv, LinkInv

(* The inductive invariant of the streams: sessions, openers, and what is in the
   pipes.  The theorems below follow from it. *)
THEOREM StreamInvariant == StreamSpec => []Inv
  <1>1. StreamInit => Inv
    BY InitInv
  <1>2. Inv /\ [StreamNext]_svars => Inv'
    BY NextInv
  <1> QED BY <1>1, <1>2, PTL DEF StreamSpec

(* Type correctness of the streams. *)
THEOREM StreamTyped == StreamSpec => []StreamTypeOK
  <1>1. Inv => StreamTypeOK
    BY DEF Inv
  <1> QED BY <1>1, StreamInvariant, PTL

(* A viewer gets the bytes it asked for or an error, never what is left in the
   pipe of a session that failed before, whoever closed or reopened it. *)
THEOREM BytesAreOwn == StreamSpec => []NoForeignBytes
  <1>1. Inv => NoForeignBytes
    BY DEF Inv, Framed
  <1> QED BY <1>1, StreamInvariant, PTL

(* The prefetcher is paused for a stream exactly while there is one, however
   openers of other streams and failing heads come in between. *)
THEOREM PauseMatchesStream == StreamSpec => []PausedWhileStreaming
  <1>1. Inv => PausedWhileStreaming
    BY DEF Inv, Opening, PausedWhileStreaming
  <1> QED BY <1>1, StreamInvariant, PTL

(* No child process that has the camera is ever out of everybody's hands. *)
THEOREM SessionsAreHeld == StreamSpec => []NoSessionLost
  <1>1. Inv => NoSessionLost
    BY DEF Inv, SessionsKept, NoSessionLost
  <1> QED BY <1>1, StreamInvariant, PTL

(* Streams and imports together: who has drained the worker finds no batch and
   no sweep on the link until it resumes. *)
THEOREM StreamsHaveLink == StreamSpec => [](LinkYielded /\ PausesCounted)
  <1>1. Inv => LinkYielded /\ PausesCounted
    BY DEF Inv
  <1> QED BY <1>1, StreamInvariant, PTL

(* The streams implement the link too: an opener, a failing head or a closed
   session touches who has the camera only by the link's operations. *)
THEOREM StreamsUseLink == StreamSpec => LinkSpec
  <1>1. StreamInit => LinkInit
    BY DEF StreamInit
  <1>2. [StreamNext]_svars => [LinkNext]_linkVars
    BY StepsOfLink
  <1> QED BY <1>1, <1>2, PTL DEF StreamSpec, LinkSpec

-----------------------------------------------------------------------------
(* Who reads which chunk.                                                  *)

(* Viewer v is reading chunk k on session n. *)
Flight(v, n, k) ==
    /\ viewer[v].from = n
    /\ \/ viewer[v].at = "read" /\ viewer[v].chunk = k
       \/ viewer[v].at = "head" /\ k = 0

(* The marks of a session are exactly the chunks somebody reads on it, and no
   two read the same. *)
OneFlightEach ==
    \A n \in Sessions, k \in Chunks :
        /\ k \in inflight[n] <=> \E v \in Viewers : Flight(v, n, k)
        /\ \A u, v \in Viewers : Flight(u, n, k) /\ Flight(v, n, k) => u = v

(* Who reads or waits does so on a session that has been started. *)
Reading == {"join", "read", "head"}
ReadersOpened == \A v \in Viewers : viewer[v].at \in Reading => viewer[v].from \in 1..opened

FlightInv == OneFlightEach /\ ReadersOpened

(* Viewer v lands, takes off, or both. *)
FlightOf(v) ==
    \A n \in Sessions, k \in Chunks :
        /\ k \in inflight'[n] <=> Flight(v, n, k)' \/ (k \in inflight[n] /\ ~Flight(v, n, k))
        /\ Flight(v, n, k)' => k \notin inflight[n] \/ Flight(v, n, k)

LEMMA FlightKeeps ==
  ASSUME OneFlightEach, NEW v \in Viewers, \A u \in Viewers \ {v} : viewer'[u] = viewer[u], FlightOf(v)
  PROVE  OneFlightEach'
  <1>1. ASSUME NEW u \in Viewers \ {v}, NEW n, NEW k PROVE Flight(u, n, k)' <=> Flight(u, n, k)
    BY DEF Flight
  <1> SUFFICES ASSUME NEW n \in Sessions, NEW k \in Chunks
               PROVE  /\ k \in inflight'[n] <=> \E u \in Viewers : Flight(u, n, k)'
                      /\ \A u, w \in Viewers : Flight(u, n, k)' /\ Flight(w, n, k)' => u = w
    BY DEF OneFlightEach, Flight
  <1>2. /\ k \in inflight[n] <=> \E u \in Viewers : Flight(u, n, k)
        /\ \A u, w \in Viewers : Flight(u, n, k) /\ Flight(w, n, k) => u = w
    BY DEF OneFlightEach
  <1>3. /\ k \in inflight'[n] <=> Flight(v, n, k)' \/ (k \in inflight[n] /\ ~Flight(v, n, k))
        /\ Flight(v, n, k)' => k \notin inflight[n] \/ Flight(v, n, k)
    BY DEF FlightOf
  <1>4. k \in inflight'[n] <=> \E u \in Viewers : Flight(u, n, k)'
    <2>1. CASE Flight(v, n, k)'
      BY <1>3, <2>1
    <2>2. CASE ~Flight(v, n, k)'
      <3>1. k \in inflight'[n] <=> k \in inflight[n] /\ ~Flight(v, n, k)
        BY <1>3, <2>2
      <3>2. (\E u \in Viewers : Flight(u, n, k)') <=> \E u \in Viewers \ {v} : Flight(u, n, k)
        BY <1>1, <2>2
      <3>3. (\E u \in Viewers \ {v} : Flight(u, n, k)) <=> k \in inflight[n] /\ ~Flight(v, n, k)
        BY <1>2
      <3> QED BY <3>1, <3>2, <3>3
    <2> QED BY <2>1, <2>2
  <1>5. ASSUME NEW u \in Viewers, NEW w \in Viewers, Flight(u, n, k)', Flight(w, n, k)'
        PROVE  u = w
    <2>1. ASSUME NEW x \in Viewers \ {v}, Flight(x, n, k) PROVE ~Flight(v, n, k)'
      <3>1. k \in inflight[n] /\ ~Flight(v, n, k)
        BY <1>2, <2>1
      <3> QED BY <1>3, <3>1
    <2>2. CASE u # v /\ w # v
      BY <1>1, <1>2, <1>5, <2>2
    <2>3. CASE u = v /\ w # v
      BY <1>1, <1>5, <2>1, <2>3
    <2>4. CASE u # v /\ w = v
      BY <1>1, <1>5, <2>1, <2>4
    <2> QED BY <2>2, <2>3, <2>4
  <1> QED BY <1>4, <1>5

(* A step of one viewer keeps the readers on started sessions. *)
LEMMA ReadersKeep ==
  ASSUME SessionTypes, SessionTypes', SessionNext, ReadersOpened,
         NEW v \in Viewers, \A u \in Viewers \ {v} : viewer'[u] = viewer[u],
         viewer'[v].at \in Reading => viewer'[v].from \in 1..opened'
  PROVE  ReadersOpened'
  <1>1. opened \in Nat /\ opened' \in Nat /\ opened <= opened'
    BY OpenedGrows
  <1>2. \A n \in 1..opened : n \in 1..opened'
    BY <1>1
  <1> QED BY <1>2 DEF ReadersOpened

(* Where a viewer is, and what it reads there. *)
LEMMA AtIdle ==
  ASSUME ViewerTypes, NEW v \in Viewers, Set(v, Idle)
  PROVE  /\ viewer'[v].at = "idle" /\ \A u \in Viewers \ {v} : viewer'[u] = viewer[u]
         /\ \A n, k : ~Flight(v, n, k)'
  BY DEF ViewerTypes, Set, Idle, Flight

LEMMA AtPlace ==
  ASSUME ViewerTypes, NEW v \in Viewers, NEW at, NEW n,
         Set(v, [viewer[v] EXCEPT !.at = at, !.from = n])
  PROVE  /\ viewer'[v].at = at /\ viewer'[v].from = n /\ viewer'[v].chunk = viewer[v].chunk
         /\ \A u \in Viewers \ {v} : viewer'[u] = viewer[u]
  BY DEF ViewerTypes, States, Set

LEMMA AtNext ==
  ASSUME ViewerTypes, NEW v \in Viewers, NEW at,
         \/ Set(v, [viewer[v] EXCEPT !.at = at])
         \/ Set(v, [viewer[v] EXCEPT !.at = at, !.got = "nothing"])
  PROVE  /\ viewer'[v].at = at /\ viewer'[v].from = viewer[v].from /\ viewer'[v].chunk = viewer[v].chunk
         /\ \A u \in Viewers \ {v} : viewer'[u] = viewer[u]
  <1>1. viewer[v] \in States
    BY DEF ViewerTypes
  <1>2. CASE Set(v, [viewer[v] EXCEPT !.at = at])
    BY <1>1, <1>2 DEF ViewerTypes, States, Set
  <1>3. CASE Set(v, [viewer[v] EXCEPT !.at = at, !.got = "nothing"])
    BY <1>1, <1>3 DEF ViewerTypes, States, Set
  <1> QED BY <1>2, <1>3

(* A viewer that reads nothing asks for a chunk: it reads it if nobody does. *)
LEMMA FetchFlies ==
  ASSUME ViewerTypes, ChunkTypes, NEW v \in Viewers, viewer[v].at \in {"ensure", "join"},
         NEW n \in 1..opened, Fetch(v, n)
  PROVE  /\ FlightOf(v) /\ (viewer'[v].at \in Reading => viewer'[v].from \in 1..opened)
         /\ \A u \in Viewers \ {v} : viewer'[u] = viewer[u]
  <1>1. \A m, k : ~Flight(v, m, k)
    BY DEF Flight
  <1>2. CASE Set(v, Idle) /\ UNCHANGED inflight
    BY <1>1, <1>2, AtIdle DEF FlightOf, Reading
  <1>3. CASE Set(v, [viewer[v] EXCEPT !.at = "join", !.from = n]) /\ UNCHANGED inflight
    <2>1. /\ viewer'[v].at = "join" /\ viewer'[v].from = n
          /\ \A u \in Viewers \ {v} : viewer'[u] = viewer[u]
      <3>1. Set(v, [viewer[v] EXCEPT !.at = "join", !.from = n])
        BY <1>3
      <3> QED BY <3>1 DEF ViewerTypes, States, Set
    <2>2. \A m, k : ~Flight(v, m, k)'
      BY <2>1 DEF Flight
    <2> QED BY <1>1, <1>3, <2>1, <2>2 DEF FlightOf
  <1>4. ASSUME viewer[v].chunk \notin inflight[n],
               Set(v, [viewer[v] EXCEPT !.at = "read", !.from = n]),
               inflight' = [inflight EXCEPT ![n] = @ \cup {viewer[v].chunk}]
        PROVE  /\ FlightOf(v) /\ (viewer'[v].at \in Reading => viewer'[v].from \in 1..opened)
               /\ \A u \in Viewers \ {v} : viewer'[u] = viewer[u]
    <2>1. /\ viewer'[v].at = "read" /\ viewer'[v].from = n /\ viewer'[v].chunk = viewer[v].chunk
          /\ \A u \in Viewers \ {v} : viewer'[u] = viewer[u]
      BY <1>4, AtPlace
    <2>2. \A m, k : Flight(v, m, k)' <=> m = n /\ k = viewer[v].chunk
      BY <2>1 DEF Flight
    <2>3. ASSUME NEW m \in Sessions, NEW k \in Chunks
          PROVE  k \in inflight'[m] <=> k \in inflight[m] \/ (m = n /\ k = viewer[v].chunk)
      BY <1>4 DEF ChunkTypes
    <2>4. FlightOf(v)
      BY <1>1, <1>4, <2>2, <2>3 DEF FlightOf
    <2> QED BY <2>1, <2>4
  <1> QED BY <1>2, <1>3, <1>4 DEF Fetch

(* The chunk a viewer read is marked no longer. *)
LEMMA ChunkLands ==
  ASSUME ViewerTypes, ChunkTypes, OneFlightEach, NEW v \in Viewers, NEW n \in Sessions, NEW k \in Chunks,
         Flight(v, n, k), Set(v, Idle), inflight' = [inflight EXCEPT ![n] = @ \ {k}]
  PROVE  /\ FlightOf(v) /\ viewer'[v].at = "idle" /\ \A u \in Viewers \ {v} : viewer'[u] = viewer[u]
  <1>1. /\ viewer'[v].at = "idle" /\ \A u \in Viewers \ {v} : viewer'[u] = viewer[u]
        /\ \A m, j : ~Flight(v, m, j)'
    BY AtIdle
  <1>2. \A m, j : Flight(v, m, j) <=> m = n /\ j = k
    BY DEF Flight
  <1>3. ASSUME NEW m \in Sessions, NEW j \in Chunks
        PROVE  j \in inflight'[m] <=> j \in inflight[m] /\ ~(m = n /\ j = k)
    BY DEF ChunkTypes
  <1> QED BY <1>1, <1>2, <1>3 DEF FlightOf

(* The head is there, and the viewer goes on for its chunk. *)
LEMMA HeadBackFlies ==
  ASSUME ViewerTypes, ChunkTypes, ReadersOpened, SessionTypes, NEW v \in Viewers, HeadBack(v)
  PROVE  /\ FlightOf(v) /\ (viewer'[v].at \in Reading => viewer'[v].from \in 1..opened)
         /\ \A u \in Viewers \ {v} : viewer'[u] = viewer[u]
  <1> DEFINE n == stream
             k == viewer[v].chunk
             others == inflight[n] \ {0}
  <1>1. viewer[v].at = "head" /\ viewer[v].from = n /\ n \in 1..opened /\ n \in Sessions
    BY StreamAssumption DEF HeadBack, Back, At, ReadersOpened, Reading, SessionTypes, Sessions
  <1>2. \A m, j : Flight(v, m, j) <=> m = n /\ j = 0
    BY <1>1 DEF Flight
  <1>3. cached' = cached \cup {0}
    BY DEF HeadBack
  <1>4. ASSUME inflight' = [inflight EXCEPT ![n] = others], NEW m \in Sessions, NEW j \in Chunks
        PROVE  j \in inflight'[m] <=> j \in inflight[m] /\ ~(m = n /\ j = 0)
    BY <1>1, <1>4 DEF ChunkTypes
  <1>5. CASE Set(v, Idle) /\ inflight' = [inflight EXCEPT ![n] = others]
    <2>1. /\ viewer'[v].at = "idle" /\ \A u \in Viewers \ {v} : viewer'[u] = viewer[u]
          /\ \A m, j : ~Flight(v, m, j)'
      BY <1>5, AtIdle
    <2>2. FlightOf(v)
      BY <1>2, <1>4, <1>5, <2>1 DEF FlightOf
    <2> QED BY <2>1, <2>2 DEF Reading
  <1>6. CASE /\ Set(v, [viewer[v] EXCEPT !.at = "join", !.got = "nothing"])
             /\ inflight' = [inflight EXCEPT ![n] = others]
    <2>1. /\ viewer'[v].at = "join" /\ viewer'[v].from = n
          /\ \A u \in Viewers \ {v} : viewer'[u] = viewer[u]
      BY <1>1, <1>6, AtNext
    <2>2. \A m, j : ~Flight(v, m, j)'
      BY <2>1 DEF Flight
    <2>3. FlightOf(v)
      BY <1>2, <1>4, <1>6, <2>2 DEF FlightOf
    <2> QED BY <1>1, <2>1, <2>3
  <1>7. ASSUME k \notin cached', k \notin others,
               Set(v, [viewer[v] EXCEPT !.at = "read", !.got = "nothing"]),
               inflight' = [inflight EXCEPT ![n] = others \cup {k}]
        PROVE  /\ FlightOf(v) /\ (viewer'[v].at \in Reading => viewer'[v].from \in 1..opened)
               /\ \A u \in Viewers \ {v} : viewer'[u] = viewer[u]
    <2>1. /\ viewer'[v].at = "read" /\ viewer'[v].from = n /\ viewer'[v].chunk = k
          /\ \A u \in Viewers \ {v} : viewer'[u] = viewer[u]
      BY <1>1, <1>7, AtNext
    <2>2. \A m, j : Flight(v, m, j)' <=> m = n /\ j = k
      BY <2>1 DEF Flight
    <2>3. k # 0 /\ k \notin inflight[n]
      BY <1>3, <1>7
    <2>4. ASSUME NEW m \in Sessions, NEW j \in Chunks
          PROVE  j \in inflight'[m] <=> (j \in inflight[m] /\ ~(m = n /\ j = 0)) \/ (m = n /\ j = k)
      BY <1>1, <1>7 DEF ChunkTypes
    <2>5. FlightOf(v)
      BY <1>2, <2>2, <2>3, <2>4 DEF FlightOf
    <2> QED BY <1>1, <2>1, <2>5
  <1> QED BY <1>5, <1>6, <1>7 DEF HeadBack

(* A stream is opened, on a session nobody has read. *)
LEMMA StartFlies ==
  ASSUME ViewerTypes, ChunkTypes, OneFlightEach, ReadersOpened, SessionTypes, NEW v \in Viewers,
         EnsureStart(v)
  PROVE  /\ FlightOf(v) /\ viewer'[v].from \in 1..opened'
         /\ \A u \in Viewers \ {v} : viewer'[u] = viewer[u]
  <1>1. /\ viewer[v].at = "drain" /\ opened' = opened + 1 /\ opened < MaxSessions /\ opened \in Nat
        /\ inflight' = [inflight EXCEPT ![opened'] = {0}]
        /\ Set(v, [viewer[v] EXCEPT !.at = "head", !.from = opened'])
    BY DEF EnsureStart, At, StartServer, SessionTypes
  <1>2. opened' \in Sessions /\ opened' \in 1..opened' /\ opened' \notin 1..opened
    BY <1>1, StreamAssumption DEF Sessions
  <1>3. /\ viewer'[v].at = "head" /\ viewer'[v].from = opened'
        /\ \A u \in Viewers \ {v} : viewer'[u] = viewer[u]
    BY <1>1, AtPlace
  <1>4. \A m, j : ~Flight(v, m, j) /\ (Flight(v, m, j)' <=> m = opened' /\ j = 0)
    BY <1>1, <1>3 DEF Flight
  <1>5. ASSUME NEW k \in Chunks PROVE k \notin inflight[opened']
    <2>1. \A u \in Viewers : ~Flight(u, opened', k)
      BY <1>2 DEF Flight, ReadersOpened, Reading
    <2> QED BY <1>2, <2>1 DEF OneFlightEach
  <1>6. ASSUME NEW m \in Sessions, NEW j \in Chunks
        PROVE  j \in inflight'[m] <=> (m = opened' /\ j = 0) \/ (m # opened' /\ j \in inflight[m])
    BY <1>1, <1>2 DEF ChunkTypes
  <1>7. FlightOf(v)
    BY <1>4, <1>5, <1>6 DEF FlightOf
  <1> QED BY <1>2, <1>3, <1>7

(* A step that neither begins nor ends a read of a chunk. *)
LEMMA StaysDown ==
  ASSUME OneFlightEach, NEW v \in Viewers, UNCHANGED inflight,
         \A n, k : Flight(v, n, k)' <=> Flight(v, n, k)
  PROVE  FlightOf(v)
  <1> SUFFICES ASSUME NEW n \in Sessions, NEW k \in Chunks
               PROVE  /\ k \in inflight'[n] <=> Flight(v, n, k)' \/ (k \in inflight[n] /\ ~Flight(v, n, k))
                      /\ Flight(v, n, k)' => k \notin inflight[n] \/ Flight(v, n, k)
    BY DEF FlightOf
  <1>1. (Flight(v, n, k)' <=> Flight(v, n, k)) /\ inflight'[n] = inflight[n]
    OBVIOUS
  <1>2. Flight(v, n, k) => k \in inflight[n]
    BY DEF OneFlightEach
  <1> QED BY <1>1, <1>2

LEMMA FlightOfStep ==
  ASSUME ViewerTypes, ChunkTypes, SessionTypes, SessionTypes', FlightInv, NEW v \in Viewers, ViewerStep(v)
  PROVE  /\ FlightOf(v) /\ (viewer'[v].at \in Reading => viewer'[v].from \in 1..opened')
         /\ \A u \in Viewers \ {v} : viewer'[u] = viewer[u]
  <1> USE DEF FlightInv
  <1>0. viewer[v].at \in {"read", "head"} => viewer[v].from \in 1..opened /\ viewer[v].from \in Sessions
    BY StreamAssumption DEF ReadersOpened, Reading, SessionTypes, Sessions
  <1>1. CASE EnsureSame(v)
    <2>1. stream \in 1..opened /\ viewer[v].at = "ensure" /\ Fetch(v, stream) /\ UNCHANGED opened
      BY <1>1 DEF EnsureSame, At, SessionTypes, sessVars
    <2> QED BY <2>1, FetchFlies
  <1>2. CASE JoinBack(v)
    <2>1. UNCHANGED opened /\ viewer[v].at = "join"
      BY <1>2 DEF JoinBack, At, sessVars
    <2>2. CASE Set(v, Idle) /\ UNCHANGED inflight
      BY <2>1, <2>2, AtIdle, StaysDown DEF Flight, Reading
    <2>3. CASE stream = viewer[v].from /\ Fetch(v, stream)
      <3>1. stream \in 1..opened
        BY <2>1, <2>3 DEF ReadersOpened, Reading
      <3> QED BY <2>1, <2>3, <3>1, FetchFlies
    <2> QED BY <1>2, <2>2, <2>3 DEF JoinBack
  <1>3. CASE EnsureClose(v)
    <2>1. UNCHANGED <<viewer, inflight, opened>> /\ viewer[v].at = "ensure"
      BY <1>3 DEF EnsureClose, At
    <2>2. FlightOf(v)
      BY <2>1, StaysDown DEF Flight
    <2> QED BY <2>1, <2>2 DEF Reading
  <1>4. CASE EnsureClaim(v) \/ EnsureStartFails(v) \/ EnsureResume(v)
    <2>1. /\ viewer[v].at \in {"ensure", "drain", "resume"} /\ UNCHANGED inflight
          /\ Set(v, Idle) \/ \E at \in {"drain", "resume"} : Set(v, [viewer[v] EXCEPT !.at = at])
      BY <1>4 DEF EnsureClaim, EnsureStartFails, EnsureResume, At, streamVars
    <2>2. /\ viewer'[v].at \in {"idle", "drain", "resume"}
          /\ \A u \in Viewers \ {v} : viewer'[u] = viewer[u]
      BY <2>1, AtIdle, AtNext
    <2>3. \A n, k : ~Flight(v, n, k) /\ ~Flight(v, n, k)'
      BY <2>1, <2>2 DEF Flight
    <2> QED BY <2>1, <2>2, <2>3, StaysDown DEF Reading
  <1>5. CASE EnsureStart(v)
    BY <1>5, StartFlies
  <1>6. CASE CameraAnswers(v)
    <2>1. PICK got : Set(v, [viewer[v] EXCEPT !.got = got])
      BY <1>6 DEF CameraAnswers
    <2>2. viewer[v].at \in {"read", "head"} /\ UNCHANGED <<inflight, opened>>
      BY <1>6 DEF CameraAnswers, streamVars
    <2>3. /\ viewer'[v].at = viewer[v].at /\ viewer'[v].from = viewer[v].from
          /\ viewer'[v].chunk = viewer[v].chunk /\ \A u \in Viewers \ {v} : viewer'[u] = viewer[u]
      BY <2>1 DEF ViewerTypes, States, Set
    <2>4. \A n, k : Flight(v, n, k)' <=> Flight(v, n, k)
      BY <2>3 DEF Flight
    <2> QED BY <1>0, <2>2, <2>3, <2>4, StaysDown
  <1>7. CASE ReadBack(v)
    <2>1. /\ viewer[v].at = "read" /\ Set(v, Idle)
          /\ inflight' = [inflight EXCEPT ![viewer[v].from] = @ \ {viewer[v].chunk}]
      BY <1>7 DEF ReadBack, Back, At
    <2>2. Flight(v, viewer[v].from, viewer[v].chunk) /\ viewer[v].chunk \in Chunks
      BY <2>1 DEF Flight, ViewerTypes, States
    <2> QED BY <1>0, <2>1, <2>2, ChunkLands DEF Reading
  <1>8. CASE HeadFailed(v)
    <2>1. /\ viewer[v].at = "head" /\ Set(v, Idle)
          /\ inflight' = [inflight EXCEPT ![viewer[v].from] = @ \ {0}]
      BY <1>8 DEF HeadFailed, Back, At
    <2>2. Flight(v, viewer[v].from, 0) /\ 0 \in Chunks
      BY <2>1, StreamAssumption DEF Flight
    <2> QED BY <1>0, <2>1, <2>2, ChunkLands DEF Reading
  <1>9. CASE HeadBack(v)
    <2>1. UNCHANGED opened
      BY <1>9 DEF HeadBack, sessVars
    <2> QED BY <1>9, <2>1, HeadBackFlies
  <1>10. CASE PeekBegins(v) \/ PeekEnds(v)
    <2>1. /\ viewer[v].at \in {"peek", "peeking"} /\ UNCHANGED inflight
          /\ Set(v, Idle) \/ Set(v, [viewer[v] EXCEPT !.at = "peeking", !.from = parts'])
      BY <1>10 DEF PeekBegins, PeekEnds, At, streamVars
    <2>2. /\ viewer'[v].at \in {"idle", "peeking"}
          /\ \A u \in Viewers \ {v} : viewer'[u] = viewer[u]
      BY <2>1, AtIdle, AtPlace
    <2>3. \A n, k : ~Flight(v, n, k) /\ ~Flight(v, n, k)'
      BY <2>1, <2>2 DEF Flight
    <2> QED BY <2>1, <2>2, <2>3, StaysDown DEF Reading
  <1> QED BY <1>1, <1>2, <1>3, <1>4, <1>5, <1>6, <1>7, <1>8, <1>9, <1>10 DEF ViewerStep

LEMMA FlightFrame ==
  ASSUME SessionTypes, SessionTypes', SessionNext, FlightInv, UNCHANGED <<viewer, inflight>>
  PROVE  FlightInv'
  <1>1. opened \in Nat /\ opened' \in Nat /\ opened <= opened'
    BY OpenedGrows
  <1>2. \A n \in 1..opened : n \in 1..opened'
    BY <1>1
  <1>3. ReadersOpened'
    BY <1>2 DEF FlightInv, ReadersOpened
  <1>4. OneFlightEach'
    BY DEF FlightInv, OneFlightEach, Flight
  <1> QED BY <1>3, <1>4 DEF FlightInv

LEMMA FlightsKept ==
  ASSUME ViewerTypes, ChunkTypes, SessionTypes, SessionTypes', SessionNext, FlightInv, [StreamNext]_svars
  PROVE  FlightInv'
  <1>1. ASSUME NEW v \in Viewers, ViewerStep(v) PROVE FlightInv'
    <2>1. /\ FlightOf(v) /\ (viewer'[v].at \in Reading => viewer'[v].from \in 1..opened')
          /\ \A u \in Viewers \ {v} : viewer'[u] = viewer[u]
      BY <1>1, FlightOfStep
    <2>2. OneFlightEach'
      BY <2>1, FlightKeeps DEF FlightInv
    <2>3. ReadersOpened'
      BY <2>1, ReadersKeep DEF FlightInv
    <2> QED BY <2>2, <2>3 DEF FlightInv
  <1>2. ASSUME NEW v \in Viewers, NEW c \in Clips, Peek(v, c) \/ \E k \in Chunks : View(v, c, k)
        PROVE  FlightInv'
    <2>1. Turn(v, {"peek", "ensure"}, Old(v)) /\ viewer[v].at = "idle" /\ UNCHANGED inflight
      BY <1>2, AskTurns DEF Peek, View, At, streamVars
    <2>2. viewer'[v].at \in {"peek", "ensure"} /\ \A u \in Viewers \ {v} : viewer'[u] = viewer[u]
      BY <2>1, TurnKeeps
    <2>3. \A n, k : ~Flight(v, n, k) /\ ~Flight(v, n, k)'
      BY <2>1, <2>2 DEF Flight
    <2>4. FlightOf(v) /\ (viewer'[v].at \in Reading => viewer'[v].from \in 1..opened')
      <3>1. FlightOf(v)
        BY <2>1, <2>3, StaysDown DEF FlightInv
      <3> QED BY <2>2, <3>1 DEF Reading
    <2> QED BY <2>2, <2>4, FlightKeeps, ReadersKeep DEF FlightInv
  <1>3. CASE \/ CloseStream \/ WorkEnds \/ ImportPauses \/ ImportDrained \/ ImportResumes
             \/ \E u \in {"worker", "import"} : PartsBegin(u) \/ PartsEnd(u)
             \/ \E what \in {"sweep", "probe"} : Work(what)
             \/ UNCHANGED svars
    <2>1. UNCHANGED <<viewer, inflight>>
      BY <1>3
      DEF CloseStream, WorkEnds, ImportPauses, ImportDrained, ImportResumes, PartsBegin, PartsEnd, Work,
          svars, streamVars
    <2> QED BY <2>1, FlightFrame
  <1> QED BY <1>1, <1>2, <1>3 DEF StreamNext

-----------------------------------------------------------------------------
(* Nobody waits on everybody.                                              *)

(* The worker of this module, which fetches no images and is never closed. *)
WorkerDoes == worker \in {"idle", "sweep", "probe"}

LEMMA WorkerKept ==
  ASSUME WorkerDoes, [LinkNext]_linkVars, [StreamNext]_svars
  PROVE  WorkerDoes'
  <1>1. CASE WorkEnds \/ \E what \in {"sweep", "probe"} : Work(what)
    BY <1>1 DEF WorkEnds, Work, EndWork, StartWork, WorkerDoes
  <1>2. ASSUME NEW v \in Viewers, ViewerStep(v) PROVE UNCHANGED worker
    BY <1>2
    DEF ViewerStep, EnsureSame, EnsureClose, EnsureClaim, EnsureStart, EnsureStartFails, EnsureResume,
        CameraAnswers, ReadBack, HeadFailed, HeadBack, JoinBack, PeekBegins, PeekEnds,
        CloseStreamLocked, Resume, PauseAndDrain, Drained, linkVars
  <1>3. CASE \/ CloseStream \/ ImportPauses \/ ImportDrained \/ ImportResumes
             \/ \E u \in {"worker", "import"} : PartsBegin(u) \/ PartsEnd(u)
             \/ \E v \in Viewers, c \in Clips : Peek(v, c) \/ \E k \in Chunks : View(v, c, k)
             \/ UNCHANGED svars
    BY <1>3
    DEF CloseStream, ImportPauses, ImportDrained, ImportResumes, PartsBegin, PartsEnd, Peek, View,
        CloseStreamLocked, Resume, PauseAndDrain, Drained, linkVars, svars, WorkerDoes
  <1> QED BY <1>1, <1>2, <1>3 DEF StreamNext, WorkerDoes

(* What has to be the case for viewer v to take its next step, place by place:
   for the lock, for the link, for another reader. *)
CanGoOn(v) ==
    \/ viewer[v].at \in {"peek", "peeking"}
    \/ viewer[v].at \in {"read", "head"} /\ viewer[v].got = "nothing"
    \/ /\ viewer[v].at = "ensure" /\ lock = Nobody
       /\ \/ stream # 0 /\ (playing = viewer[v].clip \/ owner["stream"] = "owns")
          \/ stream = 0 /\ owner["stream"] = "away"
    \/ viewer[v].at = "ensure" /\ lock = v /\ stream = 0 /\ owner["stream"] = "away"
    \/ viewer[v].at = "drain" /\ owner["stream"] = "draining" /\ worker \notin Drainable
    \/ viewer[v].at = "resume" /\ owner["stream"] = "owns"
    \/ viewer[v].at = "read" /\ lock = Nobody
    \/ viewer[v].at = "head" /\ lock = Nobody /\ (stream # 0 => owner["stream"] = "owns")
    \/ viewer[v].at = "join" /\ lock = Nobody /\ viewer[v].chunk \notin inflight[viewer[v].from]

(* As long as a viewer waits, some viewer need not, or the worker is in a sweep,
   which ends by itself. *)
SomebodyGoesOn ==
    (\E v \in Viewers : ~At(v, "idle")) => (\E u \in Viewers : CanGoOn(u)) \/ worker = "sweep"

LEMMA NotStuckThere ==
  ASSUME ViewerTypes, SessionTypes, Opening, LockTypes, FlightInv, WorkerDoes
  PROVE  SomebodyGoesOn
  <1> SUFFICES ASSUME NEW v \in Viewers, viewer[v].at # "idle", worker # "sweep"
               PROVE  \E u \in Viewers : CanGoOn(u)
    BY DEF SomebodyGoesOn, At
  <1>0. worker \notin Drainable
    BY DEF WorkerDoes, Drainable
  <1>1. CASE lock # Nobody
    <2>1. lock \in Viewers
      BY <1>1 DEF LockTypes
    <2>2. CanGoOn(lock)
      BY <1>0, <1>1, <2>1 DEF Opening, CanGoOn
    <2> QED BY <2>1, <2>2
  <1>2. CASE lock = Nobody
    <2>0. owner["stream"] = (IF stream = 0 THEN "away" ELSE "owns")
      BY <1>2 DEF Opening
    <2>1. viewer[v].at \notin {"drain", "resume"}
      BY <1>2, StreamAssumption DEF Opening
    <2>2. viewer[v].at \in {"ensure", "head", "read", "join", "peek", "peeking"}
      BY <2>1 DEF ViewerTypes, States
    <2>3. CASE viewer[v].at # "join"
      <3>1. CanGoOn(v)
        BY <1>2, <2>0, <2>2, <2>3 DEF CanGoOn
      <3> QED BY <3>1
    <2>4. CASE viewer[v].at = "join" /\ viewer[v].chunk \notin inflight[viewer[v].from]
      BY <1>2, <2>4 DEF CanGoOn
    <2>5. CASE viewer[v].at = "join" /\ viewer[v].chunk \in inflight[viewer[v].from]
      <3>1. viewer[v].from \in Sessions /\ viewer[v].chunk \in Chunks
        BY <2>5, StreamAssumption
        DEF FlightInv, ReadersOpened, Reading, SessionTypes, Sessions, ViewerTypes, States
      <3>2. PICK u \in Viewers : Flight(u, viewer[v].from, viewer[v].chunk)
        BY <2>5, <3>1 DEF FlightInv, OneFlightEach
      <3>3. viewer[u].at \in {"read", "head"}
        BY <3>2 DEF Flight
      <3>4. CanGoOn(u)
        BY <1>2, <2>0, <3>3 DEF CanGoOn
      <3> QED BY <3>4
    <2> QED BY <2>3, <2>4, <2>5
  <1> QED BY <1>1, <1>2

(* The flights of all viewers are on the marks of their sessions at the start. *)
LEMMA FlightsStart == StreamInit => FlightInv /\ WorkerDoes
  <1> SUFFICES ASSUME StreamInit PROVE FlightInv /\ WorkerDoes
    OBVIOUS
  <1>1. \A v \in Viewers : viewer[v].at = "idle"
    BY DEF StreamInit, Idle
  <1>2. \A n \in Sessions : inflight[n] = {}
    BY DEF StreamInit
  <1>3. OneFlightEach /\ ReadersOpened
    BY <1>1, <1>2 DEF OneFlightEach, ReadersOpened, Reading, Flight
  <1> QED BY <1>3 DEF FlightInv, WorkerDoes, StreamInit, LinkInit

LEMMA FlightInvariant == StreamSpec => [](FlightInv /\ WorkerDoes)
  <1>1. StreamInit => FlightInv /\ WorkerDoes
    BY FlightsStart
  <1>2. Inv /\ Inv' /\ FlightInv /\ WorkerDoes /\ [StreamNext]_svars => (FlightInv /\ WorkerDoes)'
    <2> SUFFICES ASSUME Inv, Inv', FlightInv, WorkerDoes, [StreamNext]_svars PROVE (FlightInv /\ WorkerDoes)'
      OBVIOUS
    <2>1. ViewerTypes /\ ChunkTypes /\ SessionTypes /\ SessionTypes' /\ Opening
      BY TypesAre, TypesAreNext DEF Inv
    <2> QED BY <2>1, StepsOfSessions, FlightsKept, WorkerKept, StepsOfLink
  <1> QED BY <1>1, <1>2, StreamInvariant, PTL DEF StreamSpec

(* Two goroutines never read the same chunk of a stream at once, and a chunk
   marked as being read is being read by somebody: who joins a read
   (streamFetch) waits for one that goes on, also when it failed, when its
   session was closed meanwhile, or when another stream took its place. *)
THEOREM ChunksReadOnce == StreamSpec => []OneFlightEach
  <1>1. FlightInv => OneFlightEach
    BY DEF FlightInv
  <1> QED BY <1>1, FlightInvariant, PTL

(* The readers of streams never wait for each other in a circle: for the lock
   streamMu, for the worker to drain, for a chunk another one reads. *)
THEOREM NoCircleOfViewers == StreamSpec => []SomebodyGoesOn
  <1>1. Inv /\ FlightInv /\ WorkerDoes => SomebodyGoesOn
    BY NotStuckThere, TypesAre DEF Inv, LockTypes, LinkTypeOK
  <1> QED BY <1>1, StreamInvariant, FlightInvariant, PTL
=============================================================================
