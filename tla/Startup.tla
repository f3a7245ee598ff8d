------------------------------ MODULE Startup ------------------------------
(***************************************************************************)
(* The start of the engine (internal/cull/run.go, server.go, backend.go,   *)
(* transport.go): discovery of the camera's contents, tried until it       *)
(* succeeds; the session and the cache keyed to the camera's identity; the *)
(* moment the handlers are let in; the syncer; the end.                    *)
(*                                                                         *)
(* One folder stands for the card.  A picture is a number; 0 is none.  The *)
(* camera addresses files by handles and may bind them anew whenever it is *)
(* not attached; a file's size and date are facts about its picture.  The  *)
(* catalog cache of the cli backend is one for all cameras.                *)
(***************************************************************************)
EXTENDS Naturals, FiniteSets

CONSTANTS
    Bodies,       (* cameras *)
    FileNames,    (* names on a card; a handle is a name too *)
    NoBody,       (* no camera, no identity, no session slug *)
    Swaps,        (* TRUE if the camera may be exchanged while discovery runs *)
    MaxPictures,  (* bound: pictures taken *)
    MaxFailures,  (* bound: requests the camera does not answer *)
    MaxPlugs,     (* bound: cameras attached, handles bound anew *)
    MaxRuns       (* bound: starts of the engine *)

ASSUME StartupAssumption ==
    /\ NoBody \notin Bodies /\ IsFiniteSet(FileNames) /\ Swaps \in BOOLEAN
    /\ {MaxPictures, MaxFailures, MaxPlugs, MaxRuns} \subseteq Nat

VARIABLES
    card,       (* card[b][n]: the picture *)
    binding,    (* binding[b][n]: the handle *)
    attached,   (* the camera on the cable *)
    taken,      (* pictures taken so far *)
    catCache,   (* the catalog cache: what it says of each name *)
    phase,      (* "off", "discovering", "keying", "building", "ready" *)
    identity,   (* the backend's, once the camera has told it *)
    index,      (* what discovery found: [of, bulk, entries] *)
    session,    (* app.session and cameraSlug: a body's own, or NoBody for "default" *)
    request,    (* the session a handler works on, or "none" *)
    decided,    (* decided[s]: cameras about whose pictures session s has decisions *)
    failures, plugs, runs

world == <<card, binding, attached, taken>>
app == <<phase, identity, index, session, request>>
bounds == <<failures, plugs, runs>>
avars == <<world, catCache, app, decided, bounds>>

Unknown == [handle |-> NoBody, pic |-> 0]
Bindings == {f \in [FileNames -> FileNames] : \A m, n \in FileNames : (f[m] = f[n]) => (m = n)}
Plug == plugs < MaxPlugs /\ plugs' = plugs + 1
NoIndex == [of |-> NoBody, bulk |-> FALSE, entries |-> [n \in FileNames |-> Unknown]]
Fails == failures < MaxFailures /\ failures' = failures + 1

StartupInit ==
    /\ card = [b \in Bodies |-> [n \in FileNames |-> 0]]
    /\ binding \in [Bodies -> Bindings]
    /\ attached = NoBody /\ taken = 0
    /\ catCache = NoIndex.entries
    /\ phase = "off" /\ identity = NoBody /\ index = NoIndex
    /\ session = NoBody /\ request = "none"
    /\ decided = [s \in Bodies \cup {NoBody} |-> {}]
    /\ failures = 0 /\ plugs = 0 /\ runs = 0

-----------------------------------------------------------------------------
(* The camera.                                                             *)

Shoot(b, n) ==
    /\ attached # b /\ taken < MaxPictures
    /\ taken' = taken + 1
    /\ card' = [card EXCEPT ![b][n] = taken']
    /\ UNCHANGED <<binding, attached, catCache, app, decided, bounds>>

Rebind(b) ==
    /\ attached # b /\ Plug
    /\ \E f \in Bindings : f # binding[b] /\ binding' = [binding EXCEPT ![b] = f]
    /\ UNCHANGED <<card, attached, taken, catCache, app, decided, failures, runs>>

Attach(b) ==
    /\ attached # b
    /\ Swaps \/ phase = "off" \/ {index.of, identity} \subseteq {b, NoBody}
    /\ Plug
    /\ attached' = b
    /\ UNCHANGED <<card, binding, taken, catCache, app, decided, failures, runs>>

Detach ==
    /\ attached # NoBody
    /\ attached' = NoBody
    /\ UNCHANGED <<card, binding, taken, catCache, app, decided, bounds>>

-----------------------------------------------------------------------------
(* Discovery (cliBackend.Discover).                                        *)

\* Mutant of Start: the identity survives the restart.
StartRemembers ==
    /\ phase = "off" /\ runs < MaxRuns /\ runs' = runs + 1
    /\ phase' = "discovering"
    /\ index' = NoIndex
    /\ session' = NoBody
    /\ UNCHANGED <<world, catCache, identity, request, decided, failures, plugs>>

Start ==
    /\ phase = "off" /\ runs < MaxRuns /\ runs' = runs + 1
    /\ phase' = "discovering"
    /\ identity' = NoBody /\ index' = NoIndex
    /\ session' = NoBody
    /\ UNCHANGED <<world, catCache, request, decided, failures, plugs>>

OnCard == {n \in FileNames : card[attached][n] # 0}
Live(n) == [handle |-> binding[attached][n], pic |-> card[attached][n]]
Listing(of) == [n \in FileNames |-> IF n \in OnCard THEN of[n] ELSE Unknown]

\* Mutant of Diffed: a cached handle that still exists is kept, as in an
\* earlier version.
DiffedByHandle(bulk) ==
    [n \in FileNames |->
        IF catCache[n].handle \in {binding[attached][m] : m \in OnCard}
        THEN catCache[n] ELSE Live(n)]

(* deltaFolder: the handles are the camera's, and so are size and date if the
   card-wide listing (bulk) was answered; otherwise those are looked up only
   for names the cache does not know. *)
Diffed(bulk) ==
    [n \in FileNames |->
        IF bulk \/ catCache[n] = Unknown THEN Live(n) ELSE [Live(n) EXCEPT !.pic = catCache[n].pic]]

(* A folder that is in the cache is diffed, unless an answer is missing: then it
   is listed in full, as one the cache does not know. *)
Cached == catCache # NoIndex.entries
FullyListed == [n \in FileNames |-> Live(n)]
Entries(bulk, answered) == Listing(IF answered /\ Cached THEN Diffed(bulk) ELSE FullyListed)

(* The cache is written if a handle moved, or there are more or fewer files, or
   one had to be looked up. *)
Described(entries) == {n \in FileNames : entries[n] # Unknown}
Changed(entries, bulk) ==
    \/ \E n \in Described(entries) \cap Described(catCache) : entries[n].handle # catCache[n].handle
    \/ Cardinality(Described(entries)) # Cardinality(Described(catCache))
    \/ ~bulk /\ ~(Described(entries) \subseteq Described(catCache))

(* The identity is asked for until the camera has told it, once. *)
Told(answered) == IF identity = NoBody /\ answered THEN attached ELSE identity

\* Mutant of Discover: an attempt that failed is the last one.
DiscoverOnce ==
    /\ phase = "discovering" /\ attached # NoBody /\ OnCard # {} /\ failures = 0
    /\ identity' = Told(TRUE)
    /\ index' = [of |-> attached, bulk |-> TRUE, entries |-> Entries(TRUE, TRUE)]
    /\ catCache' = index'.entries
    /\ phase' = "keying"
    /\ UNCHANGED <<world, session, request, decided, bounds>>

Discover ==
    /\ phase = "discovering" /\ attached # NoBody /\ OnCard # {}
    /\ \E trouble \in {"none", "identity", "diff"}, bulk \in BOOLEAN :
          /\ IF trouble = "none" THEN UNCHANGED failures ELSE Fails
          /\ identity' = Told(trouble # "identity")
          /\ index' = [of |-> attached, bulk |-> bulk, entries |-> Entries(bulk, trouble # "diff")]
          /\ catCache' = IF ~Cached \/ trouble = "diff" \/ Changed(index'.entries, bulk)
                         THEN index'.entries ELSE catCache
    /\ phase' = "keying"
    /\ UNCHANGED <<world, session, request, decided, plugs, runs>>

(* The attempt fails, perhaps after the camera told its identity.  The next one
   is in five seconds. *)
DiscoverFails ==
    /\ phase = "discovering" /\ attached # NoBody
    /\ identity' = Told(TRUE)
    /\ \/ OnCard = {} /\ identity = NoBody /\ UNCHANGED failures
       \/ OnCard # {} /\ Fails
    /\ UNCHANGED <<world, catCache, phase, index, session, request, decided, plugs, runs>>

-----------------------------------------------------------------------------
(* Keying, and readiness.                                                  *)

(* The session of the camera takes the place of the default one, unless its
   file cannot be read. *)
Rekey ==
    /\ phase = "keying"
    /\ \/ /\ identity # NoBody
          /\ session' = identity
          /\ UNCHANGED failures
       \/ identity # NoBody /\ Fails /\ UNCHANGED session
       \/ identity = NoBody /\ UNCHANGED <<session, failures>>
    /\ phase' = "building"
    /\ UNCHANGED <<world, catCache, identity, index, request, decided, plugs, runs>>

(* newPrefetcher; finishInit, and the syncer for the session of that moment. *)
FinishInit ==
    /\ phase = "building"
    /\ phase' = "ready"
    /\ UNCHANGED <<world, catCache, identity, index, session, request, decided, bounds>>

\* Mutant of LetIn: a handler is let in as soon as there is a catalog.
LetInEarly == index # NoIndex

(* readiness: nothing but the state of the discovery is answered before. *)
LetIn == phase = "ready"

Request ==
    /\ request = "none" /\ LetIn
    /\ request' = session
    /\ UNCHANGED <<world, catCache, phase, identity, index, session, decided, bounds>>

Decide ==
    /\ request # "none"
    /\ decided' = [decided EXCEPT ![request] = @ \cup {index.of}]
    /\ request' = "none"
    /\ UNCHANGED <<world, catCache, phase, identity, index, session, bounds>>

(* onStaleHandles, POST /api/rescan *)
Rescan ==
    /\ phase = "ready"
    /\ catCache # NoIndex.entries
    /\ catCache' = NoIndex.entries
    /\ UNCHANGED <<world, app, decided, bounds>>

(* Close, or the process is killed. *)
Stop ==
    /\ phase # "off"
    /\ phase' = "off" /\ request' = "none"
    /\ UNCHANGED <<world, catCache, identity, index, session, decided, bounds>>

-----------------------------------------------------------------------------

StartupStep == Discover \/ DiscoverFails \/ Rekey \/ FinishInit \/ Decide

StartupNext ==
    \/ StartupStep
    \/ \E b \in Bodies, n \in FileNames : Shoot(b, n)
    \/ \E b \in Bodies : Rebind(b) \/ Attach(b)
    \/ Detach
    \/ Start \/ Request \/ Rescan \/ Stop

StartupSpec == StartupInit /\ [][StartupNext]_avars

(* A failed attempt is followed by another one in five seconds, the rest is
   one goroutine. *)
StartupFairSpec == StartupSpec /\ WF_avars(Discover \/ Rekey \/ FinishInit)

-----------------------------------------------------------------------------

StartupTypeOK ==
    /\ card \in [Bodies -> [FileNames -> 0..MaxPictures]]
    /\ binding \in [Bodies -> Bindings]
    /\ attached \in Bodies \cup {NoBody} /\ identity \in Bodies \cup {NoBody}
    /\ phase \in {"off", "discovering", "keying", "building", "ready"}
    /\ session \in Bodies \cup {NoBody}
    /\ request \in Bodies \cup {NoBody, "none"}
    /\ \A s \in Bodies \cup {NoBody} : decided[s] \subseteq Bodies

(* What discovery says is what is on the card: a handle reads the file it is
   listed for, whatever the camera bound anew, whatever other card was in the
   cache; and so are size and date if the camera answered the card-wide
   listing. *)
IndexTrue ==
    [][phase = "discovering" /\ phase' = "keying" =>
           \A n \in FileNames : index'.entries[n] # Unknown =>
               /\ index'.entries[n].handle = binding[attached][n]
               /\ index'.bulk => index'.entries[n].pic = card[attached][n]]_avars

(* A decision about a picture of one camera is never in the session of
   another one; decisions made before a camera could be identified are in the
   default session. *)
SessionOwn == \A b \in Bodies : decided[b] \subseteq {b}

(* A handler that has been let in works on the session that the application,
   and the syncer, have from then on. *)
NoOldSession == request # "none" /\ phase # "off" => request = session

(* A camera with pictures that stays attached is discovered in the end,
   however often that failed before. *)
AppGetsReady ==
    (phase = "discovering" /\ attached # NoBody)
        ~> (phase \in {"ready", "off"} \/ attached = NoBody \/ OnCard = {})
=============================================================================
