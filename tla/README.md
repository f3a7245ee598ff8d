# Verification of fuji-cull

fuji-cull is a culling tool for Fujifilm cameras: an engine (Go, `internal/cull`)
reads shots from a camera or a card, lets the user keep or reject them on a
desktop, an iPad or a phone, synchronises the decisions between devices through
a small relay (`cmd/fuji-sync`), and imports the keepers to disk and to an
Immich server.  This directory holds TLA+ models of its stateful parts, the TLC
configurations that check them and TLAPS proofs about them.  Paths below are
relative to the root of the repository.

    tlc -workers 2 -config MCFujiSync_merge.cfg MCFujiSync.tla
    tlapm FujiSyncProofs.tla

## 1. The system

| Component | State | Operations | Modelled in |
|---|---|---|---|
| merge authority (`internal/synccore`, `internal/cull/hlc.go`) | none (pure rules) | `Less`, `Wins`, `tickHLC` | `SyncCore` |
| sync protocol (`syncer.go`, `sessionsync.go`, `syncclient.go`) | per device: registers with server versions, pull high-water, epoch | push the outbox, ack, pull, reset for a new epoch | `FujiSync` |
| relay (`cmd/fuji-sync`) | per camera: registers with versions; epoch; `HighVersionEver`; one file | `push`, `pull`, `save`, `openStore` | `FujiSync` |
| session store (`session.go`) | registers, node clock, imported marks; snapshot file; journal file | decide, merge, snapshot, replay, migrate | `SessionJournal` |
| importer (`importer.go`) | one run and its status | start, copy in chunks, upload, mark imported | `Import` |
| upload pipeline (`internal/pipeline`) | entries, buffer slots and bytes, workers | add, hash, upload, delete, stack, validate | `Streamer` |
| camera link (`prefetch.go`) | what the worker does, the pause count, who owns the link | start and end of work, pause and drain, resume, close | `CameraLink` |
| prefetcher (`prefetch.go`) | cursor, file states, demands, the batch under way, breakers | pick, pull, promote, convert, evict, wait, ensure | `Prefetch` |
| thumbnails and orientations (`orient.go`, `thumbgen.go`) | state and strikes of each thumbnail, stores, their files | sweeps of four kinds, probe, generate, flush, reload | `Thumbs` |
| video stream (`stream.go`, `internal/mtppart`) | one open stream, chunks, the parts session | open, read, join a read, close | `VideoStream` |
| previews, bursts (`preview.go`, `sharpness.go`) | jobs per preview file; times and scores | get, encode, evict; `BurstBest` | `Previews`, `Bursts` |
| Immich presence checker (`immichcheck.go`) | answers per file, queue, its file | enqueue, look up, mark uploaded, flush | `Presence` |
| application (`run.go`, `server.go`) and discovery (`backend.go`) | the session and backend in use, catalog cache, readiness | discover, re-key the session, let handlers in, stop | `Startup` |
| desktop client's decode pool (`cmd/fuji-cull-gui/main.go`) | window, jobs of the workers, decoded frames | name the window, claim, wait, decode, bank | `DecodePool` |
| other HTTP handlers (`server.go`, `api.go`, `auth.go`) | none | requests that call the above | not modelled |
| other transports (`mtpcli`, `gphoto`, `ptp`) | device handles | fetch, read parts | inputs of the modules above |
| media formats (`exif`, `heif`, `jpegmeta`, `turbo`) | none | pure functions | not modelled |
| the rest of the GUI, apps, tools | widgets | call the engine | not modelled |

How they interact:

- A handler or the GUI calls `Session.SetDecision`; its `onDirty` callback wakes
  the syncer, which pushes what is unacknowledged and then pulls.  Session and
  syncer share the session under its lock; the syncer drops the lock while a
  request is under way, so decisions interleave with it.
- The relay runs each request under one lock and saves its file before it
  answers (an error of that save is ignored).
- The importer pauses the prefetcher, because the camera link carries one
  conversation at a time, and hands copied files to the pipeline's streamer,
  which uploads while the copy goes on; afterwards it marks shots as imported in
  the session.
- The video stream takes the link from the prefetcher in the same way; readers
  of files wait on the prefetcher's condition variable.
- A file that lands is handed on: its orientation and score are harvested, a
  thumbnail and previews are made from it, the presence checker hashes it.
- The desktop client's workers wait for files like any reader; each frame the
  client names its window anew and cancels what it no longer wants.
- Handlers are let in once discovery has found a catalog and the session has been
  exchanged for the camera's own.

Where it is hard: lost, late and repeated requests; clocks that step back or run
ahead; a process that is killed at any point of a file operation; a relay that
comes back without its file or with an old one; two owners of one camera link;
back-pressure between the copy phase and the uploads; results that arrive after
what they answer was overtaken.  `PROJECT.json` lists these hazards line by line.

What makes each component correct:

- *Merge authority*: the rule is a strict order, so merges commute.
- *Sync*: no register is replaced by one that loses to it; what counts as
  acknowledged is safe; no row is skipped; equal views when up to date; nothing
  is lost with the relay; convergence.
- *Session*: a decision that was reported as saved is found by the next start; a
  decision wins over what it replaces.
- *Importer and pipeline*: a shot is marked imported only when its files arrived;
  nothing is deleted before it is safe elsewhere; every run ends, and returns
  slots, bytes and the link.
- *Prefetcher and video*: one conversation on the link; every waiting reader is
  served or told; no read from a session whose framing is in doubt.
- *Thumbnails*: a thumbnail that is announced is whole; every photo that can be
  decoded gets one; sweeps end.
- *Previews and bursts*: no torn file; every request answered; one best per burst.
- *Presence checker*: a badge is true, and is not forgotten.
- *Start*: handles are the camera's; decisions go to the camera's own session; a
  camera that answers in the end is found in the end.
- *Decode pool*: what the user stops at is decoded; a failure rests.

## 2. The modules

### SyncCore

The clock (`HLC`), its order (`Less`), the merge rule (`Wins`, `RecordWins`) and
the node clock's tick (`Tick` is `tickHLC` without its nonce).  Device ids and
nonces are compared as strings in Go; here they are numbers that stand for their
rank, 0 being the empty string.  `Covers(a, b)` says that a has merged b.

### LWWReplicas and FujiSync

`LWWReplicas` is the abstract promise: replicas hold registers; they change by a
device's own edit, by a merge that brings in a register somebody wrote and that
wins, or by the relay losing everything and starting a new generation.

`FujiSync` is the code: for one camera, every device's `syncOnce` and the
relay's handlers.

| State | Code |
|---|---|
| `records[d]`, `sv[d]` | `sessionData.Records` and the `SV` of each record (0 is the outbox) |
| `serverVer[d]`, `epoch[d]` | `sessionData.ServerVer`, `.Epoch` |
| `call[d]` | the local variables of `syncOnce`: the request under way, or its answer |
| `stray` | pushes whose device gave up (client timeout) and that may still arrive |
| `srv`, `disk`, `copy` | the relay's `storeData`, its file, an earlier state of that file |
| `written` | history: every register ever written |

| Action | Code |
|---|---|
| `SetDecision` | `Session.SetDecision`, between any two steps of a sync |
| `StartSync` | the head of `syncOnce`: `Outbox`, `SyncMeta`, the push (or the pull, if there is nothing to push) |
| `HandlePush`, `HandleStray`, `HandlePull` | `store.push` and `store.pull`, each one transaction, save included |
| `PushReturns` | the epoch test, `ResetForEpoch` or `AckPush`, then the pull is sent |
| `PullReturns` | the epoch test, the rewind detector, `ResetForEpoch` or `ApplyRemote` |
| `GiveUp` | `client.push` or `client.pull` returns an error, or the process dies |
| `RelayRestarts` | `openStore` with what it finds |

A push meets its rows in any order (the outbox is a Go map), so `Numberings`
gives every order of versions.  An edit takes any unused stamp of its device: the
properties do not rest on how clocks behave, except where "clock" is not among
the `Faults`, which adds that a stamp sorts above the register it replaces.

### SessionJournal

One `Session` with its files and the relay reduced to the winner of what was
pushed to it.  Every method holds the session's lock, so it is one step, but it
may be cut short wherever it touches a file: `SaveLocked` ends as "saved",
"fails" (before the rename), "stays" (the journal cannot be removed) or "dies"
(killed after the rename), an append as "written", "nothing", "torn" or "dies".

| State | Code |
|---|---|
| `mem` | `Session.data` (`known` stands for the pull high-water: the rows not asked for again) |
| `serverRef`, `dirty` | the fields of `Session` |
| `snap` | the session file, of version 1 or 2 |
| `journal`, `torn` | the last readable entry of each shot; whether the file ends in half a line |
| `valid`, `stamps`, `behind`, `errors` | history |

`Load` is `loadSession` with `initV2Locked` and the replay; `Snapshot`, `Close`,
`Resave` (`SetResolvers`, `SetCameraSlug`, `MarkImported`, `ClearImported`),
`SetCursor`, `SetDecision`, `ApplyRemote`, `AckPush` and `ResetForEpoch` are the
methods of those names; `HearClock` is an answer that brings only the relay's
clock; `PushArrives` is a push whose answer is lost; `OtherPush` is another
device.

### Streamer and Import

`Streamer` is the upload pipeline of one run (`pipeline.Streamer`), `Import` the
importer that feeds it; `Import` extends `Streamer`, because the copy is the
pipeline's producer and both share the files on disk.

| State | Code |
|---|---|
| `at[f]` | where file f is between `Add` and the end of its worker; it stands for the queue's content and for the local variables of `Add`, `worker` and `handle` |
| `slots`, `outBytes` | the length of `sem`, and `outBytes` |
| `noted`, `tries` | `errs` is not empty; the attempt of the retry loop |
| `stream` | how far `Wait` is |
| `mode` | `ImportOptions`: `Staged` means upload-only |
| `pc`, `keepers`, `todo`, `pending`, `landed`, `failed`, `round`, `copyErr` | the goroutine `run` and the local variables of `copyPhase` |
| `running`, `requests` | `status.Running`; calls of `Start` that have read the keepers and wait for the lock |
| `marking`, `imported` | runs that ended well and have still to call `MarkImported`; `sessionData.Imported` |
| `disk`, `immich` | complete files in the destination and in staging; files the server reports as present |
| `accepted`, `uploaded` | history |

| Action | Code |
|---|---|
| `Ask`, `Begin` | `Importer.Start` before and under the lock |
| `Open` | `run` up to `NewStreamer`, or its failure |
| `Scan`, `StartPull`, `PullChunk`, `LandNext`, `EndRound`, `GiveUpCopy` | the two loops of `copyPhase` and its error returns |
| `TakeSlot`, `AcquireBytes`, `Enqueue` | the three waits of `Add` |
| `Hash`, `Upload`, `Release` | `handle`, `upload` and what the worker gives back |
| `Drained`, `Validate`, `Retry` | `Wait` |
| `Finish`, `MarkImported` | the end of `run`, before and after `Running` is cleared |
| `Kill` | the process is killed; files, server and marks remain |

The server may refuse a file, store one whose answer is lost, or accept one and
not have it when it is asked.  A chunk is any set `chunkEnd` could form; which of
its files arrive complete and valid is open, as is whether the prefetcher has a
file in its cache.  All runs have the same destination.  Left out: progress
figures, albums and stacks (their failures are logged and change nothing here).
The pause of the prefetcher and what an import reads from the camera are in
`VideoStream`.

`ImportedArrived` says what a mark means, `NothingDropped` what may be deleted
and when, `Balanced` that the buffer's counters are the sum of what is held, and
`RunEnds` that every run ends.  `Import` also shows two things that the code
allows and that no property forbids: a `Start` that read the keepers while
another run was ending imports the same shots once more, and so does one between
`Finish` and `MarkImported`.  And a staged copy is deleted when the server has
accepted the file, not when the run has verified it, as comments have it
(`importer.go:131-133`, `230-231`): a file that the server accepts and then does
not have ends the run with an error, its local copy gone, the camera's still
there, and is not marked.

### CameraLink and Prefetch

`CameraLink` is the one conversation with the camera and its owners; `Prefetch`
and `VideoStream` extend it, each adding its own state to the same actions.
`worker` stands for `fetching`, `thumbCancel` and the probe of `prefetch.go`,
`pause` is `pauseCount`, `closing` how far `Close` is.

| State of `Prefetch` | Code |
|---|---|
| `state[s]`, `demand`, `cursor` | the fields of `Prefetcher` |
| `reader[r]` | a goroutine inside `Wait` |
| `step`, `targets`, `pending`, `landed`, `cancelled` | the local variables of `fetchBatch`: `tmps` on disk, `finished`, the context behind `imgCancel` |
| `converting` | shots in `convertQueue` or in a converter |
| `cached` | display files in the cache directory |
| `heads`, `imageTurn` | whether the head sweep has work; whose turn it is |
| `bulkSick`, `partSick`, `empty` | the two breakers and `emptyBatches` |

| Action | Code |
|---|---|
| `StartPull` with `Picks` | the head of `Run`'s loop: `nextTarget` and the batch it gathers |
| `Pull`, `Land`, `PullEnds`, `Promote`, `SortOut` | `fetchBatch`: `imgCancel` set, files complete one by one, the transfer ends, `promote`, the loop over what is left |
| `Convert` | the converter pool; `Complete` is `completeShot` |
| `Evict` | `evictLocked` at the end of the cycle |
| `StartSweep`, `EndSweep`, `StartProbe`, `EndProbe` | the branches of `Run` for sweeps and probes |
| `Wait`, `Return`, `GiveUp`, `Ensure`, `Retry`, `SetCursor` | the methods of those names, and the three ends of `Wait` |
| `Pause`, `OwnerStep`, `CloseAll` | `PauseAndDrain`, `Resume`, `Close` |

`Picks` takes the backoff of failed shots and of the breaker as open (`ripe`,
`due`).  What the camera delivers is open too: a file, garbage, another file than
the handle promised, nothing.  `Wait` and `Ensure` differ in who waits, not in
what they ask for.  `OwedIsServed` says what a reader is promised by the code:
as long as its shot is asked for, or is a photo of the window, it is on its way to
an answer.  The comment at `prefetch.go:823-824` promises more (`Served`, "Wait
blocks until the shot's display file is cached (or failed)"): a reader whose
demand is removed by another reader that gives up waits, for a shot outside the
window, until its own deadline.  TLC finds that; no run is kept for it.

### Thumbs

The sweeps of the worker (heads, orientations, the camera's own thumbnails,
posters of videos), each of which reads without the lock (`ReadBatch`) and books
under it (`BookHeads`, `BookOrient`, `BookCamera`, `BookPosters`); the breaker of
partial reads (`Probe`, `ImageProves`, `Forgive`); the generator of `thumbgen.go`
(`GenPick`, `GenAsk`, `GenEnds`); the two flushers (`Flush`) and `newPrefetcher`
with what it finds on disk (`Restart`).  `thumb`, `stalls`, `tried` are
`thumbState`, `thumbStalls`, `healTried`; `known` and `timed` stand for
`p.orient` and `p.taken`, `task` for the local variables of a sweep, `disk` for
what outlives the process.  Distances, hence the order of a sweep, are open.

A read of any of the four kinds may come back short, which the code calls normal
(`prefetch.go:1822-1826`; `short` in `Answered`).  What becomes of it depends on the
path, and the module follows each: a thumbnail lifted out of a JPEG is wanted up to
its end marker (`Accepted`), one that the camera delivers is checked for its end
(`Delivered`), a head of a video too short for a poster is a strike.  Of a
thumbnail lifted out of a HEIF only the beginning is looked at (`orient.go:388-395`),
so half of one is banked: `disk.files[s]` is "broken", the clients are told of it and
served it, `newPrefetcher` finds it again after a restart (`prefetch.go:225-232`), and
no sweep picks the shot any more.  That is not what the comment there says ("not a
JPEG: treat as absent rather than bank garbage", `orient.go:393`).  `WholeButHEIFs`
therefore excepts HEIFs, and nothing else; without the exception TLC violates it in
four states.

`EveryThumbComes` excepts one case, in which the code does not keep it.  A photo
the camera has no thumbnail for is asked for, so that "the normal image pipeline
feeds the generator" (`thumbgen.go:43-44`).  If it lies beyond the eviction margin,
its image is removed at the end of the batch that brought it
(`prefetch.go:984-986`): the demand is cleared with the outcome and nothing else
keeps the file.  The generator looks every 400 ms (`thumbgen.go:19`), so it may miss
it, and asks again: TLC finds a behaviour without any fault that pulls the photo for
ever.  After four strikes it is given up instead (`thumbgen.go:59`).  Near the cursor
neither happens: what is buffered stays and is tried until it succeeds.

Three things the module shows and the run leaves out, so that its other
properties say something:

- `SweepsFinish` fails with a HEIF that has no embedded thumbnail
  (`orient.go:376-381`: it is not noted as tried) or no capture time
  (`orient.go:204-214`): the same sweep picks it again for ever, and later
  kinds of sweeps never start.
- `TrustReturns` fails on a card whose first photo is a HEIF, because the probe
  reads the first photo and expects a JPEG (`prefetch.go:1517`); then only an
  image pulled for the window restores the trust.
- a write of a store that fails is not repeated until something else changes.

### VideoStream

Two kinds of sessions (child processes that own the camera): the prefetcher's,
shared by sweeps, probes, an import and the heads of videos, and the stream's.
`open`, `poisoned` and `dirty` say which run, which have been marked as broken
and which have bytes in the pipe that belong to nobody; `stream`, `playing`,
`cached`, `inflight` are the fields of `p.stream`, `parts` is `p.partsSrv`.
`EnsureSame`, `EnsureClose`, `EnsureClaim`, `EnsureStart`, `EnsureStartFails`,
`EnsureResume` are `ensureStream` where it holds, and drops, `streamMu`;
`CameraAnswers` is the read without the lock, `ReadBack`, `HeadBack`,
`HeadFailed`, `JoinBack` what follows under it; `Peek`, `PeekBegins`, `PeekEnds`
are `VideoHead`; `CloseStream` is the janitor, a cursor that moved away or a
pull of the file; the worker and an import appear with what they do to the link
and to the shared session (`PartsBegin`, `PartsEnd`).

`OneClaim`, of the comment at `serve.go:22-23` (all other camera work is paused
while a session is open), does not hold: `VideoHead` looks at the pause count and
then reads (`prefetch.go:714-727`), so its session may be opened beside one of a
stream that starts in between, and a probe of the worker is not waited for.  It is
stated in the module and not among a run's properties.

### Startup

One attempt at discovery after the other (`Discover`, `DiscoverFails`) against
a camera that may be off, empty, exchanged or have bound its handles anew
(`Attach`, `Detach`, `Shoot`, `Rebind`); the catalog cache and the diff against
it (`Diffed` is `deltaFolder`); the identity asked for once per process; the
session swap (`Rekey`), readiness (`LetIn`), a handler that keeps the session it
began with (`Request`, `Decide`), `Rescan`, `Stop`.

`SessionOwn` is checked for a camera that is not exchanged while discovery still
runs (`Swaps = FALSE`): otherwise the second camera's pictures go to the first
one's session, as the identity is not asked for again (`backend.go:358`).

### Presence

The badge of what is on the server: `present`, `changed`, `saved` are
`c.present`, `c.dirty` and its file; `Take`, `Tick`, `ServerAnswers`, `Book` are
the worker, with the request in flight between the last two; `FlushTakes` and
`FlushWrites` the two halves of `flush`; `MarkUploaded` the end of an import,
`Reboot` a start with `Backfill`.

An import may upload or have uploading switched off (`importing.uploads`).
`importer.go:386-397` marks the shots of either, although the comments there
(`:387`) and at `immichcheck.go:177-178` say that the pipeline has just proved
them to be on the server.  The history variable `unsent` keeps the shots marked by an import
that sent nothing, and `BadgeHonest` says that a badge is true or was put up by such
an import; without these words TLC violates it in three states.  In the other direction an answer that was under way when a mark was set
replaces it by "not there", which is then never asked again; nothing is lost but
the badge.

### Previews and Bursts

`Previews` is one preview file and the goroutines that ask for it: `Claim` is
`LoadOrStore`, `RunOnce` and `JoinOnce` the `sync.Once`, `Decode`, `Rename` and
`Forget` the encode, its rename and the removal of the job.  `PreviewUpright`, of
the comment at `preview.go:123-124`, is stated and violated: a preview encoded
between the pull and the harvest of its orientation is cached sideways until its
frame is evicted.

`Bursts` is `BurstBest` as a function of times and scores, which come in in any
order; the property compares it with bursts as a relation between frames.  A burst
is a chain of neighbours (`sharpness.go:154-163`): of three frames taken at 1, 2 and 3,
with `burstGap` 1, one is shown, and the first has been compared with the third.  The comment
at `sharpness.go:142-143` says otherwise ("a shot is only ever compared against
frames taken within burstGap of it").  `BestOfBurst` is about the chains; it says that
frames of two chains, and frames whose time is not known, are never compared.

### DecodePool

The desktop client's decode workers: `looking`, `box`, `fullWant` stand for
`p.want`, `boxW`, `fullWant`; `job[w]` for `inflight` and the local variables of
`worker`, `waiters` for `fetchWaiting`, `done` for the decoded frames, `ready`
for the engine's buffer.  `SetWant` is `updateWants` with `Prune`; `Claim`,
`WaitReturns`, `Decode`, `Bank` are the worker; `Get` is the expiry of a failure.
`SharpEnough` (the comment at `main.go:141-142`) is stated and violated: a frame
that is being decoded when the stage grows is banked afterwards.

## 3. The runs

| Run | Checks | Shows |
|---|---|---|
| `sync_merge` | `TypeOK`, `AckedCovered`, `OnlyMerges` | late pushes, wiped relay, bad clocks: registers only move up, acknowledgements are true |
| `sync_shots` | `NothingSkipped`, `InSyncAgrees`, `NoDecisionLost` | two shots in one batch: no skipped row, equal views, nothing lost |
| `sync_live` | `Convergence` | all end up equal, for ever |
| `sync_rewind` | `Convergence`, violated | a restored copy of the relay's file is not noticed |
| `session_durable` | `TypeOK`, `DecisionsSurvive`, `HighWaterHonest`, `EditsWin` | kills and one failing operation lose nothing |
| `session_seed` | `EditsAlwaysWin`, violated | the clock is seeded before the replay |
| `session_full` | `DecisionsSurvive`, violated | half a line swallows the next decision |
| `import_run` | `TypeOK`, `Balanced`, `ImportedArrived`, `NothingDropped`, `RunEnds` | two imports with every fault: nothing leaks, marks are true, copies are safe, runs end |
| `import_flat` | `StagingFlat`, violated | refused uploads free their slots and stay in staging |
| `camera_worker`, pulling | `FetchingIsOwned`, `ReadyIsCached`, `OwedIsServed` | two readers, an owner of the link, a Close and one fault: no shot is left behind, who is owed is served |
| `camera_worker`, sweeping | `WholeButHEIFs`, `MCEveryThumbComes`, `MCSweepsFinish`, `TrustReturns` | two troubles (a short read is one) and one restart: thumbnails are on disk, whole but for those of HEIFs, and come, near the cursor always |
| `camera_worker`, decoding | `CursorDecoded` | two workers, a user who moves on, a photo that cannot be decoded |
| `engine_parts`, streams | `LinkYielded`, `NoForeignBytes`, `PausedWhileStreaming`, `NoSessionLost`, `ViewersAnswered` | two viewers of two clips, an import and the worker |
| `engine_parts`, start | `SessionOwn`, `NoOldSession`, `IndexTrue`, `AppGetsReady` | two cameras, two starts, handles bound anew |
| `engine_parts`, presence | `BadgeHonest`, `PresencePersists` | an import, with and without uploads, beside a request in flight, an outage, a restart |
| `engine_parts`, previews, bursts | `PreviewWhole`, `PreviewAnswered`, `BestOfBurst` | two requests, an eviction, a failure; five frames with all times and scores |
| `decode_failures` | `FailuresRest`, violated | a photo that failed is claimed again at once |

`MCCamera` and `MCEngine` put several modules into one run: the variable `part`
chooses at the start which of them moves, the others rest in their first state.
So every behaviour is one of a single module, and `MCTypeOK` is the conjunction of
their type invariants.

Bounds.  Two devices are enough for every conflict of the protocol, which has no
device-to-device messages: a third only repeats what the second does to the
relay.  One shot suffices where registers do not interact; `sync_shots` has two,
because versions number the rows of one batch.  `MaxWritten` (2 or 3 registers
per shot) allows a conflict and an edit over its result; `MaxEpoch = 2` one loss
of the relay; `MaxStray = 1` one late push.  Walls 1 and 2 with equal counters
make both an order and a tie that only the device id breaks.  In
`SessionJournal`, walls 1 to 3 against a relay clock of 1 and a skew of 1 reach
below, at and above the clamp; two decisions give one to lose and one to lose it
with; one failing operation at a time is the case the code is written for, two
are the run `session_full`.

`MCImport` has a photo of two files, so that a shot can arrive by half, and a video larger
than the whole byte budget, which must be admitted all the same.  Two calls of
`Start` give one run that fails or is killed and one that resumes from what it
left, and the race between them.  The buffer holds two slots and two bytes and
the queue one file (64 in the code), so that the copy waits at each of the
three; the chunk bounds (2 files, 3 bytes) split the files in more than one way;
two rounds and one retry each have a first and a last attempt.  One worker is
enough for the properties: the steps of two workers on different files commute
but for the counters, which one step changes together.

`camera_worker` has a window of three shots, of which one is beyond it, one is
converted and one is a video, batches of two, and two inputs of readers or user
with one fault: enough for a demand that cancels a batch in any of its steps and
for a second reader of the same shot.  Its sweeps have a HEIF beyond the eviction
margin, a photo that only its own image can make a thumbnail for and a video that
has none, so that each path to a thumbnail is the only one for some shot, and two
troubles, enough for the two strikes after which the camera is not asked again.  The pool
has a photo that decodes and one that does not, and room for one waiter.
`engine_parts` has two viewers and two sessions, the smallest numbers with which
one opener can disturb another and a late answer can meet a newer session; two
cameras with opposite handles, so that each handle of one is a wrong one of the
other; a queue of one, so that a shot is dropped; a burst of three, a video that
ends one, and ties of times and scores.

Fairness.  `Convergence` assumes that a device's loop starts another cycle (it
always re-arms its timer: 30 s after success, at most two minutes after a
failure) and that of infinitely many requests infinitely many are handled and
infinitely many answers arrive (strong fairness on the handlers and returns).
`GiveUp`, edits and restarts are not fair: they may stop at any time, and are
bounded or may recur for ever respectively.  A network that never answers again
does not converge, nor should it.  `RunEnds` assumes only that some goroutine of the run
proceeds while one can: calls to the server have a client timeout of 30 minutes,
pulls from the camera the deadline of `pullBudget`, everything else is local.
`Ask`, `Begin`, `MarkImported` and `Kill` need not happen.

`OwedIsServed` assumes that the worker takes each of its steps (it is woken every
two seconds; pulls and conversions have deadlines), that a pull is begun if it can
be again and again (`SF` on `StartPull`: sweeps and pauses intervene, but the code
tries pulls first), that readers that were woken run, and that an owner gives the
link back: an import ends (`RunEnds`), a stream that is not read is closed after 20
seconds.  Users, faults and `Close` owe nothing.  `MCEveryThumbComes`,
`MCSweepsFinish` and `TrustReturns` assume the worker's and the generator's
tickers, that backoffs elapse, and that the prefetcher pulls what the generator
asked for (`OwedIsServed`); that the window buffers any photo is not assumed, nor
that the generator looks before a far photo is evicted.
`ViewersAnswered` assumes that some viewer proceeds while one can and that the
worker's reads end: those of the shared session have a timeout, and a read of a
stream that hangs is ended by the janitor, who closes its session.
`AppGetsReady` assumes only that discovery is tried again, as it is every five
seconds; `PresencePersists` the ticker of the presence worker; `PreviewAnswered`
that decoders end and the frame somebody waits for is pulled; `CursorDecoded`
that workers run and the engine serves who waits.

Where the code differs from its comments (`PROJECT.json`, "findings"):

1. The generation guard compares two numbers of the same file, so a relay started
   from a backup is never noticed, by neither of the two detectors.
2. The node clock is seeded before the journal is replayed.
3. A torn journal line that no snapshot retired swallows the next one.
4. The slot of a staged file is freed even if its upload was refused, so staging
   is bounded only as long as the server takes what it is sent.
5. A worker of the desktop client cancels its own context before it asks whether
   that was cancelled, so a failed decode is never remembered and is repeated at
   once, for ever.

Smaller ones, described with their modules above: `Served`, `OneClaim`,
`WholeButHEIFs` (broken thumbnails of HEIFs), `BadgeHonest` (badges of imports that
do not upload), `BestOfBurst` (comparison along chains), `SessionOwn` with exchanged cameras,
`SweepsFinish` and `TrustReturns` on certain cards, `EveryThumbComes` far from the
cursor, `PreviewUpright`, `SharpEnough`.

## 4. What is proved

All theorems hold for every value of the constants that the assumptions of the
modules allow, unless an assumption is named here.

*SyncCoreProofs*: `Less` is a strict total order; winning is asymmetric and
transitive; a register that does not win has been merged by the one it lost to.

*FujiSyncProofs*.  `TypeCorrect` and `DecisionsOutliveTheRelay` (every decision
is held or superseded on some device, if stamps sort above what they replace)
hold with every fault of the relay and of the network: devices only ever
replace a register by a winner, so the set of what they cover grows.

The other theorems assume that no file of the relay is restored, that no save of
it fails and that it does not vanish between a device's first push and first
pull (`Faults` within {"wipe", "clock"}); `sync_rewind` shows that the first
assumption is needed.  They rest on one inductive invariant, `SyncInv`:

- `OnlyWritten`: every register anywhere was written, and one stamp has one register;
- `StoreNumbered`: the relay's versions are distinct and at most its version;
- `NotAhead`: no device's high-water is above the relay's version in its epoch;
- `Answers`: an answer under way is no newer than the store: what it carries the
  store still covers, and a pull's rows are all that were above `since`;
- `AckedCovered` and `NothingSkipped`.

The last two are not inductive alone: an acknowledgement is true when it
arrives only because the store cannot have moved below the answer since
(`Answers`), and a pull skips nothing only because versions do not repeat
(`StoreNumbered`).  From the invariant follow `AcksAreSafe`, `PullsSkipNothing`,
`UpToDateMeansEqual` and `SyncOnlyMerges`, the refinement of `LWWReplicas`.

*SessionJournalProofs*.  `SessionTypes` holds with every fault.
`SessionDurable` assumes `MayAppend`: removing the journal never fails, and an
append and the save that makes up for it do not both fail.  Its invariant adds to
`DecisionsSurvive` that a running session's memory holds what is valid (or a save
would write something else) and that its journal ends in a whole line (or an
append would not be readable).  `SessionEditsWin` needs no assumption: its
invariant `NodeCovers` says that a node clock that is not behind is not before
any register, which the seed establishes and ticks and merges keep.

`SessionHighWater` holds with every crash and every failing operation.  Its
invariant `HighWater` says of the memory and of the session file alike that a
row which will not be asked for again is on the relay or was replaced there
(`Honest`), so that the relay's answer to a push cannot be older than it; and that
no two registers of a shot have the same stamp, wherever they are kept
(`Origins`, `OneStamp`): otherwise a row that ties with what the device holds would
count as merged.  That rests on `RemoteAssumption`: the registers other devices
may push are listed per shot (`Remotes[k]`), bear their own devices' ids, and one
stamp stands for one register.

*ImportProofs*.  `MarkedHasArrived` and `CopiesAreKept` hold with every fault, for
any catalog, limits and number of runs.  The invariant `Inv` adds to
`ImportedArrived`:

- `Phases`: the importer's place and the Streamer's state go together, and no file
  is inside `Add` or a worker once validation has begun;
- `Tracked`: as long as the copy has not failed, every keeper is still to be
  looked at, pending, landed, to be retried, or handed on;
- `Local`: what was handed on is in the destination, if copies are kept;
- `Verified`: a Streamer that ended well found every entry on the server;
- `WholeShots`: a run carries all files of its shots;
- `MarksTrue`: what is about to be marked has arrived.

A run that succeeded was not cut short, so by `Tracked` all keepers were handed
on, so by `Verified` or `Local` they arrived; as `WholeShots` makes keepers whole
shots, the mark is true, and it stays true because nothing leaves the server or
the destination while the mark waits.

`BufferBalanced` is about the other half of the state.  `Ledger` says that `slots`
counts the files that hold a slot and `outBytes` is the sum of the sizes of those
that hold bytes, and that without some one of them the budget is not used up.
`Apart` says that a file the copy still has on one of its lists is on one only and
not with the Streamer, so that it is handed on once; `OneProducer`, that one file at
most is inside `Add`.  From these follow `ImportTypes` and `NeverStuck`: in a run under way the copy can go on, or
a worker can, or the slot, the bytes or the place in the queue that `Add` waits for is
there.  `RunEnds` rests on that, besides fairness.  `CopyCanGoOn` and `FileCanGoOn`
state the guards of the steps, because `ENABLED` is out of the prover's reach.

*CameraLinkProofs*.  `LinkSpec` is the link alone: any owners that pause, drain and
resume, and a worker.  `LinkIsKept` says what it promises.  That a
drained link is silent (`LinkYielded`) is not inductive: work may be started only
while the pause count is zero, and the count says that nobody has the link only
because it is the number of owners that paused and have not resumed
(`PausesCounted`).  `PrefetchUsesLink` and `StreamsUseLink` show that the prefetcher
and the streams each implement `LinkSpec`: every one of their steps is, on the
link's variables, a step of `CameraLink` or none.  So the link's promise
holds of both and need not be proved of either again.

*PrefetchProofs*.  `Inv` joins to the invariant of the link `BatchPhases` (where
the worker is, how far its batch is and which files are still to be sorted out go
together), `FetchingIsOwned` and `ReadyIsCached`.  A file that is fetched is in
the batch or with the converter, never with both: a step that puts a shot into
one of them must take it from the other, which each `...Keeps` lemma shows of one
handler.  From `Inv` follow `NoShotStranded`, `ReadyHasFile`, `PrefetchTypes` and
`PrefetchYieldsLink`, for every card, window, batch size and number of readers.

Two more theorems are about waiting.  `ReadersComeFirst` is the order the picks
promise: if a shot is asked for that nobody fetches, the worker's next piece of work
is a batch with the asked shot nearest to the cursor, not a sweep, a probe or the
window.  It needs `AskedFor` (a demand stands only for a shot that is fetched or can be: the outcome
clears it, and asking for a failed shot forgets the failure).  `ReadersAreServed` is the
safety half of `OwedIsServed`: until `Close`, a reader who is owed a shot has it
ready, failed, with the converter, in a batch that goes on, or among what the
worker picks next whatever its breaker and backoffs say (`OnItsWay`); and somebody
has a step that brings the worker on: it, the camera, or the owner who paused it
(`WorkerGoesOn`).  So no cancellation, pause or lost wake-up forgets a reader.

`ThumbsAreWholeButHEIFs`: only the thumbnail of a HEIF may be a broken file
(`Servable`), and what a sweep has banked is there before it is booked (`ThumbsInv`), so a
kill between the two loses a mark, not a file.
`NearPhotosAreTried` is the safety half of `EveryThumbComes`: a photo near the cursor
that has no thumbnail is on the list of the camera's sweep or of the generator.  The
point is the cap of four strikes, which TLC reaches for such photos too.
`NearStrikes` says that the camera alone gives no more than two, so whoever has more was struck by
the generator, which had its image; and near the cursor the image is kept, so the
generator finds it again.  `ThumbsTyped` are the types, the bound of the strikes among
them.

The same module proves the decode pool, the desktop's reader of the prefetcher.  Its
invariant `PoolInv` says that a photo has one worker (`OneWorkerEach`) and that
`fetchWaiting` counts exactly who waits for the camera, and that a worker which has
not been told to give up waits only for the photo under the cursor (`CameraWaits`).
`PoolTyped` and `OnlyCursorWaits` follow: no place among the waiters is ever lost to a
photo the user has left.  `CursorNeverStarved` is the safety half of `CursorDecoded`:
the waiters are never more than their slots (`SlotsKept`); so the photo under the cursor
is in work, or the next to be claimed, or kept back only by a worker that has been
told to give up; and as long as it is not decoded some step leads on (`PoolGoesOn`).
`PoolAssumption` has the set of workers finite, as the client starts a fixed number.

*VideoStreamProofs*.  `Inv` adds to the invariant of the link `SessionsKept` (the
running processes are the stream's and the shared one, two different ones),
`Opening` (how far the holder of the opener's lock is says what the link has been
told) and `Framed` (a session with bytes left in its pipe has been marked, so it
is not read again).  From it follow `StreamTyped`, `BytesAreOwn`,
`PauseMatchesStream`, `SessionsAreHeld` and `StreamsHaveLink`, for any number of
clips, chunks, viewers and sessions.  `StreamAssumption` says that the name for
"nobody" is not that of a viewer or a clip.

`ChunksReadOnce` says that the chunks marked as being read on a session are those
some viewer reads there, and that no two read the same.  It is inductive together
with `ReadersOpened` (who reads does so on a session that has been started: a new
stream finds no old mark).  Every step of a viewer ends its read, begins one, or
both, and moves the mark along (`FlightOf`).  `NoCircleOfViewers` follows from that
and `Opening`: the holder of `streamMu` waits for the worker alone, a reader for
`streamMu` alone, and a joiner for a reader who exists; so while one viewer
waits, another need not, or the worker is in a sweep.  That is the safety half of
`ViewersAnswered`.  `CanGoOn` states the guards of the steps, place by place.

*EngineProofs* has the smaller parts, each with an invariant of its own:

- `BadgesAreTrue` holds for imports that upload and imports that do not: the latter are
  in `unsent`, which the property names.  `AllTrue` extends the claim from what is
  known to all it comes from: the copy that is written to disk, the answer that is still
  to be booked, an import under way.
- `PreviewsAreWhole`: the job of a path is the only one that is not over
  (`JobsOver`), so one goroutine encodes, and it alone writes aside
  (`OneEncoder`).
- `SessionsAreOwn` assumes that the camera is not exchanged during discovery
  (`~Swaps`); the body that is attached, the identity, the body of the index and
  the session then agree as far as they are known (`OneCamera`).
  `NoHandlerOnOldSession` and `IndexIsTrue` need no assumption.
- `MarksReachTheDisk` is the safety half of `PresencePersists`: what memory knows and
  the file does not is marked as changed, or is what is just being written, or its write
  has failed.  The step to beware of is a mark that is set while the file is being
  written: the flag is taken with the snapshot, so it is set anew (`OnItsWayToDisk`).
- `RequestsHaveEncoder` is the safety half of `PreviewAnswered`: who waits in the
  `sync.Once` of a job waits for a goroutine that encodes (`SomebodyEncodes`), though
  the preview and the job may have been removed since.
- `BestAreOfBurst`, for any catalog.  `BurstBest` walks the frames to the end of a
  run by a recursive function; the proof first shows that this function
  gives the next break (`ReachesEnd`), by the smallest frame at which it would not.
  Then runs are what lies between two breaks, two runs are disjoint or the same, and
  the winner of a run is compared with all its measured frames.
- `PresenceTypes`, `PreviewsTyped`, `StartupTyped`: the types.  The bound of the
  presence queue is among them.

The composed instances.  `CameraTyped` and `EngineTyped` prove the invariants
`MCTypeOK` of `MCCamera` and `MCEngine`, for every value of their constants.  A step of
the instance is, on the variables of each part, a step of that part or none
(`PullPart`, `SweepPart`, `DecodePart`; `StreamPart`, `StartPart`, `PresencePart`,
`PreviewPart`, `BurstPart`), so the instance implements the specification of each, and
the theorems about the parts, of types and all others, hold of it.

Induction.  The library's induction theorems take a predicate as a parameter, which
the provers used here cannot instantiate.  Two proofs need induction over data, the
sum in `Balanced` (`MapThenSumSet`) and the walk of `BurstBest`; they take
the smallest counterexample instead (`WFMin` of `WellFoundedInduction`, over the sizes
of the sets and the numbers of the frames).

Only model-checked: what is about liveness, as fairness and `ENABLED` are out of the
prover's reach (`Convergence`, `RunEnds`, `OwedIsServed`, `ViewersAnswered`,
`AppGetsReady`, `PresencePersists`, `PreviewAnswered`, `MCEveryThumbComes`,
`MCSweepsFinish`, `TrustReturns`, `CursorDecoded`).  Of `RunEnds`, `OwedIsServed`,
`ViewersAnswered`, `PresencePersists`, `PreviewAnswered`, `CursorDecoded` and
`EveryThumbComes` the safety half is proved: that no state is reached in which who waits has nobody to wait for.
That of `Convergence` are `AcksAreSafe`, `PullsSkipNothing` and `UpToDateMeansEqual`: what a
device counts as done is done, and two devices without anything left to do are equal.
Every safety invariant and action property of a passing run is proved of its module.

## 5. Not modelled

Of the modelled components: resume points (nothing pushes one), the contested
flag (nothing reads it), the API key, several cameras on one relay; power cuts
(nothing is fsynced); the projection of registers onto backend-local shot ids; how
the bytes of a batch are pulled; readahead of a stream; the catalog's order and the
pairing of RAW with JPEG; the pipeline's `Run`, `Finalize` and `Hash`, which go
through a finished list.  The relay's file is written aside and renamed, so it is
either the old or the new one.

Whole components: import defaults (one small file), canonical keys and media
formats (parsing of strings and bytes), the players' bindings, the mobile bridge and
apps, the command line tools, and of the desktop client all but its decode pool:
they hold no state over which two actors meet, or draw.  Each client sends a decision
by a goroutine of its own (`main.go:1746`), so two within moments may arrive in
either order; the engine's side of that is `SetDecision` of `SessionJournal`.

## 6. Plan

Models: `pipeline.Run` for the command line tool; the transport of the iPad,
whose answers come by callbacks; resume points, should the syncer push them.
