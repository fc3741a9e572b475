# ourealis: specifications, model checks and proofs

ourealis simulates runners on maps: a Rust core (`crates/core`) plans a route on a mixed graph,
smooths it, and turns it into motion and sensor samples; a map-image crate (`crates/map-format`)
stores terrain; `crates/geo-import` fills it from geographic data; a service (`crates/service`) runs
simulations as tasks behind REST, SSE, WebSocket and gRPC; a web client (`web`) drives the service.
This directory holds TLA+ specifications of the parts whose correctness depends on *order* - of
steps, of messages, of updates to shared state - or on an algorithm's case analysis, together with
the TLC configurations that check them and TLAPS proofs about them.

Paths below are relative to `src/`. Every definition that models code is listed with its file and
lines in `PROJECT.json` under `map`; `runs`, `mutants`, `hazards`, `findings` and `theorems` are
there too. Definitions named `Bug_...` are mutated forms that show that a property notices a
mistake; no specification uses them.

## Inventory

What the system consists of, and what makes each part right. *Model* names the module, or says why
there is none.

### Service: tasks

| Component | State | Operations | What is hard, and what must hold | Model |
|---|---|---|---|---|
| Registry and runner, `service/src/task/{mod,queue}.rs` | table of tasks in admission order; per task a state, a cancel flag, a payload, an outcome; a FIFO semaphore | `try_admit`, `prune`, `prune_results`, `execute`, `mark_*`, `cancel` | one spawned worker per task, many clients: capacity and retention under every interleaving, no permit lost, an unfinished task always resolves, an early cancellation sticks, everything admitted ends | `TaskService`, `TaskLifecycle` |
| Task record, `task/mod.rs` | seven fields, each an atomic or behind its own lock | `commit`, `observe`, `mark_*` against `to_dto`, `result_dto`, `finished` | a reader collects fields between the worker's stores: what it reports must be one moment's truth as far as is promised | `TaskRecord` |
| Event streams, `task/events.rs`, `facade/{sse,ws,rpc}.rs` | a bounded broadcast channel; per stream a subscription and a filter | publish; subscribe, snapshot, follow, lag, end | a stream may start or fall behind at any moment around the end: exactly one terminal frame, the client ends up current, every stream ends | `TaskWatch` |
| Sample socket, `facade/ws.rs`, `web/src/api/ws.ts` | a session with an outgoing queue of 64; a client with pending fetches, a retry budget | fetch, subscribe; open, receive, reconnect, close | replies in frames on one shared, breakable connection: a resolved fetch has its slice, nothing has a hole, a closed session owes nothing | `SampleSocket` |
| Task and map API at both doors, `api/{tasks,simulations,maps,page}.rs`, `facade/{http,rpc}.rs`, `error.rs` | a call in progress: what it has found | list, state, cancel, result, slices, exports; lookups, removals, edits | a task that was found may end, lose its outcome or fall out of the table before the next check: the answer must be true of some moment and never go back; both doors must answer alike; paging over a list that moves | `ServiceAnswers` |
| Requests, `api/dto/simulation.rs`, `web/src/components/forms`, `stores/workspace.ts` | a draft; a submission | edit, send, read, refuse, resolve, configure | the checks exist twice and the body is read twice, the library changes between: what runs must be what was shown | `Requests` |
| Service lifecycle and configuration | start and stop | shutdown with a grace period | nothing of a task is persisted, so there is no recovery | none: no protocol |

The parts meet in the registry: a submission from any facade is admitted there and a worker spawned;
the worker stores into the record and publishes to the channel; pollers read the record; streams
read both, which is where the races are. Results leave through the record (`result_dto`) and the
socket, and are taken away by the admission of *another* task.

### Service: maps

| Component | State | Operations | What is hard, and what must hold | Model |
|---|---|---|---|---|
| Map library, `store/{mod,disk,memory}.rs` | a directory of image files with a cache of entries; a map in memory | insert, load, remove, list, start | write and entry are two steps and the process may end between them; a removed map stays removed, a map is listed once, nothing acknowledged is lost | `MapLibrary` |
| Environment cache, `core/src/sim/environment_cache.rs` | a list, most recently used first, with two bounds | get, load, insert | two misses together load twice; both bounds hold whatever the order | `EnvironmentCache`, composed in `MapLibrary` |
| Image editing, `api/omf.rs`, `web/src/stores/omf.ts`, the inspector and the studio | the client's store: image, structure, edited image; drawings | inspect, draw, edit, patch, use a map's image | two panels share one store and answers come late; references shift when regions are merged: an edit means what was asked, of the image on show | `ImageEdits` |
| Feasibility, `api/feasibility.rs` | none | check points | it reads the map itself, not what the planner loaded | `Clearance` |

### Map image format

| Component | State | Operations | What is hard, and what must hold | Model |
|---|---|---|---|---|
| Builder, writer, patch, reader of `crates/map-format` | an image: header, directory, meta block, skeleton, chunks; a reader's chunk cache | build, patch, apply, open, read | an edit moves blocks and hashes of other layers; a reader must not hand out what no longer follows from its sources | `MapImage` |
| Records, `bytes.rs`, `tlv`, `region.rs`, `graph`, the codec of `patch.rs` | the meta block, the layers and the library of paths a writer fills; bytes | set, push, write, finish, encode, decode, patch | prefixes that cannot count what they are given, records cut short, records of another producer: an image says what was last said | `MapRecords` |
| Partition of the ground, `builder.rs`, `quadtree.rs` | the skeleton's leaves | build | leaves are read against a mask that may be newer | `MixedGraph` |

### Core

| Component | State | Operations | What is hard, and what must hold | Model |
|---|---|---|---|---|
| Mixed graph, `core/src/graph` | blocks, roadmap, links over a mask | build, neighbours, attach, snap | three kinds of nodes are stitched together; every edge must be passable ground and no cell may be lost | `MixedGraph` |
| Lazy Theta* search, `core/src/search/theta.rs` | prices, parent links, heap, closed set | pop, repair, relax, truncate, walk back | closed nodes are hung elsewhere, repairs raise prices, steps may be free: the links stay a tree, the route is walkable, NoPath is true | `ThetaStar` |
| Route planning and smoothing, `core/src/plan`, `core/src/smooth` | the route between passes | merge, relax, project, cap, shorten, resample, unfold, round, fall back | a pass may undo what an earlier one guaranteed: joints kept in order, what is run is on passable ground | `RoutePlan` |
| Walk, `core/src/motion` | arc, clock, next stop, turns due | build stops and profile, step, hold, turn, end | stops lie on a grid whose last interval is short; every hold once and in its place | `MotionWalk` |
| Placement, `core/src/motion/{offset,mod}.rs` | a sideways offset per sample | draw, turn, bound, cap, freeze | five passes, each of which may undo what the one before it settled: no sample on an obstacle, no jump | `Placement` |
| Environment, `core/src/{environment,field/hard,terrain/edt,smooth/project}.rs`, `gpu/mod.rs` | mask and distance of a map, loaded once | load, snap, project, flag | files lack chunks or hold an old distance layer; the loop over rings stops early: distances exact, snapped to the nearest, and every reader judges a point alike | `Clearance`, on `Plane` |
| Runs with checkpoints, `core/src/sim/mod.rs`, `plan/dynamic.rs` | a recording and the checkpoints left | look up, plan, walk, blend, append | checkpoints between samples, after the end, without a way: what was recorded is kept, the latest redirect rules | `DynamicRun` |
| Candidate enumeration and choice, loop mode | penalties | repeated searches | floating-point penalties decide which routes come out | none yet, see the plan |
| Fields, noise, sensors, evaluation, terrain, persons, GPU kernels | numeric | - | tolerances and distributions | none: real-valued |

### Web client

| Component | State | What is hard, and what must hold | Model |
|---|---|---|---|
| Sample socket's client, `web/src/api/ws.ts` | pending fetches, retries | see above | `SampleSocket` |
| Task tray, `web/src/stores/tasks.ts` | at most twenty entries, one modal, polls in flight | several waits share the modal; two pollers see an end in any order, and it is announced | `TaskTray` |
| Planning, `web/src/stores/workspace.ts` | a draft, two timers, a generation, the plan on screen and its keys | answers come after edits, cancellations and resets: nothing withdrawn is drawn, a plan that is kept is the one on screen | `PlanWorkspace` |
| Result pages, `web/src/stores/simulations.ts` and the panels of a run | a cache of pages for the selected run; walks in flight | the selection moves under a walk: a panel ends with all of its run and nothing else | `RunPages` |
| Batch panel, `web/src/components/run/BatchPanel.vue`, `api/sse.ts` | rows, open streams, cancellations in flight | a sweep replaces the rows of the one before; every row is followed and says what became of its run | `BatchSweep` |
| Draft and forms; images | see Requests and Image editing above | | `Requests`, `ImageEdits` |
| Job table, current run and its stream, `simulations.ts`; viewer | what the page shows | an answer for a run no longer shown | none yet, see the plan |
| Geographic import, embedded page, presets, rendering | none | - | none: batch conversion, constant data, drawing |

`PROJECT.json` lists every component with its sources and status.

## Modules

    modules                                                     proofs               checked in
    TaskLifecycle <--refined by-- TaskService                   TaskServiceProofs    MCTaskService
    TaskRecord, ServiceAnswers                                  TaskRecordProofs     MCServiceAPI
    TaskWatch                                                   TaskWatchProofs      MCTaskWatch
    EnvironmentCache <-- MapLibrary                             MapLibraryProofs     MCMapLibrary
    MapImage, ImageEdits                                        MapProofs            MCMapImage
    MapRecords                                                                       MCMapImage
    Plane <-- Clearance                                         MapProofs            MCGround (MCMixedGraph)
    Plane <-- MixedGraph                                                             MCGround (MCMixedGraph)
    ThetaStar, RoutePlan, Requests                              PlanningProofs       MCPlanning (MCThetaStar,
                                                                                       MCRoutePlan, MCRequests)
    MotionWalk, Placement, DynamicRun                           MotionProofs         MCMotion (MCDynamicRun)
    PlanWorkspace, TaskTray, RunPages, BatchSweep, SampleSocket WebClientProofs      MCWebClient
    TaskTray --INSTANCE--> TaskLifecycle

The `MC` modules give the modules their small sets for TLC. Where one composes several modules, these share no
state: a behaviour exercises one of them, chosen at the start (`focus`) while the others stay where they begin, so
that the states are the sum of theirs and not the product, and nothing is lost by it.

The task modules look at the same code at different grains, each as fine as its question needs: `TaskService` has
many tasks and treats `mark_*` as one or two steps; `TaskRecord` has one task and every single store; `TaskWatch`
has one task whose fields are one rank that grows, and the channel; `ServiceAnswers` has a table of tasks that
change between two checks of a call. The core modules follow one request: it is filled in and understood
(`Requests`), the image is partitioned, loaded and turned into a graph (`MapImage`, `Clearance`, `MixedGraph`), a leg
is searched (`ThetaStar`), legs are joined and smoothed (`RoutePlan`), the route is walked (`MotionWalk`), the
runner is put beside it (`Placement`), and a run may be redirected while it lasts (`DynamicRun`).

### TaskLifecycle

What a client may rely on: a ticket is queued, perhaps runs, and ends in one way; at most
`MaxConcurrent` run; an unfinished ticket resolves; a result is ready or gone, and never comes back. A cancellation
comes in two steps: it is asked for while the ticket is live (`Ask`) and accepted a moment later (`Accept`), when the ticket
may have ended; only a ticket with an accepted one, and that has not started, is cancelled.

### TaskService

`pc[t]` is the place of task t's worker in `TaskRunner::execute`:

    spawned -> waiting -> holding -> starting -> body -> succeeding -> publishing -> releasing -> done
                             |                     |
                             v                     +---> failing -> releasing -> done
                         cancelling -> done

- `Admit`/`Reject` are `admit` and `try_admit`, one step because one write lock covers the count, the
  push, `prune_results` and `prune`. The table is a set with the admission number of each task:
  only the end is pushed, and `retain` keeps the order.
- `AskPermit` may find a permit or queue up; `DropPermit` hands a permit to the oldest waiter, as
  tokio's fair semaphore does. The executor starts spawned workers in any order.
- `CheckCancel` is the only read of the flag. `MarkCancelled` follows the release of the permit.
- `StoreOutcome` and `CommitSucceeded` are two steps: an admission may prune in between.
- `FinishBody` is the blocking body with its three outcomes: a result, an error, a panic.
- `CancelReads` and `CancelStores` are the request from any facade: `cancel()` reads the state and then stores the flag with no
  lock over the two, and the worker may commit its end in between. `askedAt` remembers where the worker was at the store (history).

`KeepTasks` is `max(64, 8 * keep_results)` in the code and a constant of its own here, so that the
runs can make it small; nothing is assumed of it but that it is positive.

### TaskRecord

The worker's transition is the list `todo` of the stores it still has to make, in the order of the
code; a reader is the list of fields it reads (`to_dto`, `result_dto`). One store or one read is one
step. Atomics are relaxed in the code; stores are taken to become visible in program order, as on
x86-64 builds. On a machine that reorders stores the guarantees proved here would need release
stores.

### TaskWatch

The worker stores, then publishes. A pump (SSE, WebSocket or gRPC) subscribes, sends a snapshot, checks
for the end, and follows the channel; `Backlog` events behind it is moved to the oldest event left and
starts again with a snapshot. The three transports differ in the guards: the SSE snapshot reads the
state to choose a frame and again to fill it; SSE sends an outcome after the check only when it lagged.
A WebSocket may change its filter, and its answer may be dropped. Logs and stages are bounded by
`MaxLogs` and `MaxStages`.

### SampleSocket

Both ends of the WebSocket: `Handle`, `Drain` and `Pump` are the session of `facade/ws.rs` (one task
handles *and* drains; the pump is another), `Open`, `Receive`, `Reconnect`, `Reopen`, `Close` and
`Request` are `JobSocket`. `Break` cuts a connection anywhere. The streams of a connection are ordered
and have no bound of their own. Left out: pings and cancels (answered like a subscription or a
refusal), the walk of `fetchAll` over successive fetches, delays of the backoff. `http.max_page_size`
and the client's `MAX_PAGE_LIMIT` have the same value in the runs; a smaller setting on the server
would let a fetch wait for frames that never come.

### PlanWorkspace

The planning half of the workspace store. A draft is a route (one of a few, incomplete, or without a map) and a
smoothing setting; `SetDraft`, `LibraryChanges`, `Grab`, `Drag` and `Release` edit it, `CheckFires` and
`ProfileFires` are its two timers, `PressPlan`, `PressAgain`, `PressWithoutMap`, `CancelPlan` and `Reset` its buttons,
and `Answer` is any request in flight that is answered or fails, in any order. The branch of `planNow` for a form
with an issue is left out: the button is not offered then.

### TaskTray

`run()` with its submission, polls and fetch (`Run`, `Submitted`, `Read`, `Polled`, `Fetched` and the failures), a
cancellation with its refresh (`Cancel`, `CancelFound`, `CancelAccepted`, `RefreshRead`, `Refreshed`), `ClearFinished`;
`CancelledElsewhere` is another client. `Loader` is the store's computed `blocking`, which dims the page: the ticket of the modal
as long as the tray has an entry for it that has not ended. An answer
is read from the service at one step and arrives at a later one. The service is not a stub: it is
`TaskLifecycle`, which `TaskService` is shown to implement, so it may start, end and forget tickets in every way that
specification allows. `sync()`, which no page calls, is left out.

### RunPages

`Mount` puts a panel in the place of the one before and selects its run, `Jump` moves the selection under a panel
that stays, `Begin`, `PageAnswered` and `PageFails` are the walk of `loadAllTruth`. A walk belongs to the run it was
begun for; the cache, its total and the status belong to the store.

### BatchSweep

`Start`, `Previewed`, `Accepted` and `RowNotSubmitted` submit a sweep, `StateEvent`, `LastEvent` and `StreamGivesUp` are its
streams, `CancelAll`, `CancelArrives`, `CancelReplied`, `CancelMisses` and `CancelDone` the loop of `cancelAll()`, which may
outlive its sweep: the service takes a cancellation at one step, its reply marks the row at a later one or is lost. `Leave` unmounts
the panel, `JobEnds` is the service, `AskedElsewhere` another client. The end of a cancelled run is published as an error, and
an error makes its row a failed one (`Endings`); a row says "cancelled" when its reply marked it, or a stream was opened late. The summaries that `collect()` fetches and the previews' contents are left out.

### ServiceAnswers

A handler is a sequence of checks, in the order of the code: what axum or A handler is a sequence of checks, in the order of the code: what axum or tonic extracts, the lookups, `finished`,
`result_dto`; a cancellation reads the state in one check and stores its flag in the next (`CancelTask`). The first that fails ends the call with its kind, which is a status at one door and a code at the
other. `BeginCall` begins one; `Pass`, `Refuse` and `Accept` are its next check against the state of that moment. `Work` is
a task that starts, ends or fails, `Arrive` a submission by somebody else, which evicts results and pushes old entries
out, `WriteFile` the map's file written anew: they happen between the checks. What a call has found it keeps, as the code
keeps an `Arc`. One map is in view, whose file may lack, be cached, or be flawed; and one client pages through a list by
the offset of what it was given (`OpenSweep`, `NextPage`). History: the latest stage that readers of a ticket were told (`reached`).

### Requests

The draft of the workspace with its three modes of a route, overrides, sensors and recipes; the body it sends
(`BuildSimulationRequest`), with what is filtered out of it; `Parses`, `Resolves`, `ValidateRequest` of the
service; the configuration a worker builds (`Lands`, `SettingsApply`, `AlignRates`). `Submit` is the page, `Post`
another client, `ShelfMoves` the library and `RunTask` the worker that reads the body again. Numbers are hundredths, and
the widths of integers are the bounds `U32` and `U64`.

### ThetaStar

One search of `plan_with_penalty`. A *job* - graph, lines of sight, costs, penalties, corridor, budget -
is chosen at the start and stays. `PopGoal`, `PopStale`, `Truncate` and `Expand` are the turns of the
main loop; `Climb` and `Finish` the walk back. `Expand` is the lazy repair (`Footholds`), then the update
rule (`Offer`, `Improved`). A neighbour's update reads only the prices of the expanded node and of its
parent; no update of the same expansion touches those (lemma `FootingStays`), so the updates are written
at once. Ties in the heap are broken in every way. Costs are whole numbers, and prices far below
`PRUNE_THRESHOLD`. Snapping the ends to the graph and pricing the finished polyline are geometry.

### MapImage

An image is a sequence of blocks addressed by position and sealed by a hash. `Build` is `MapBuilder` with
`MapWriter`, `MakePatch` and `ApplyPatch` are `patch.rs`, `OpenMap` and `ReadChunk` a reader with its chunk
cache, `Damage` a block that goes bad at rest. Derived layers carry a fingerprint of their sources; the
reader refuses one whose sources hash differently now. Chunk contents are model values; a hash is what
it covers.

### MapRecords

What `MapImage` takes as data, byte by byte. What is written is a form: a field, or fields in the order the code
names them, with the prefixes and checks of the code; `Wire` writes a value of a form and `ReadAs` reads one, refusing what
is cut short. On forms rest the fourteen metadata records (`Schema`), the layers of sections with their readers (regions,
vectors, the roadmap with `BuildOffsets`, the library of paths with its sorted index) and the patch file. `SetMeta`,
`SetMetaRaw`, `PushExtMeta`, `SetLayer`, `AddPaths`, `WriteSection` and `Finish` are the calls of a writer, whose records
freeze at the first chunk; `PreparePatch` and `ApplyPatchFile` a patch, applied as it is or from the file it was saved as. A byte has
`Byte` values; numbers stand for the bits of integers and floats, the magic is one number, and a character has one byte or two. Left
out are compression, the place of things in a file, which floats are finite, the chunks of rasters with what they share, and
fingerprints, which `MapImage` has.

### ImageEdits

The service's half is what a script does to an image: connectors and features inserted or replaced by their key,
references into the outlines shifted or refused past `MaxRef`, records last. The client's half is the store the
inspector and the studio share: `Inspect`, `UseLibraryImage`, `ApplyEdit`, `ChoosePatch` and `Export` ask, `Answer` is any
request in flight answered or failed, in any order; `PickMap`, `Draw`, `Erase` and `Reset` are the drawing board.
Merging a feature of a tag that the map stores more than once replaces the first and leaves the others
(omf.rs:513-520), and so does `Upserted`.

### EnvironmentCache and MapLibrary

`EnvironmentCache` is what the critical sections of the cache do to its list: find, move to the front,
insert, evict by slots and by bytes. `MapLibrary` interleaves imports, lookups, removals, listings,
planning tasks and restarts over the disk store (each touch of the directory or of the entries is a
step) or the memory store (one step per operation), with failed writes and files another process put
there. A planning task looks its map up again when it runs and loads through the cache.

### MixedGraph

`WriteMap` partitions the ground, `PatchMask` changes the mask under the skeleton, `BuildGraph` makes the
blocks, the roadmap and the attachments of links, `Snap` attaches a start, and every `Expand` is a search
that asks a node for its neighbours. Places are pairs of half-cells, so that centres and corners of cells
and blocks are points; a line of sight is the cell traversal of `hard.rs` in whole numbers. Costs and
lengths are left out: an edge is there or it is not.

### Plane and Clearance

`Plane` is the grid in half cells, shared with `MixedGraph`. `Load` builds the mask and the distance of a file:
from the stored distance layer where it is fresh and complete, else by the two passes of the distance transform with
their lower envelopes (`Transform`). Over a loaded map stand the questions: `NearestPassable` ring by ring,
`Projected`, the flags of the offset stage with a backend and without, and the service's `Reason`, which reads a
window of the map's own chunks. Distances are squares of half cells.

### RoutePlan

`PlanLeg` and `NoWay` find the legs (from the library or by a search), `StartBand`, `RelaxBand` and `FinishBand` are
the elastic band, `Shape` and `FinishPath` the passes after it, each with the check and the fall back the code
gives it: `FirstClear` takes a line that is clear, falls back on the one before when it is not, and fails the plan when the
line it takes is one place and so no path (`IsPath`, the error of `Path::new`). What a force, a radius or a tolerance decides is a choice among the lines that geometry allows: a pass that
drops vertices is a set of indices kept (`Picked`), one that adds vertices puts one more behind some of them (`Spread`).
A vertex carries the number of the waypoint it is the joint of; the program knows its joints by index only.
Every waypoint is treated as one with a dwell.

### MotionWalk

`Registered` sorts dwells and reversals, `SnapStops` moves them to the sample grid and merges those that meet, `Zeros` is where the profile is zero.
`StandingStart`, `Advance`, `Turn`, `Arrive`, `HoldAtEnd` and `StandingEnd` are the walk, `GiveUp` and
`OutOfBudget` its errors. Speeds are zero or positive; arc lengths are whole units of which `Spacing` make a
sample interval, and the last interval may be short.

### Placement

`Draw` draws a sample after the other under the limits of ground and bend, halving the wanted offset until it is
legal; then the passes over the whole trajectory, `ApplyTurns` (around a pivot), `LimitAcceleration`, `CapOffsets`
(what is clear on the runner's side, ramped by the slope in both directions) and `FreezeStands`. Across each sample lies a
strip of ground; offsets are whole positions on it. What the noise draws is any value of `Drawn`.

### DynamicRun

`PlanFirst` is the run without checkpoints, `Ignore`, `Redirect` and `Fail` what becomes of one checkpoint. The
planner and the walk appear by what this code relies on. Coordinates are fractions of a cell so that blend
weights are whole numbers.

## Runs

| Run, module | Question | Instance |
|---|---|---|
| `task_service`, `MCTaskService` | Are retention (`RetentionBound`), early cancellation (`EarlyCancelSticks`) and permits (`PermitsConserved`) kept in every interleaving, is the ticket lifecycle implemented (`LifecycleSpec`), does everything admitted end (`AdmittedTaskEnds`)? | 4 tasks, 2 of them cancelled, 1 permit, 1 queue place, 1 result kept, 3 entries kept |
| `watch_streams`, `MCTaskWatch` | Is a client told exactly once and left current (`ClientsAreTold`), does its stream end (`StreamEnds`)? | 1 stream of any kind at a time, backlog 2, 1 stage, 1 log line |
| `service_api`, `MCServiceAPI` | What may a request believe that reads the record while it is written (`AnswersFitTheEnd`); do both doors answer alike (`DoorsAgree`); do answers go one way only (`AnswersMoveForward`); does paging miss nothing (`SweepMissesNothing`)? | 1 reader, 2 stages; 2 calls, 4 tickets, 3 entries, 1 result kept; pages of one |
| `map_library`, `MCMapLibrary` | Is a map there exactly from its import to its removal, whoever reads (`LibraryIsDurable`, `ListedOnce`), does a task plan on the map it named (`AnswersAreTheMap`), does the cache keep its bounds (`CacheWithinBounds`)? | 2 imports, 1 foreign file, 2 clients, 1 restart, both stores |
| `map_image`, `MCMapImage` | Do images say what was built and patched (`EditsAreKept`), does a reader hand out only that (`ReadsAreTrue`); does an edit do what was asked (`EditsMeanWhatWasAsked`) to the image on show (`StructureIsOfSource`); does an image, and a patch file, read as what was last said, record by record and layer by layer (`ImagesSayWhatWasSaid`)? | 4 builds, 2 patches, up to 3 images, one cache slot; 2 maps, 6 scripts, 2 drawings, 3 requests; 3 calls of a writer, or 2 and 1 patch, bytes of 8 values |
| `planning`, `MCPlanning` | Are the links a priced tree (`PricesCoverTheLinks`), the answers true (`OutcomeIsTrue`), does the walk back arrive (`WalkReachesStart`); are joints kept in order (`BandKeepsItsJoints`), is what is run a path on passable ground whichever pass fails, and nothing refused without a reason (`PlanEndsSoundly`); does what is sent run as it was shown, or is it refused for a reason (`RequestsAreUnderstood`)? | 10368 jobs on 5 nodes; 11 requests over two rooms with a wall, a gate and a link; drafts after 5 edits, 347 bodies of other clients |
| `ground`, `MCGround` | Is every edge walkable and every cell of the plain grid still reached (`GraphIsTheGround`); is every distance exact, every point judged alike and moved to the nearest passable cell (all three in `ClearanceIsKnown`)? | 4 x 4 cells, 3 families of maps, 1 patch; every mask of 5 contested cells, all walls, incomplete and stale files |
| `motion`, `MCMotion` | Is every hold emitted once, in its place and for its time (`StandsAsAsked`), stamped in order (`StampsFollow`); is the runner clear of obstacles and free of jumps (`PlacedSoundly`); does a redirect hold from its time on (`RedirectsRule`) and keep the past (`PastIsKept`)? | paths of 9 to 11 units in intervals of 3, 2 dwells, 1 reversal; 3 walks over 4 kinds of strips; a ring of 12 cells and an island, up to 2 checkpoints |
| `web_client`, `MCWebClient` | Is what the client shows what was asked for last (`KeptPlanIsOnScreen`, `NothingWithdrawnIsShown`, `PanelEndsWhole`) and what became of it (`UserIsTold`, `RowsAreFollowed`), do overlapping fetches get their slices over a connection that breaks (`FetchesEndWhole`), does all of it settle (`ClientSettles`)? | 2 routes, 2 settings, 2 plans, 2 edits; 2 tasks, a tray of 1; 3 panels over 2 runs; 2 sweeps of 2; 2 fetches, 5 samples in frames of 3, queue of 4, 3 breaks, 1 retry |
| `doc_dynamic_run`, `MCDynamicRun` | "the blend stays on passable ground" (`TruthStaysPassable`) | refuted: the weight is bisected over a chord through the wall |
| `doc_placement`, `MCMotion` | the truth trajectory lies on passable ground (`TrajectoryOnPassableGround`) | refuted on ground with a gap beside the line: the cap that the slope lowers lands in the gap |
| `doc_image_edits`, `MCMapImage` | the edited image is one of the image on show (`EditedIsOfSource`) | refuted: an edit's answer arrives after another image was put in its place |

### Why the bounds are enough

- *Tasks.* Four tasks are the fewest with a full queue, a result over the bound and an entry to drop at the
  same admission. Names are taken in order, which removes the symmetry of tasks without a SYMMETRY set and
  is sound with liveness. At most two of the four are asked to cancel (`FewCancelled`): one that waits and one that runs, or
  one that ends while its cancellation is under way.
  Several permits are covered by the theorem `PermitsAddUp`.
- *Record.* Readers write nothing and no property relates two of them, so one is enough; two stages are two different stores
  of the same field between two reads.
- *Answers.* A call does not change what another reads, except by a cancellation, a submission or a removal: two calls are
  a reader and any of these, or two removals. Four tickets on a table of three entries push one out, one result kept evicts
  one; calls about tasks and calls about the map are checked apart, since they share no state. Pages of one entry are the
  most pages, so the list moves between any two entries of it; no task of the
  sweep succeeds, since a page tells of no outcome. `DoorsAgree` does not depend on which calls are made: it compares the checks of
  both doors for every set of flaws, in every state.
- *Streams.* Pumps share only the channel, which they do not change, so one stream at a time sees
  everything. A backlog of two holds the two events of an end and nothing before them, so a
  stream can lose the start, the stage or the log line, can lag past the end, and can lag twice.
- *Socket.* With five samples in frames of three there is a full frame, a short one and an empty
  one past the end; the second fetch starts where a frame of the first one does and asks for more than
  exists. A queue of four is full after both replies. Three breaks are one more than the budget lets
  pass in a row. Progress events (at most `MaxEvents` per connection) only fill the queue.
- *Web client.* *Plan:* two routes and two settings are a key that changes and one that comes back; two presses and two
  requests in flight are a withdrawn answer and a current one, in either order; edits are counted. *Tray:* a tray of one
  entry drops a live task at the second submission; one cancellation, of this page or of another client, races the polls; it is
  accepted in the step after it is asked for (`OneCancels`; `TaskService` and the proof have it at any time). Of its two
  runs one at least is waited for (`OneIsWaitedFor`), and one at most does not succeed (`MostSucceed`); no result is dropped,
  since a fetch may fail with its result there. *Pages:* one timeline
  ends in the middle of a page and one at its end, so that a walk stops at a short page or at an empty one; three panels are
  A, B and A again while the first walk still runs, opened in the order of their names. *Batch:* two sweeps of two rows, and one cancellation that begins in
  the first and ends in the second; one stream gives up. Runs are cancelled by that press or by another client, who cancels one (`CancelledOnce`). Unless they
  are cancelled every other run fails, which the panel only shows, and a sweep that was cancelled whole is not cancelled again
  (`EveryOtherFails`, `OnePress`).
- *Map library.* Two imports of one image show the refusal of a second name for the same bytes; the foreign file
  has another image under a name the library may take. Two clients are enough for every race of the
  code, which are all between two; the proof has any number. Sizes 2 and 5 against a budget of 4 and two
  slots: an entry over the budget alone, and evictions for either reason. The imports are alike and come in the order of
  their names; tasks plan before the restart only (`PlanningComesFirst`), since it leaves the cache empty, as at the start.
- *Map image.* A derived layer of two sources, one of which is patched; a second patch on top of the first, on its
  sibling, and out of order. One cache slot makes every second read evict. It is the last image that is read, and
  when all is written (`ReadLast`): what a reader says rests on the patches that led to its image only, and every image is the
  last one of some behaviour. Likewise an image goes bad while it is the last one (`LastGoesBad`): every image
  once was, and a patch of a bad image is refused whenever it comes.
- *Map records.* Bytes of 8 values make a prefix of two bytes count to 63 and one of a single byte to 7. One set of contents has
  every record, all of them short; another has texts, lists and outlines past what their prefixes count, with a character across the
  end. Each record is also read cut at every byte. Three calls set a record twice and write, write a layer twice, or fill the library
  of paths in either order and write it; a patch follows two calls at most.
- *Image edits.* The campus has three regions, two of one tag, stored in another order than their outlines, so a shift by the wrong
  amount names another outline; `MaxRef` = 4 is reached by the second edit that adds outlines. Three requests are an edit,
  one that replaces its image, and one more in either order.
- *Requests.* Five edits are two ends and three stops, or two ends, and two other fields (a recipe and an
  override of what it set). The bodies of other clients set each field at, beside and far from its bounds, and together the
  fields that one rule joins. The worker reads the library after one more change of it. Edits that change nothing are
  left out, and the ends come before the rest.
- *Clearance.* Every mask of five of the six contested cells, ground that is all walls or all but one cell (the search of the
  rings exhausts the map), four chunks of two by two of which some are missing, a distance layer that is fresh, whole or not, or of an
  older mask (nothing of that one is read); every point of the half-cell grid, on the border of the map and one beyond, is asked for.
- *Mixed graph.* Six contested cells (five of them beside a stair) give every shape of obstacle around a block of two by two; the families have
  no link, an up-only stair with a one-way cell, and two rooms joined only by a stair. Half a cell is the
  unit. The share that makes a leaf uniform is 80 per cent instead of 15, so that a leaf of four cells can ask
  to be drilled. At 6 x 4 cells the properties hold as well.
- *Search.* Five nodes have two ways to the goal, a one-way link without a line of sight, shortcuts
  that are missing, cheaper or dearer than the edges, coincident points, a wall, a node outside the
  corridor, and a budget that is spent or not. The prices of the family re-hang closed nodes and
  raise prices by repair. `MaxWalk` = 9 is the larger budget.
- *Route.* Two requests are closed or cross themselves: one goes out and comes back, so that cutting its fold leaves one place. `MaxPoints` = 7 is small enough that the cap is hit, three iterations are enough for a pin to be shifted
  by an insertion and used again.
- *Motion.* Interval 3 with lengths 9, 10, 11: a last interval that is whole, one unit short, two units short.
  `SampleBudget` = 14 is reached by the slowest walks and not by the others.
- *Placement.* The strips are open, walled on one side, narrow on the other, and blocked at the centre: the halving stops
  at once, after a step, after two, or at nothing. The walks stand at the start, turn in the middle, and stop at the end. Two
  to a side is the least at which the cap can be lowered twice.
- *Redirects.* A window of four samples lies partly behind the end for late checkpoints; issue times are at the start,
  on a sample, between two, and after the end.

Every run sets `CHECK_DEADLOCK FALSE`: tasks are submitted once each, searches, walks and streams end, and the
system then rightly stops.

### Fairness

- `MCTaskService!MCSpec`: weak fairness of each worker. The executor polls every spawned task, bodies are
  bounded computations, and the semaphore is first come first served (modelled, not assumed). Clients need
  not submit or cancel anything.
- `TaskWatch!FairSpec`: the worker and each pump move when they can. Nothing is assumed of clients: a
  slow one is a pump that takes its time, one that goes away ends the stream.
- `SampleSocket!SocketFairness`: both ends run and the network delivers. Tasks need not end, connections may
  break when they like; `SocketAtRest` excuses a fetch from the moment a frame is lost or some fetch is
  refused, because the client has no timer and nothing settles it then.
- `PlanFairness`, `TrayFairness`, `PagesFairness`, `SweepFairness`: timers run out, and a request is answered or fails
  (the browser ends every request one way or the other). The tray also needs its service to end what it admitted, which
  is `AdmittedTaskEnds` of `TaskService`; a poll that could go on is not required to fail. The batch needs its runs to
  end, and an open stream to say so. Nobody needs to press anything.

## Proofs

Checked by TLAPS for every value of the constants under the named assumptions of each module (`ASSUME`, evaluated by
TLC in every run): finite sets of tasks, layers and chunks, positive limits, natural costs; nothing is assumed of how many
tasks, clients, calls, pumps, fetches, patches, checkpoints or samples there are. Theorems that are stated for a module
hold of its `Spec`; most rest on one inductive invariant, which is named first.

**TaskServiceProofs.** `TypeOK` and `InFlightListed` are not inductive. `WorkerInv` adds what ties
the worker to the state: `PlaceFitsState` (what each place implies for state, table and payload),
`FlagRemembered` (a flag set before the read is still set), `QueueSound` (the semaphore's queue is the
waiting workers, each once) and `PermitCount` (permits and holders add up; nobody waits while a permit
is free). From it: `TypeCorrect`, `PermitsAddUp`, `UnfinishedResolves`, `EarlyCancelHonoured`.
`RetentionInv` counts: results in memory plus tasks that may still add one. An admission brings
the first down to `KeepResults` (`EvictionLeavesBound`) and adds one to the second while capacity
lasts; storing an outcome moves a task from the second to the first. From it: `CapacityIsHonoured`,
`RetentionIsBounded`. The bound is `keep_results` *plus the capacity*: results are pruned only when
something is admitted. `ServiceIsTicketLifecycle` is the refinement: under the mapping of the INSTANCE each worker step is a
step of one ticket or none, a cancellation is the asking and the acceptance of the lifecycle whatever the worker does between
the two, admission is a submission together with the forgetting of ended tickets and the loss of results;
that at most `MaxConcurrent` run needs the permits counted.

**TaskRecordProofs.** *The record.* `RecordInvariant` describes the stores a worker has left (a suffix of one of
the transitions, with the state last among the fields a dto shows) and, per reader, what a prefix of
its plan may have seen. `EndsCarryTheirStage` and `SuccessHasItsResult` follow: stage and progress are
stored before the state and read after it; so is the outcome. `AnswersFit` joins them into the property of
the run. *The answers.* `AnswersInv` says of everything a reader was told that it stands: an end that was seen is still an end,
a result that was evicted is gone for good, a ticket that was forgotten is not in the table; and of every call in
progress that what its passed checks found stands too. Every action is `Onward` - what left the table, the ends of runs
and results that are gone stay so - and an `Onward` step keeps what stands.
`ReadersHearOneWay` is that the stages a ticket's readers are told only grow, at either door. *The table.* `TableInv`:
the table is in the order of admission and within its bound: fewer may be unfinished than it holds, so among one entry too
many there is always one that has ended (`TableKeepsItsBound`). `ListingInv`: pages go from the newest entry to the oldest, and
what a client was not given yet has at least as many newer ones in the list as the client has been given, since new entries
come before it and none that stayed leaves; hence `PagingMissesNothing`. *The doors.* `Verdict` is what a sequence of checks answers when a given set of them fails: the kind of the first that
does. `DoorsAgree` compares the verdicts of the two doors under *every* set of flaws that either of them checks, except those only
one door can be sent (`Peculiar`: a query, a format, the size of a body, and its shape where gRPC has it typed), and under what the
state makes of the checks of the service. A check left out at one door is therefore seen: the flaw it was for is still among those
of the other. `WhatIsCompared` lists the flaws operation by operation, `OwnFlaws` says which checks depend on the state
(the stored map can be read and opens, `MapsOpen`), and `Alike` is the comparison for any set of failing checks.
`DoorsAnswerAlike` follows.

**TaskWatchProofs.** `WatchInv` says that a transition publishes what it stored, that no cursor is past the channel, that a
pump other than SSE's has sent no terminal frame before it ends (`OneEnd`), and where the present rank is for a pump that was sent
the state: with its client, in the channel ahead of it, or promised by the worker (`OnItsWay`). This is the race: the
worker stores before it publishes, a pump subscribes before it reads. From it `EveryClientIsTold`.

**MapLibraryProofs.** `LibraryInvariant` adds to the types what an operation in progress knows: a file is whole
when its import has passed the write (`FilesSound`), an entry is that of its file or of a removal under way
(`EntriesSound`), one operation at a time imports a name (`OneImporter`), what was acknowledged is there or was
removed (`AckedSound`, `RemovedSound`), a cached environment was loaded from the image its key names
(`CacheHonest`), and the memory store is in order of age (`MemoryOrdered`). One lemma per action. The bound of
the cache is `CacheIsBounded`, over the bytes that a move to the front keeps (`MovedBytes`). `LibraryDurable` joins
`AcknowledgedStays` and `RemovedForGood`.

**MapProofs.** `ImageInv` speaks of the image a hash was taken of: that one is `Good` - its directory has one record
per key, its blocks lie where its header says, its statement is what was built and patched - and what lies on disk differs
from it in payloads only, which their checksums show. The builder and the patch fold over sequences; `AppendChunksHolds` and
`BuilderCollects` say what these folds come to. From it `PatchedMapsKeepEverything` and `ReadersTellTheTruth`.
*Editing.* A merge is a fold, too: `MergedIs` says that it leaves the items of other keys as they were and holds the last of
every key that was sent. With it `EditIsMeant` (references shifted behind the outlines already there lead to the outlines they
were sent with) and the invariant `AskedInv` (requests are well formed, an export carries the drawing it was made of) give
`EditsAreWhatWasAsked`. `CallsInv` says that what spins waits for a request of its kind and that the studio has one export
under way at most; `StructureFollowsSource` is part of it.
*The ground.* `IsEnvelope` says what the lower envelope of the first parabolas is: pieces in order, each from where it crosses
the one before, these crossings further and further right, and for every parabola and every point some piece that is
no higher. `NextEnvelope` keeps it: a piece that is taken off meets the new parabola before it takes over itself, so to the right
of there the new one is below it and to the left the piece below. From it `TransformIs`, and for columns then rows
`FromMaskIs`: every distance is that to the nearest cell of the mask, since a column without obstacles, at `Big`, loses to any
obstacle on the map. That is the one assumption: `Big` (1e12 in the code) is at least width squared plus height squared.
`InsideCell` and `BeyondTheWindow` (what the service's window leaves out is no nearer than the radius) give the agreement of
all who judge (`AllJudgeAlike`). `SearchedIsBest` says that after each ring the cell in hand is the nearest of the rings so
far, also when the check of the loop has stopped it (`RingIsFar`): `TheNearestIsFound`. Together: `TheClearanceIsKnown`.

**PlanningProofs.** *The search.* `SearchInvariant` says that prices cover the links, that only closed nodes have
children (why a repair may raise a price), that every entry of the frontier has been priced, and what
each phase implies. It gives `PricesHold`, `RouteIsWalkable` and `NoPathIsHonest` (together `OutcomeHolds`); the cut that
witnesses NoPath is the set of closed nodes. `TreeInvariant` is about cycles. Prices alone do not
exclude them, since coincident points are joined by steps that cost nothing; `WellRooted` says that no
set of known nodes without the start keeps its parents to itself, and is kept because an update
is taken only for a strictly lower price. With the count of expansions (`BudgetHolds`) the walk back
has at most budget + 1 links: `WalkEndsAtStart`. Its assumption `WalkAssumption` (budget at most the
guard) holds of the defaults, 400 000 against 1 000 000, but `max_expansions` has no upper limit in
the configuration.
*The plan.* Two lemmas say what the passes do to indices: `PickedIs` (what is kept of a line is in its order, every kept
vertex once, the ends among them) and `SpreadIs` (a vertex moves by as many places as were inserted before it). With them
`PlanInvariant` says where the joints are: `PinsAre`, the anchors are the indices of the joints, the last of them the end,
as long as legs are joined and while the band has room; `JointsAre`, every joint once and in order, afterwards; and every line
made of the searched route has its ends. It is not enough to speak of the band: a band that is discarded falls back to the
searched route, whose joints and ends the invariant keeps as well. The ends are also why a plan that loses its line must have been
closed: a line of one place with the ends of the searched route (`OnePlaceIsClosed`, `ValidatedIs`). Once a midpoint has found no room (`full`), the anchors
are shifted by midpoints that are not there, and only the ends and the bound are kept.
`TheBandKeepsItsJoints` and `ThePlanEndsSoundly` follow, for every mask, projection and force. `WaysAssumption` says of the legs
that they start and end where they were asked to and have two points at least, as `CandidateSet::validate` demands; in the
program a library entry may end within a millimetre of where it was asked to.

**MotionProofs.** *The run.* `RunInv`: the recording's clock only grows, every sample belongs to a leg that was planned,
no sample of an older leg is stamped at or after the latest redirect, a finished recording ends where it was last sent.
`RedirectsAreObeyed` is `RedirectsRule` without its statement about the length of a stride at the splice, which is about
positions; `ThePastIsKept` rests on `Kept`, a fold over the recording, being a prefix of it. *The placement.*
`PlacementInv` says pass by pass what is settled: until the holds are frozen, a moving sample lies on its own strip at
its own offset; offsets stay within the strip until the turns, and the capped ones are `Level`. The halving search ends on a legal offset, and two rounds of the ramp leave caps that are level in both
directions: from these lemmas `OffsetsAreSound`. *The walk.* The stops of a walk are pinned down first (`StopsAre`): sorting
a finite set lists it (`RankLists`), moving places to their nearest sample keeps their order (`NearestRises`), so requests that
share a sample are neighbours when they are merged, and after k requests every stop has the sum of the first k that are nearest
to it (`StopsGrow`, over the fold). A pivot is therefore the nearest sample itself (`PivotIsStop`). `WalkInv` then says where the
walk is: between the last stop it held and the next one (`ArcInv`), its holds are the stops it passed (`HoldInv`), the
reversals are turned or ahead, in order, and none is behind (`PivotInv`: a step that would pass one is cut at its stop), and the
clock is one past the last stamp (`ClockInv`). `StandsAreHeld` and `StampsAreInOrder` follow, for every spacing, probe, longest
step and finite set of durations.

**WebClientProofs.** *Plan:* `PlanInv`, with `WithdrawnIsPast`: a withdrawn generation is never the current one again.
It gives `KeptPlanIsDrawn` and the action property `WithdrawnStaysAway`. *Pages:* `PagesInv`, the cache holds pages of the
selected run only, every walk goes over the pages of one run, and the walk of the panel on the page has left none out
(`CacheIsOfSelected`, `WalksAreOfARun`, `PanelIsFollowed`). *Tray:* `TrayInv`, an end that an entry or an answer under way
shows is the end the ticket came to (`EndsAreTrue`), an entry is announced before its wait is over (`AnnouncedInTime`), and the
modal is that of the last blocking run until it settles (`ModalIsTheLatestWait`), which with the entries gives the loader.
*Batch:* `SweepInv`, rows and streams name jobs that there are, the rows still to be submitted name none, and a row that was
not marked tells what became of its run, as far as the events can say it. *Socket:*
`SocketInv` says that a connection that is down carries nothing (`LinkInv`), that what is pending and what is waited for are
the same, each offset once (`PromiseInv`), that what was received has no hole (`ItemsInv`), and counts retries
(`BudgetInv`); it gives `SocketKeepsItsWord`. `RoadInv` says of
everything under way - requests, queue, frames - that it is, in order, the rest of what the pending fetches wait for;
`FetchesGetTheirSlice` follows for fetches of which no frame was lost and none was refused. It has a hypothesis, `CapsAgree`:
that server and client cut a fetch at the same page limit. The client documents that they do (`ws.ts`, `fetch`: "The
service caps one reply at the page limit the client documents"), and both defaults are 100 000; it is not checked by the
program, see below.

*How data is reasoned about.* The library's induction theorems are out of the provers' reach, as they take an operator. What
a fold, a recursive function or a sequence comes to is proved here from a least counterexample instead: a non-empty set of
numbers has a least element (`LeastNatural`, from the library's `WFMin`). That covers folds to the left and recursive
functions; selections (`SelectSeq`) cannot be unfolded, and modules that prove avoid them.

**Only model-checked.** Liveness (`AdmittedTaskEnds`, `StreamEnds`, `ClientSettles`), since fairness and ENABLED are
beyond the prover. `RequestsAreUnderstood`, `GraphIsTheGround` and the length of the stride in `RedirectsRule` have no
theorem yet. `ImagesSayWhatWasSaid` is about recursive readers over bytes, which takes induction over data.

## What reading and checking turned up

Three statements of comments and tests are refuted by runs of their own (`doc_dynamic_run`, `doc_placement`,
`doc_image_edits`; quoted under `findings`). Others are stated beside the properties of their modules, and a reader who
puts one of them alone into the cfg named here sees its counterexample:

| cfg | Definition | What the code does |
|---|---|---|
| `TaskService.cfg` | `QueuedCancelStops` | the flag is read before the state changes |
| `ServiceAPI.cfg` | `TerminalDtoWhole` | `to_dto` reads the fields before the state |
| `WatchStreams.cfg` | `SseStreamHasTerminal` | the end falls between snapshot and check |
| `WebClient.cfg` | `DrainerNeverWaits` | `send_error` waits for room (ws.rs:421) |
| `WebClient.cfg` | `FetchIsTheSlice` | a refused fetch stays pending and takes a later one's frame; so does one whose frames were lost |
| `WebClient.cfg` | `PathFitsTheLegs` | the profile is asked for the draft as edited since, and merged into the plan that is there (workspace.ts:649) |
| `WebClient.cfg` | `ProfileFollows` | a new plan leaves `profiledKey`; going back to the route it names loads no profile (workspace.ts:650) |
| `WebClient.cfg` | `ProfiledKeyIsHonest` | the same key outlives the profile it is the key of (workspace.ts:253) |
| `WebClient.cfg` | `VerdictIsOnThePoint` | edits do not bump the generation: an older check of the points may answer last (workspace.ts:501) |
| `WebClient.cfg` | `NothingLivesOn` | a refresh that read before the last poll arrives after it, and `apply` sets the ended entry back (tasks.ts:259) |
| `WebClient.cfg` | `DimmedWhileWaiting` | the loader goes when the entry has ended or was dropped, while `run()` still fetches or polls (tasks.ts:102-104) |
| `WebClient.cfg` | `LiveTaskIsListed` | the tray drops its oldest entry whatever its state (tasks.ts:136) |
| `WebClient.cfg` | `PanelFollowsSelection` | a jump in the browser's history moves the selection under a panel that does not load again; to and fro within a walk, the end of the timeline is cached without its beginning (SimulationView.vue:242) |
| `WebClient.cfg` | `FailureIsReported` | the status is shared, and the walk of a panel that is gone says "ready" after the failure (simulations.ts:1094) |
| `WebClient.cfg` | `OnlyCancelledAreMarked` | a cancellation pressed in one sweep marks rows of the next, by their index (BatchPanel.vue:442) |
| `WebClient.cfg` | `CancelledIsToldApart` | the end of a cancelled run is an error event (task/mod.rs:377-384), and every error makes the row "failed" (BatchPanel.vue:395-397) |
| `WebClient.cfg` | `NothingIsFollowedAfterLeaving` | `submitAll` goes on after the panel is gone and subscribes (BatchPanel.vue:341) |
| `Planning.cfg` with `Heuristic <- Admissible` | `SuboptimalityIsBounded` | a visible grandparent is never compared |
| `MapLibrary.cfg` | `RemovalFindsTheMap` | the removal of a file another process wrote answers that there is none (disk.rs:152 against 118-120) |
| `MapImage.cfg` | `DependantsFail` | a layer derived from a derived layer is still handed out when the sources of that one moved (reader.rs:759 against patch.rs:14-17) |
| `Motion.cfg` | `StopsArePassed` | two standstills closer than the look-ahead block the walk (mod.rs:793-796) |
| `Motion.cfg` | `StampsIncrease` | a hold at the end and the standing end repeat a stamp (mod.rs:894; docs/en/usage.md:307-308) |
| `Motion.cfg` | `GoalDwellIsHeld` | a dwell at the goal zeroes the sample before the end as well, and the walk is refused, (mod.rs:791, profile.rs:229) |
| `DocDynamicRun.cfg` | `EveryRedirectIsRun` | a later checkpoint issued earlier cuts an accepted redirect away |
| `Planning.cfg` | `RouteIsShipped` | link edges need no line of sight (graph/mod.rs:645-672), but standard.rs:281 refuses a line without one |
| `Planning.cfg` | `JointsArePinned` | anchors near obstacles are moved by the projection (elastic.rs:97-104) |
| `Planning.cfg` | `DwellsInOrder` | a dwell is put at the nearest point of the whole path (docs/en/usage.md:260-270) |
| `Ground.cfg` | `LegalIsAccepted` | the endpoint measures from the point, the offset stage from the middle of its cell: a point called legal may be flagged (feasibility.rs:45-48) |
| `Ground.cfg` | `BackendsAgree` | a point on the far border of the map is on it for the backend and outside without one (motion/mod.rs:1349-1357) |
| `MapImage.cfg` | `EveryDrawingIsWritten` | of two regions drawn with one tag the first is dropped (StudioPanel.vue, exportImage) |
| `MapImage.cfg` | `DrawnOnWhatIsEdited` | what was drawn over one map is written into the image the store holds by then (StudioPanel.vue, exportImage) |

Other things seen in the code that no run is about, for a maintainer to judge:

*Service.*
- Results beyond `keep_results` stay until the next admission, and a failed task counts as an entry, so a
  series of failures can push out the entry whose result is kept (task/mod.rs:632).
- A cancellation that arrives while the body runs is recorded and has no effect, and one that read the state just before the end
  is accepted after it (task/mod.rs:387-392), where the comment says that false is returned for a task that finished; a cancelled task
  that is still queued keeps its place until a permit reaches it, and keeps its payload while listed.
- An SSE stream that lagged past the end sends the terminal event twice; an event may be delivered after
  a snapshot that already contains it.
- A gRPC stream opened after the end gives the result's path with the API prefix twice (rpc.rs:939), and
  tells the watcher of a cancelled task `done`, where a watcher that was there is told `error`.
- A fetch pending when the connection is lost is neither sent again nor rejected by the reconnect.
- The comment at tasks.rs:5-8 names two answers of a result; the code answers "conflict" also for a result that was evicted,
  and "unsupported" for a run, which has its data elsewhere. A map whose file is unreadable is answered 400 by
  `disk.rs`, where error.rs:88-94 calls it the server's fault.
- gRPC's `SimulationService.List` lists tasks of all kinds; a client that pages by kind may miss a run that was listed, since
  its offset counts among those of the kind.
- A synthetic map that is too large is a run that fails, where dto/simulation.rs:97-99 says bad request.
- `http.max_page_size` may be set below the client's `MAX_PAGE_LIMIT` (schema.rs:190-216, client.ts:20); a large fetch over
  the socket would then come short or stay pending. `FetchesGetTheirSlice` assumes that it is not.
- The environment cache keeps duplicates of two loads that missed together (environment_cache.rs:79), where the
  comment says that the second result is kept.

*Map image.*
- A patch counts 22 fixed bytes for a replacement (patch.rs:146-149), where `encode` writes 20: a file whose payloads have less than
  two bytes each on the average is refused as cut off (`PatchIsKept`). A set of regions with more outlines than the prefix counts
  is written, and refused when it is read if a feature refers to one of those cut off (`RegionsAreKept`).
- Writing a record of connectors ignores `merge`, a download is named after the map before the edit, and more than
  2^16 - 1 outlines saturate their references.
- A proxy patch does not rebuild the skeleton or the global statistics (patch.rs:262); connector and
  dictionary patches are not part of any fingerprint; the chunk cache drops the oldest entry, not the
  least recently used one (docs/en/map-format.md:376-378).

*Core.*
- `nearest_plane_node` prefers a roadmap point within 12 m even out of sight, so the end of a stair may be
  attached to a waypoint behind a wall, and the link is then never used (graph/mod.rs:694-709 against 144-149).
  `ReachIsKept` therefore excludes maps with both links and a roadmap.
- A block clipped by the edge of the map uses its width for its ring only, and may lose a pocket
  (coarse.rs:425-453). `coarse_neighbours` never leads into the roadmap, so a roadmap whose interface cells are all
  covered by blocks can be left but not entered; a covered fine cell is linked to although it has no edges
  (mod.rs:303-306); `segment_is_clear` takes the column first at exact corners, so diagonals may be one-way
  while roadmap edges are stored both ways from one look; `interface_cell` uses the first link of a waypoint
  only; `touches_bounds` allows half a cell more on one side.
- The comment of theta.rs says that lines of sight are tested when a node is expanded; the update rule tests
  them as well. A repair prices the new step without the penalty of the enumeration.
- A route out and back within twelve metres of arc is one fold: cut to a single place it counts as clear, `Path::new` refuses it,
  and the plan fails, where the comment names the unshortened path as the fallback (standard.rs:296, clearance.rs:69).
- Two equal consecutive points of a request give NoPath; `remove_spikes` and the second simplification ignore
  the anchors (standard.rs:222-226); resampling drops exact waypoint vertices.
- The sample budget of a walk ignores dwell time (motion/mod.rs:473-477, 593-601); a periodic lap may have its
  reversal on its seam.
- The check of a point answers "ok" beside a chunk that is absent (the `?` in `distance_to_blocked`);
  `nearest_passable` never considers the border cell itself (hard.rs:177 against 148-153).
- Redirects: a replacement shorter than the window ends in mid-blend; `manifest.goal` and the dwells that were left
  are those of the old leg; path, profile and manoeuvres are those of the new leg only; `run()` and the batch
  runner ignore checkpoints.

*Web client.*
- Events of another run are applied after a late refresh (SimulationView.vue:216-224); a stale refresh reverts
  an ended job; cancelling a run that is not shown closes the stream of the one that is (simulations.ts:749).
- A list read before a submission and answered after it would replace the tray (tasks.ts:243); no page calls `sync`.
- The summary of a run of one sweep that is collected late goes into the row of the next (BatchPanel.vue:401);
  `streamProblems` is never reset.
- `geometryKey` leaves out the mode of motion, the seed and the individual (workspace.ts:220): a plan is kept although one of
  them changed.
- A yes-or-no override is sent as text (request.ts:308, forms.spec.ts:460), which the service refuses with 400;
  `RunView.submit` builds its body without the accepted fields; `filterOverrides` lets any `sensors.*` key through.
- A loop's reference that is half typed is dropped without a word; waypoints that are hidden in loop mode still block the draft.
- `planNow` without a map clears the screen and keeps the generation, so a profile in flight is drawn afterwards
  (workspace.ts:565-578).

## Not modelled, and why

Numeric parts (forces, speeds, noise, sensors, costs, evaluation, GPU kernels) have properties with
tolerances or distributions, which a finite model says nothing about. The bytes of headers, directories and chunks, encodings of pages,
geographic import, routing, rendering and static data have no order of steps to get wrong. Start, shutdown and configuration of the
service keep nothing and are left out; map resolution inside a task is one of the ways a body fails in
`TaskService`. What is missing for lack of work rather than by nature is in the plan.

## Plan

Done: the modules above with their runs; proofs of the task registry and its refinement, the record and the answers, the
event streams, the map library, the image format, the editing of images, distances and snapping, the search, the plan of a route, the walk, redirected runs, the placement, and the five modules
of the web client.

Next:

1. Proofs: the edges of `MixedGraph`, the rules of `Requests`.
2. The rest of the simulation store (job table, current run, its stream).
3. `Candidates` - the enumeration over `ThetaStar`'s answers as an oracle - and loop mode in `RoutePlan`.
