# ScribeFlow in TLA+

ScribeFlow takes audio over HTTP, queues it, and has workers transcribe it. Two
services written in different languages never call each other: they meet in a
Postgres table, in RabbitMQ and on a shared volume. What goes wrong in such a system
goes wrong between the steps of two actors, so this directory models those steps,
checks them with TLC on small instances, and proves the central properties with TLAPS
for every size.

## Inventory

| component | code | state | operations |
|---|---|---|---|
| upload endpoint | `api/src/transcriptions/*`, `api/src/storage/upload-validation.ts` | a request's progress through `create` | refuse, receive, hash, look up a duplicate, promote, insert, publish, undo |
| audio storage | `api/src/storage/storage.service.ts` | temp directory, final files | hash, promote, remove, purge at start |
| broker connection | `api/src/queue/publisher.service.ts` | `connection`, `channel`, `shuttingDown`, running loops | connect, reconnect, close handlers, publish with confirm, shutdown |
| jobs table | `api/src/transcriptions/entities/job.entity.ts`, `worker/db.py` | one row per job | insert and delete (API); five UPDATEs and a SELECT (worker) |
| queue contract | `shared/message-schema.md`, `api/src/queue/topology.ts`, `worker/queue_topology.py`, `worker/retry.py` | jobs, retry and dead queues | route, expire, redeliver, park; decide on a retry |
| worker consumer | `worker/main.py` `handle_message`, `run` | a handler under a lock, prefetch 1 | consume, check status, mark, run, complete, ack; shut down |
| failure handling | `worker/main.py` `handle_failure` | — | publish a retry or dead copy, record, ack, or nack |
| pipeline | `worker/main.py` `run_pipeline`, `worker/audio.py`, `worker/transcriber.py` | temp directory, chunk plan, segments, last report | probe, normalize, slice, infer, merge, shape |
| worker startup | `worker/main.py` `run`, `main`, `connect_with_retry`, `worker/db.py` `connect`, `worker/settings.py` | two retry loops, pool, connection, stop event | connect, declare, consume, drain, release; signals |
| retry delays | `worker/retry.py`, the retry queue of the topology | copies in line, each with a TTL | publish with a delay, expire at the head |
| read, list and export endpoints | `transcriptions.controller.ts`, `transcriptions.service.ts`, `dto/*`, `srt.util.ts` | none; read a changing table | detail, page, export as SRT or VTT |
| API process | `api/src/main.ts`, `app.module.ts`, `config/env.validation.ts`, `auth/api-key.guard.ts`, `health/health.controller.ts` | how far `bootstrap` is; a request under way | validate, connect, listen; guard, probe, publish |
| web page and proxy | `web/app/page.tsx`, `web/lib/api.ts`, `web/app/api/**/route.ts` | `job`, `uploading`, `error`, an interval; the proxy: none | upload, poll, show; add the key, pass the status through |

How they interact: the API inserts a row and then publishes a message (row before
message); the worker reads the row, updates it, and settles the message last; a failed
attempt leaves as a *copy* of the message in a TTL queue that dead-letters back to the
work queue; clients learn everything by polling the row.

Hard behaviours, in the order of the damage they can do: redelivery and duplicates of
a message while an older handler runs on (`connect_robust`); a crash or an exception
between two of *publish copy, write row, ack*; statements that took effect though they
raised; fire-and-forget progress writes; an upload undone whose message was taken;
two API processes on one volume; several reconnect loops over two shared fields, with a
publish or a probe waiting meanwhile; a retry queue of which only the head expires; two
programs declaring one topology; a list walked by offset while it changes;
polls answered out of order. `PROJECT.json` lists each at its line under `hazards`.

What makes each component correct:

* upload: an answer is true — 202 means durable, 503 means undone, 200 means
  completed; a row always has its audio;
* worker and failure handling: accepted work is never lost nor stuck, a failed job is
  parked and was attempted as often as promised, no delivery is left unsettled;
* table: what a row shows is coherent;
* broker connection: `isConnected` is true as far as the process can know, a process without
  a channel gets one, and reconnecting does not feed itself;
* pipeline: chunks tile the file, the time line is ordered, the progress of an attempt is honest,
  scratch space is bounded;
* retry delays: no copy comes back early, none waits longer than the longest delay;
* startup: both sides declare the same topology, run() leaves nothing open, and a stop ends it;
* reads: an answer agrees with the table, a walk of the list misses no more jobs than were undone,
  a cue stands where the model heard it;
* API process: a publish is always answered;
* page: it shows the last upload, and in the end its real outcome.

## Modules

```
Contract ── JobStore ─┐                              Publisher ── ApiProcess
   │    └── Broker ───┼── Worker ──┐
   │          │       │     │      ├─ ScribeFlow ── Readers
   │          │       └── Upload ──┘                 Pipeline ──┐
   └──── RetryQueue (implements Broker's bags)       Subtitles ─┴─ Export
   JobLifecycle  <── implemented by ── Worker        Startup       WebClient
```

* **Contract** — a message is the job it names and its `x-retry-count`; `MayRetry` and
  `RetryCopy` are `decide` and the copy `handle_failure` publishes. The header `Corrupt`
  stands for anything `int()` rejects; `Malformed` for a body that fails to parse.
* **JobStore** — one operator per SQL statement, from the row found to the row left.
  `Update` does nothing when there is no row, as an UPDATE does.
* **Broker** — queues are bags (nothing relies on an order, so every order is
  explored); delivery under prefetch 1; ack, requeue, dead-letter; expiry after any
  time. This module is our reading of RabbitMQ, the one dependency the properties rest on.
* **RetryQueue** — the retry queue as it really is: a line of copies, each with the delay of
  its header and an age, of which only the head expires. It implements `Broker`, which
  justifies leaving time out everywhere else.
* **Worker** — `handle_message`, `handle_failure` and the process around them. `pc[w]` is the
  await the handler is about to make, `cur[w]` the message it was called with,
  `owns[w]` whether that message can still be settled, `stale[w]` lost deliveries whose
  handlers wait for the lock. Every SQL statement has three outcomes (`Statement`): done;
  raised without effect; raised after it took effect. A lost connection
  (`Disconnect`) requeues the delivery and either cancels the running handler or lets it
  run on: which of the two is aio-pika's choice, so both are taken.
* **Startup** — `run` from `Database.connect` to its exit, one await per value of `phase`.
  `WorkerDeclares` and `ApiDeclares` are the two topologies, each transcribed from its own
  file, declared one entry at a time in any interleaving on a broker that refuses what
  contradicts it. What the handlers do in between is `Worker`'s part; here a `job` is only what
  keeps others waiting: a statement that holds a connection of the pool, or the pipeline's
  thread. A `lost` link is one `connect_robust` is restoring: meanwhile the cancellation of
  the consumer waits or raises. `joining` is `asyncio.run` after `run()`, waiting for the thread.
* **Upload** — `TranscriptionsService.create` await by await, the file interceptor before
  it, the process start with its purge of whatever any process on the volume has there. A
  request and the job it may create share a name. `unremoved` is a history variable: the
  final files whose unlink failed, which `StorageService.remove` swallows.
* **ScribeFlow** — both sides over one table and broker, every step interleaved.
* **Readers** — `GET :id`, `GET :id/export` and the paged list against a running
  `ScribeFlow`, with a client that walks the list to its end.
* **JobLifecycle** — the abstract promise: the README's state diagram, plus the
  two transitions the diagram lacks (a failed job reopened; an unknown job's message parked).
  `parked` is the set of jobs with a message in the dead queue.
* **Publisher** — each stretch of JavaScript between two awaits is one action; a *task*
  is a running loop (`connectWithRetry` or one call of `reconnectForever`).
  `link[c]` is what connection `c` is like: `deaf` is a connection that is up but lost its
  channel without being recycled, `dead` one that is lost before the process hears of it.
  Between `LoseLink` and `LossNoticed` the two fields keep what they held.
* **ApiProcess** — the process around the publisher: `validateEnv` on an environment that
  may lack something, TypeORM's retries, `listen`, then one request at a time past the
  guard. `over` is the connection a publish waits on; when that is known to be gone, amqplib
  rejects the publish (`Rejected`). A dead link still takes what is written (`Usable`).
* **Pipeline** — the blocking thread for one job. Durations and segments are integers
  in ticks; `Tick` of them make the hundredth of a second that `round(t, 2)` keeps. Progress
  is compared as an exact fraction and reported as rounded `Percents`. ffmpeg
  and the model are choices: any duration, any segments with ascending starts that
  lie in their chunk and may end `Overshoot` behind it, any failure.
* **Subtitles**, **Export** — `formatTimestamp`, `formatClock`, `toSrt` and `toVtt` over
  tenths of a millisecond, and their composition with the pipeline's transcript. `heard` is a
  history variable: every segment the model yields is recorded at once, at the place in the
  file where the audio it came from was cut out, whatever the merge does with it later.
* **WebClient** — the page behind its proxy, with the server reduced to the status a poll
  reads. `polls[j][s]` counts replies under way: a poll yet to be answered is in state `none`.

The modules `MC…` give the constants values; `Startup` is checked as it is. Definitions called *Mutant of X* in comments are
plausible bugs of `X`, never used by a specification: with `X` replaced by one of them
the named run finds the named property violated (`mutants` in `PROJECT.json`).

Faults are actions that spend from a budget (`MaxFaults`, `MaxApiFaults`,
`MaxBrokerFaults`) and whose kinds are constants, so a run says exactly which faults it
grants. Deadlock is not checked: once all jobs have settled, the queues are empty and
the fault budget is spent, the system rightly rests, and so do an exited process, a
pipeline thread that returned and an idle page.

## Runs

Passing:

| run | instance | question |
|---|---|---|
| Solo | 1 job with two messages, one with a corrupted header, 1 worker, 2 retries, 2 progress steps, any 2 faults | is work lost, a worker wedged, a row incoherent? |
| Fleet | 1 job, 2 workers, 1 retry, any 2 faults but `db` | what holds with concurrent copies of one message: are failed jobs parked, is a job given up early? |
| Lifecycle | 1 job, 1 worker, 3 retries, a poison message, 3 crashes/stops/refusals | does the worker implement `JobLifecycle`? |
| Service | 1 upload, 1 worker, 2 APIs on one volume, 1 retry, any 2 + 2 faults, fair | is every answer of POST true, and does every accepted upload settle? |
| Duplicates | 2 uploads of one content, 1 worker, 1 API, 1 + 1 faults, a client walking the list by pages of 1 | does a duplicate stay completed, does the walk miss more than was undone? |
| Reconnect | an API process, 4 environments, 2 + 2 startup attempts, 4 loops, 4 connections, 3 broker and 2 database faults, fair | is `isConnected` true, is somebody reconnecting, but not more and more, does the channel come back and stay, is a publish answered? |
| Chunks | every duration 0..7, threshold 4, chunks of 3, two segments a chunk, overshoot 1; times around every carry | tiling, order, rounded progress, scratch space; exact time stamps, cues where the model heard them |
| Page | 2 jobs, 1 poll per job and reply, 1 retry, 1 failure, with or without an API key, fair | does the page show the truth, one outcome at a time, and does it stop being busy? |
| Delays | 2 jobs, 2 workers, delays of 1, 3 and 9 units, 1 crash | how long does a copy wait; does the timed queue do what `Broker` allows? |
| Startup | 3 attempts in either loop, 2 lost connections, a signal at any await, an API declaring meanwhile, fair | is a declaration refused, a route missing, a connection left open, a stop ignored though the link is lost or the pipeline endless? |

Why the bounds are enough: two faults are what it takes to combine a lost channel with a
crash or a failing statement while the first one is being handled; two workers are what
it takes for two handlers of one job; two messages, for one handler to wait on another's
lock; two API processes, for one to start and purge while the other handles the upload. One retry already makes both branches of `decide` reachable; Lifecycle, which
counts attempts along the whole schedule, uses the code's three. Two progress steps are needed
for a late write that is not the last. In Chunks, 7 ticks with
chunks of 3 give one chunk (up to 4), two (5, 6) and three (7, with a short last one).
`MaxPolls` bounds polls with the *same* reply; different replies of one job still overtake
each other. `PublisherAssumption` requires more loop and connection names than faults,
so that no run is cut short for want of a name. In Delays the units are those of the code
(10, 30 and 90 s are 1, 3 and 9), and two jobs suffice to put a short delay behind a long
one. A page of one job makes every deletion shift the walk. Three startup attempts tell the
first, a middle and the last one. Attempts are unbounded in the type and
stay finite because faults do.

Violations. Each states what a document or comment of the repository says and shows it
not to hold (`findings` quotes the line):

* **LostWork** — with two workers and *no fault at all* a job can stay `queued` with no
  message: `handle_failure` publishes the retry copy, stalls for longer than its 10 s TTL, another worker
  completes the job, and the late `record_retry` overwrites it. The README calls
  scale-out of workers safe. (With one worker this is impossible: proved.)
* **CompletedReopened** — a state drawn as terminal is not: a commit that raised after it
  took effect suffices.

Some properties pass in one run and fail in another instance: `NoLostWork` with one worker
and with two. The pair marks the border of what the code guarantees. `DuplicateIsCompleted`
is checked without the three faults that reopen or delete a completed job for the reasons
above and below.

More disagreements have no run of their own, because no property says the opposite of what
the code does:

* storage.service.ts:50 calls the purge at start "safe to clear during init", and README.md:206
  calls a second API instance trivial. In run Service a second process on the volume does
  delete, at its start, uploads the first one is handling; `Hash` and `Promote` then raise, and
  the client gets a 500. What must survive this is checked there with both processes: no row
  without its file, no accepted job without its audio.
* An upload whose publish was taken but whose confirmation was lost is undone
  while a worker may be at it, although transcriptions.service.ts:71 says "Nothing consumed
  yet"; `UnavailableIsUndone` shows that the undo is nevertheless clean, but for a file whose
  unlink failed: the 503 is the same (storage.service.ts:47).
* `GET /health` answers `ok` on a link that is lost until the heartbeat gives it away;
  `ConnectedIsTrue` names that state (`dead`), and nothing is claimed of the probe beyond it.
* main.py:234-239 speaks of exiting when the grace period is over. `run()` does end, but
  `asyncio.run` joins the thread of a pipeline that is still at work (Python 3.11 sets no limit
  to that), so the process stays until the pipeline ends, or SIGKILL after
  `stop_grace_period` (docker-compose.yml:53). `StopHonoured` is therefore about `run()`.

Four more things a reader of the documents would not expect, seen while modelling and
visible in the actions named: a failed job is reopened when a crash between `PublishFailure` and
`SettleFailure` doubled its message (`JobLifecycle!Start` allows it; README.md:76 draws `failed`
as terminal); a corrupted retry header is looked at only after the job was
processed and failed (`MayRetry`; shared/message-schema.md:66-68 says such messages are parked immediately); a
database error in `MarkAttempt` uses up a retry (the reason for Fleet's choice of faults;
message-schema.md:68-69 says it is requeued). And publisher.service.ts:106-108 speaks of a single
reconnect path, although a failing topology set-up leaves two loops running (`SetupFails`, then
`ConnectionCloses`); `ReconnectsBounded` shows that they do not multiply beyond the faults.

## Fairness

* A handler, the broker's delivery and its expiry are weakly fair: an event loop runs what
  is ready, RabbitMQ delivers to a consumer with room and expires by TTL, and
  a pipeline ends because every subprocess has a timeout (ffprobe, ffmpeg) and the
  model's generator is finite.
* `Exit` is fair because the grace period is a timeout, and what the shutdown waits for
  besides it ends too (`StopHonoured`); a thread that outlives `run()` ends with its pipeline
  or by SIGKILL. `Restart` and `ApiStart` are fair by
  assumption on the operation, not by the code: `docker-compose.yml` sets no restart
  policy. README.md's promise that a killed worker's job is reprocessed
  needs it as well. `AcceptedSettles` is therefore relative to it.
* Progress writes, uploads, and all faults are not fair; no property needs them to happen.
* In `Publisher` and `ApiProcess`: timers fire, a dialled connection is answered, an asked-for
  close completes, a lost link is noticed (amqplib and RabbitMQ exchange heartbeats), bootstrap goes on, the database answers a ping and the broker a
  publish, one way or the other. `DialFails`, `SetupFails` and `DbStrike` are faults: "once
  broker and database stay well". A confirmation is fair only while its channel lives;
  that the publish is answered when it dies is the code's doing, and what
  `PublishAnswered` is about.
* In `Startup`: `WF(Run)`, each connection attempt and the closing of a connection ends, one way
  or the other; no attempt need succeed. Two waits of the shutdown have no timeout and end with what others do. The
  cancellation of the consumer (main.py:229) on a lost link needs the link to be restored
  (`WF(RestoreConnection)`), unless it raises (`CancelRaises`, not fair). `pool.close()` (db.py:40)
  needs the statement that holds a connection to end (`WF(EndStatement)`): Postgres answers
  what it was given. A pipeline need never end (`EndPipeline` is not fair).
* `RetryQueue` has no fairness and no liveness; that RabbitMQ acts on an overdue head
  before the next tick is the guard `~Overdue` of `Tick`.
* In `WebClient`: intervals fire, effects run, requests are answered or fail, and the
  server settles its jobs, the last being `AcceptedSettles`. A lost reply is a fault.

## Proofs

All for arbitrary finite or infinite `Jobs`, `Workers`, `Apis`, any `MaxRetries`,
`FullProgress`, delays, environments, chunk lengths, fault kinds and fault budgets; the only assumptions are the named `ASSUME`s
of the modules, which every run evaluates, and those written into a theorem.

| theorem | property | argument |
|---|---|---|
| `WorkerProofs!TypeCorrect` | `TypeOK` | with `HandlerOK`: past parsing, a handler has a usable job id |
| `WorkerProofs!ResultsCoherent` | `ResultCoherent` | `RowStep`: every step leaves a row as it was or applies one of the statements, each of which keeps a row coherent |
| `WorkerProofs!FailedJobsParked` | `FailedIsParked` | `ParkedFirst`: a handler about to record a failure has parked the message; the dead queue only grows |
| `WorkerProofs!WorkersNotWedged` | `NoWedgedWorker` | `EndsDisowned`: whatever ends a handler settles or loses its delivery |
| `LostWorkProofs!SingleWorkerLosesNothing` | `NoLostWork`, one worker | below |
| `WorkerProofs!NoEarlyFailure` | `FailedAfterAllAttempts`, no `db` fault | `MessagesCounted`: no message anywhere claims more retries than its job had attempts; `AttemptCounted`: a handler past `mark_processing` has counted one more |
| `ServiceProofs!ServiceTypeCorrect` | `SystemTypeOK` | the API's steps keep the worker's invariant and vice versa |
| `ServiceProofs!AudioOutlivesRow`, `RefusalIsClean` | `FileOutlivesRow`, `UnavailableIsUndone` | `RequestMade`: where a request is tells what it has made, and of a file that stayed, whether its unlink failed; a worker neither makes nor deletes a row, a purge touches no final file |
| `ServiceProofs!AcceptedStays` | `AcceptedIsDurable`, one worker | the invariant of `NoLostWork` for the jobs in `Published`, below |
| `ServiceProofs!DuplicatesStayCompleted` | `DuplicateIsCompleted`, one worker, harmless faults | `DuplicateInv`, below |
| `ServiceProofs!WalkIsComplete` | `WalkMissesOnlyUndone` | `WalkInv`, below |
| `LostWorkProofs!WorkerImplementsLifecycle` | `ImplementsLifecycle`, one worker that is killed, stopped or refused a publish | `RowAsFound`: with no other writer, what a handler read of its row is still so when it acts |
| `RetryQueueProofs!WaitIsBounded` | `WaitBounded` | `WaitInv`: ages descend along the line, so while the head has not outstayed its delay nobody has outstayed the longest |
| `RetryQueueProofs!NoEarlyReturn` | `BackedOff` | `DelayOfHeader`: each copy's TTL is the table's for its header; only an overdue head leaves |
| `RetryQueueProofs!QueueImplementsBag` | `ImplementsBags` | every operation on the line counts as one on the bag: lemmas on `Append` and `Tail` |
| `ExportProofs!TimestampsAreExact` | `TimestampsExact` | division with remainder, field by field (`EveryTimestampExact`) |
| `ExportProofs!ScratchIsBounded` | `ScratchBounded` | `ScratchInv`: what may be in the directory at each call |
| `ExportProofs!PlansTile` | `ChunksTile` | `ThePlan`: the recursion of `PlanChunks` in closed form, below |
| `ExportProofs!TimelineIsOrdered` | `TimelineOrdered` | `PipelineInv`: the segments merged so far lie before the chunk at work; `RoundedMonotone`: rounding keeps order and bounds |
| `ExportProofs!ProgressIsHonest` | `ProgressHonest` | `ProgressInv`: each report is the rounding of a fraction a step of 1/`ReportSteps` above the last one, so the last has paid for all (`DueArithmetic`); `PercentAhead` and `PercentGrows` say what is left of that after rounding |
| `ExportProofs!SubtitlesAreTrue` | `SubtitlesTrue` | `HearInv`: what was heard is what is merged and, from the chunk's own start, what is found (`OriginIsStart`, `OneMoreShifted`); then `StampIsNear`: rounding moves a time by half a hundredth at most, and a time stamp is exact |
| `PublisherProofs!ConnectedTruly` | `ConnectedIsTrue` | `CallsApart`: a `connect()` under way has a connection nobody else knows |
| `PublisherProofs!SomebodyReconnects` | `NeverAbandoned` | a field is only reset by a close event, which starts a loop, or by a close that will raise one |
| `PublisherProofs!ApiTypeCorrect`, `ApiConnectedTruly` | `ApiTypeOK`; `ConnectedIsTrue` and `NeverAbandoned` for the whole process | requests and bootstrap do not touch the publisher, but for the exit |
| `PublisherProofs!ReconnectionBounded` | `ReconnectsBounded` | `Effort` counts, besides the loops and the loose connections, the loops whose attempt is about to fail (`Doomed`): a fault adds one at most, and the loop that a close event starts has been counted before |
| `StartupProofs!StartupTypeCorrect`, `NobodyRefused`, `RoutedInTime` | `StartupTypeOK`, `NothingRefused`, `Routed` | `TopologyInv`: both sides declare one list in one order, so a side at its n-th declaration has those before it in place, and none contradicts another |
| `StartupProofs!OrderlyRelease` | `ReleasedInOrder` | `Held`: what `run()` holds at each of its awaits |
| `WebClientProofs!PageTypeCorrect`, `LatestIsShown`, `OneOutcome` | `ClientTypeOK`, `ShownIsLatest`, `OneOutcomeShown` | `PageInv`: a reply that says completed is true for good, an upload starts from an empty page, and an error leaves it so |

`NoLostWork` is far from inductive. It may break when a delivery is settled, so
`SafeToSettle` says a handler that is about to settle one it owns has a job at rest, or
another message elsewhere; to get there, `Copied` says that a retry copy is out before the
retry is recorded. A handler whose delivery was taken back must do no harm either:
`DisownedLive` says the broker still has a message of that job. `OwnsOne` and
`OneDelivery` (prefetch 1) exclude a second owner. A retry copy can only
be consumed by another handler, hence the assumption `SingleWorker`:
run LostWork is the counterexample with two.

The invariant is stated for a set K of further jobs that count as accepted (`LostWorkInv(K)`).
With K empty it gives `NoLostWork` and, together with the attempts counted and `RowAsFound`, the
refinement; with K = `Published`, the requests whose message the broker has taken, it
survives the steps of the API and gives `AcceptedIsDurable`. The composition needs one lemma
in each direction: the API only adds messages (`MessagesStay`), and the worker neither makes
nor deletes rows.

`DuplicateIsCompleted` needs that a completed job stays so. A status is written by the
handler of its job only, and `WritesOpenRow` says that a handler about to write found the job
open and still has its delivery: one worker, no lost connection. An undo is the other
threat; `Unheard` says that a request which may still be undone has no message anywhere, so its
job was never run. Both fail with the faults that `HarmlessFaults` leaves out, `disconnect`,
`commitLost` and `lostConfirm`, and with messages that name a job without being the API's: the
theorem assumes a single worker and these four away, and nothing more.

`WalkMissesOnlyUndone` is about the client's position. Counting what it missed by its offset
alone is not inductive: a job inserted or deleted in front shifts every later one. So
`MissedBounded` says it for every cut that rows could make: of any set of newest rows no
larger than the offset, at most as many were missed as rows have been deleted. An insert makes
every such set one larger (`InsertMisses`), a deletion one smaller but pays with one undone
job (`DeleteMisses`), and a page lists the rows between two cuts (`PageMisses`). The client
is done when a page is empty, so all rows lie within its offset. Nothing is assumed: any page size,
any number of workers, processes and faults.

`PlanChunks` is a recursive function over the durations, in steps of `ChunkSec`. Induction over
data is outside the prover's reach as a rule, but a least counterexample exists without it: `LeastNumber`
takes it from the library's theorem that finite sets are well founded under inclusion, applied to the
intervals 0..n. `ClosedPlan` gives every chunk of a plan by its place alone; `ClosedPlanUnfolds` and
`OnePlan` show that it satisfies the recursion and that nothing else does.

Only model-checked: liveness (`AcceptedSettles`, `EventuallyConnected`, `PublishAnswered`,
`EventuallyTrue`, `BusyEnds`, `StopHonoured`), which is outside the prover's reach. Every
invariant, action property and refinement that a passing run checks has its theorem.

## Not modelled

Texts, languages, names, file contents, logging, styling and dragging are left out
everywhere. The time limits of subprocesses, of the grace period and between retries are
left out: a wait takes any time, so safety does not depend on them. `RetryQueue` models the
delays of retries, the only times the documents make a promise about.

* ffmpeg and the model are nondeterministic choices, and the process-wide cache of models
  is left out: the pipeline component is modelled only partly.
* `Readers` takes `created_at` for the order of the inserts: two rows of one instant, or a
  clock set back, are left out.
* `asyncio.run` waits for the pipeline thread of a job cut by the grace period, as `Startup` has
  it; in `Worker` the handler simply ends with its process (`Exit`): what the thread still
  reports finds the pool closed and is logged.
* Closing the connection to RabbitMQ is assumed to end. The progress of a job over several
  attempts starts again with each; `ProgressHonest` is about one attempt. Fractions and times are exact numbers,
  where Python's and JavaScript's are binary: ties of a rounding may go either way.
* The API key guard and the validation of the environment are modelled, as steps every process
  and request passes; they keep no state, and no property is about them.
* A reconnect loop that outlives `onModuleDestroy` leaves its connection open until the process
  ends; nothing catches that.
* A `nack` of a publish by the broker and a missing channel are one fault of `Upload`
  (`noChannel`); both reach the same `catch`.
* A connection that fails after the topology is declared and before the consumer is up ends
  the worker (`LoseConnection`): nothing retries it, and no restart policy restarts it.
* Malformed and unknown messages are modelled; a negative retry header, which neither service
  writes, is not.
* An exception of the repository that `create` does not catch leaves the row or the temp file
  behind and answers 500: modelled as a fault of `Upload`, claimed by no property.
* In `WebClient` a final status is final and the file dialog is modal; a failed job that is
  reopened (`JobLifecycle`) goes unseen by the page, which has stopped polling.
* RabbitMQ's own loss of a persistent message and Postgres's loss of a commit are assumed
  away. A failing progress write is only logged, and is modelled so.

## Plan

1. Done: every module above; a theorem for every safety property of a passing run.
2. Next modules: negative retry headers as another kind of `RetryCount`; a page that watches a
   server whose failed jobs are reopened; several requests at a time in `ApiProcess`.
3. Next proofs: a weaker life cycle that allows a completed job to be reopened, implemented under
   every fault by any number of workers: what is left of the promise then (attempts only grow, a failed job is
   parked and stays so, a result is whole).
