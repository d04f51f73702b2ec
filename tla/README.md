# Flash Crash Watchdog: TLA+ specifications and proofs

The system watches an order book for the onset of a flash crash. A Node service takes
depth and trade messages from Binance, asks a Python sidecar for an anomaly score, falls
back on a heuristic of its own when the sidecar is away, and raises alerts. Alerts go into
a file (the outbox), over socket.io to the browsers that show the dashboard, and from them
into a database. The model the sidecar serves is trained, audited and evaluated by scripts
over recorded days. This directory specifies the parts of all this that are concurrent, keep
state across failures, or count things against limits. Paths below are relative to
`Infosys_Machine_Learning_System_For_Early_Detection_of_Equipment_Failure_Batch-1/`;
`web` stands for `flash-crash-watchdog-web`, `stream` for
`web/mini-services/binance-stream`.

To check a run: `tlc -config Serving.cfg MCServing`; to check the proofs: `tlapm` on
`StreamScoringProofs.tla`, `AlertDeliveryProofs.tla`, `FeedHealthProofs.tla`, `WebApiProofs.tla`,
`ServingProofs.tla`, `StreamingProofs.tla`, `CollectionProofs.tla` and `OfflineProofs.tla`. `PROJECT.json` lists every run, the lines each definition stands for, and
for each property a change to the code that breaks it (its mutated definitions stand next to
the originals, marked "mutant" or "faulty variant", and no specification uses them).

## Inventory

| Part | State it keeps | Operations | Talks to | What makes it hard |
|---|---|---|---|---|
| Detection path (`stream/index.ts`) | `currentScore`, `tcnAvailable`, `tcnFailureCount`, `lastTcnCall`, `lastAlertTime`, watchlist state, timers | a depth message, the sidecar's answer, the abort and retry timers | the sidecar (HTTP), the outbox (calls), dashboards (socket.io) | handlers are not awaited: many are suspended at once; timers outlive what set them |
| Tick batching (`stream/index.ts`) | `tickBuffer`, `lastFlushTs` | a tick is buffered, a batch is cut and sent | the sidecar | requests overlap, fail and overtake each other |
| Sidecar (`web/ml-inference/server.py`, `ml/.../stage3_tcn.py`) | `Stage3TCN._window`, `_norm_hist` | `/score`, `/reset`, `/health` | - | a thread pool, and no lock |
| Outbox (`stream/outbox.ts`) | `alerts.jsonl`, `alerts.delivered.json` | append, pending, markDelivered | - | crashes and short writes between and inside file operations |
| Dashboard (`web/src/app/page.tsx`, `lib/stores.ts`) | alert list, socket | messages `alert`, `outbox-sync`, `correlation-alert`; acknowledgement | the service, the web API | reconnection, several tabs, requests nobody waits for |
| Alert API (`web/src/app/api/alerts`) | the `Alert` table | POST (upsert), GET (pages), status, read, delete | the database | one alert arrives many times |
| Correlation detector (`stream/correlation.ts`) | mids, series, `belowCount`, `lastBin` | update, evaluate | called by the detection path | late symbols and trades out of order |
| Binance feed (`stream/index.ts`, `web/src/app/page.tsx`) | the socket, `lastTickAt`, `isConnected` of each dashboard | reconnect, staleness heartbeat, `status` messages | Binance, dashboards | a feed that dies silently; two connections that fail and return in any order |
| Replay (`stream/replay-service.ts`, `web/src/components/ReplayView.tsx`) | `day`, `index`, `playing`, `speed`, `timer`; points and button of each page | load, play, pause, speed, seek, tick | its pages | one position and one timer shared by all pages, commands on their way |
| Accounts and sessions (`web/src/lib/session.ts`, `api/auth`) | `User`, `Session` tables, cookies | register, login, logout, verify | the database | check-then-act over awaits, requests that are handled at once |
| Rate limiter (`web/src/lib/rate-limit.ts`) | time stamps per IP | check, evict | - | two limits on one bucket, the edge of a sliding window |
| Alert history (`api/alerts` GET) | the reader's cursor | a page | the database | rows that arrive while pages are read |
| Live programs (`ml/.../cli.py live`, `data/live_stream.py`, `scripts/live_demo.py`) | TCN window, normalization history, last book | connect, message, reconnect, stop | Binance, the alert router | what was learnt outlives the connection; a book may lack a side |
| Cascade (`ml/.../models/cascade.py`) | per-stage windows | process a tick through the gates | the router | a gate that starves the alert behind it |
| Alert router (`ml/.../alert/router.py`) | counters, log file | route | six destinations | one of several steps failing |
| Download and conversion scripts (`scripts/download_*.py`, `convert_*.py`) | files under `data/` | fetch, skip, write, convert | web servers, each other's files | runs that are killed, error pages, two scripts in one directory |
| Depth recorders (`scripts/capture_*.py`) | records in memory, a parquet file | receive, save, reconnect, stop | exchanges | saves that fail, Ctrl+C with two recorders in one process |
| Checkpoints (`train_*.py`, `retrain_adopt.py`, `model_manifest.py`, `audit_dataset.py`, start of `server.py`) | `models/*.pt`, `manifest.json` | train, save, write manifest, verify, audit, load | each other's files | saves in place while others read; provenance nobody checks twice |
| Evaluation (`data/labels.py`, `data/windows.py`, `eval/`, backtest scripts) | loops over a day's ticks | label, window, replay, match, score | files | several implementations of one definition |
| Rust proxy (`proxy/`), Python book (`ml/.../lob.py`), features, plots | - | - | - | not modelled, see below |

What makes each part correct:

- *Detection path.* A fallback ends, and in time; a sidecar with three failures against it
  is left alone until a retry; two alerts can be told apart by their key; a score is
  labelled with where it came from.
- *Batching and sidecar.* The window the model scores is a window of the stream: nothing
  twice, nothing missing, never longer than the model was trained on, and never announced
  as full when it is not.
- *Delivery.* An alert that was raised reaches the database, whatever crashes; a torn write
  costs no more than one other alert its line; a dashboard that is connected knows of every alert nobody has taken over yet; "delivered"
  means persisted.
- *Correlation.* What is correlated belongs to the same seconds, an alert needs an
  unbroken stretch of low correlation, and a stretch that is long enough gives one.
- *Feed health.* A dashboard shows "connected" exactly when it hears a service that hears
  Binance, and a feed that goes silent is reported.
- *Replay.* There is one interval while playing and none otherwise; a page shows points of
  one day without a gap; a replay that is left alone ends.
- *Web API.* One registrant of an e-mail gets a session, a revoked session serves nothing
  more, the limiter never counts past its limits, pages lose no alert.
- *Live programs.* A book without a side blinds the detector for the normalization window
  and no longer; an alert is offered to every destination; no exception ends the scoring;
  Ctrl+C ends the program.
- *Data collection.* What is counted as downloaded is on disk, with bytes in it where the script
  looks, good data is never
  overwritten by a bad answer, a parquet file has its archive; a recorder that ends has its
  records on disk.
- *Checkpoints.* The best weights are saved, a leak does not pass the audit (it does, see the runs),
  what serves is what the manifest vouches for.
- *Evaluation.* Labels are descents that happened, windows are labeled by what follows
  them, offline scores are the online ones, and the canonical matching of alerts with
  crashes, and its copies, lose no catch. (The scorers without a grace period do.)

## The modules

| Module | What it models |
|---|---|
| `StreamScoring` | `scoreWithTCN` and the rest of `processStreamMessage` for depth messages |
| `StreamScoringProofs` | theorems about it |
| `AlertLog` | the abstract promise of alert delivery: what was raised gets stored, nothing else does |
| `AlertDelivery` | outbox, service, sockets, dashboards, POST handler and table |
| `AlertDeliveryProofs` | theorems about it |
| `MCAlertDelivery` | its small instances |
| `SidecarWindow` | batching in the service, `/score` and `/reset` in the sidecar, `Stage3TCN.feed` |
| `CorrelationBreakdown` | `correlation.ts` and the trade handler that drives it |
| `WebApi` | register, login, logout, sessions, rate limiter |
| `WebApiProofs` | theorems about it |
| `AlertHistory` | the pages of `GET /api/alerts` |
| `MCServing` | `SidecarWindow`, `CorrelationBreakdown`, `WebApi` or `AlertHistory`, one at a time |
| `ServingProofs` | theorems about its four parts |
| `FeedHealth` | the connection to Binance, the heartbeat, the status dashboards show |
| `FeedHealthProofs` | theorems about it |
| `ReplayService` | `replay-service.ts` and its pages |
| `LiveDetector` | `cli live` (stream, cascade, router) and `live_demo.py` |
| `MCStreaming` | `FeedHealth`, `ReplayService` or `LiveDetector`, one at a time |
| `StreamingProofs` | theorems about its three parts |
| `DatasetFiles` | downloaders and converters over one directory |
| `DepthCapture` | the depth recorders |
| `MCDataCollection` | `DatasetFiles` or `DepthCapture` |
| `CollectionProofs` | theorems about both |
| `Checkpoints` | window builders, trainers, manifest, audit, the sidecar's start |
| `Evaluation` | labels, windows, replays, metrics, batched and online scoring of a day |
| `MCOffline` | `Checkpoints` or `Evaluation` |
| `OfflineProofs` | theorems about both |

### StreamScoring

`onmessage` calls `processStreamMessage` and does not await it. A handler can be
suspended in two places, on the response headers (`waiting`, with the age of each request)
and on the response body (`reading`); whatever it does between two suspensions is one
action. `HeuristicMessage`, `ThrottledMessage` and `RequestMessage` are the three ways
through the head of `scoreWithTCN`; `ResponseHeaders`, `ResponseBody`, `RequestFails` and
`ResponseBodyFails` its continuations; `Finish` is what the caller does with the result, the
alert included. `RetrySidecar` is the 30 s callback. Two requests of one age, and two timers
due at one time, are kept as one: they are sets.

Every reading of the clock is only ever compared with an earlier one, so it is kept as the
time elapsed since, capped at the threshold it is compared with. `clock` is the position
in the 10 s bucket of the dedup key. Timers are taken to fire in the unit they fall due.
Scores are small integers; what the heuristic makes of an order book, and whether the
volatility gate is open, is any value. `scoreIsModel`, `output`, `fallbackAge` and `keyUses`
are history variables.

### AlertLog and AlertDelivery

`log`, `tailOpen` and `delivered` are the two files: a line is an alert or `Torn`, and
`tailOpen` says that the last one lacks its newline, so that the next append runs into it.
`OutboxAppend` has an outcome, the whole line or what a short write leaves of it.
`FireAlert` appends and broadcasts in one task; `CrashWhileFiring` dies in between.
`Connect` replays what `pending` returns; `ReceiveAlerts` posts each alert and
acknowledges a replay at once, as `page.tsx` does. `PostStored` is the upsert; the P2002 branch
(`PostCollides`) can only be reached if the upsert is not atomic, and is enabled by
`UpsertRaces`. `AlertDelivery` maps to `AlertLog` with the keys whose line was written, or
broadcast, as raised, and the keys in the table as stored.

The abstraction: the dashboard's list is not cut at 100 alerts; posts of one alert by one
tab in flight at the same time are one; a restarted container finds its files (`restart:
unless-stopped` restarts the same container; one that is created anew does not, since
`docker-compose.prod.yml` gives the service no volume). Correlation alerts are
broadcast but not appended to the outbox (`index.ts:494`), and so are not part of this
model.

### SidecarWindow

A tick is the number of its arrival; `stamp` keeps its millisecond. `UnsentTick` and
`Request` are the two ways through the throttle; the batch is cut, and `lastFlushTs` moved
on, before the request leaves. In the sidecar each thread goes through `feed` step by step:
the append method is looked up (`FeedBind`), then its argument is computed and the tick appended
(`FeedAppend`), then the length is measured and the list replaced. `holding` is the set of
threads whose append method belongs to the list that is current: a thread outside it
appends to a list nobody will read. `CheckFull` and `ScoreCurrent` are the two readings of
`/score`. The extractor and the normalisation history are not modelled.

### CorrelationBreakdown

An entry of a series is the second it was flushed in. A basket trade records the
anchor first, which flushes the bin if the trade's second differs from the last one, and
then its own symbol. The correlation of long enough series is any of low, high and none. `belowCount`
counts evaluations, one for each trade of the basket, as the code does. `evaluations`, `lowSeconds`,
`lastLow` and `alerted` are history: the property reads from them how many seconds, not only how
many evaluations, have been low.

### WebApi and AlertHistory

A handler is cut at its awaits: `find`, `create` and `sign` of register and login, `verify`
and `serve` of a request under a session, `revoke` of a logout, `answer`. Between two cuts the
others run. A session is a row, its token its place; whether the browser takes the cookie
of an answer is open, since the answer may not arrive. Every await on the database may fail
(`Refuse`, the last disjunct of `VerifySession`, a revocation that changes nothing). All
browsers share one bucket, as they do behind the gateway, and login and alert posts share it,
too, with limits of 10 and 100: `bucket` keeps the ages of the remembered requests. `gone`
remembers whether the session had been revoked when the request came.

In `AlertHistory` a page is any `limit` of the latest rows below the cursor: rows of one
millisecond come in any order. `reader.asks = "more"` stands for a page whose `nextCursor`
is not null.

### FeedHealth

`ws` is `binanceWs`; a closed one waits for its 2 s timer. `silence` and `beat` are times since
`lastTickAt` and the heartbeat. Events reach a tab in order, or are lost with its connection;
the tab's own `disconnect` comes after them. `Opened`, `Closed`, `Connect` and `Heartbeat` send
`status`, with `binanceWs` as it is after the step. The watchlist's and the trade streams'
messages change nothing here: only a depth message of the anchor stamps `lastTickAt`.

### ReplayService

`OnLoad`, `OnPlay`, `OnPause`, `OnSpeed` and `OnSeek` are the handlers, `Tick` what the interval
calls. `timers` counts live intervals, so that one that is not cleared would show. Commands and
events travel in order; a dropped connection loses the events and, or not, the commands
(socket.io buffers what was not sent). A page keeps the day and the last of its points and
whether each followed the one before (`joined`); `moved` marks pages another page has moved,
by a seek or a load, since the last points. With `Others`, commands of further pages come at any
time: pages see one another only through the service.

### LiveDetector

The two programs are loops around a connection: `link` is where the loop is. A book is
`book` or, when a side is missing, `gap`: the micro price is `None`, which `numpy` reads as NaN in
`cli live` (the normalized feature is 0 while the gap is in the history) and which raises
in `live_demo.py` when the tensor is built, after the window has moved on. `Stage4Passes` is the
cross-symbol stage, with and without a correlation module. `AppendLog` and `Deliver` are the
steps of `route`, one destination after the other; a log that cannot be written raises out
of `process_tick` into the loop. Stages 1 and 2 veto nothing here and give scores only; scores
and the posterior are open.

### DatasetFiles and DepthCapture

A script is a list of categories, a category a set of jobs, a job a list of attempts.
`Helper` says what a download function does: what it skips, which answers it writes, whether
the body is in memory before the file is opened, where its errors go. The tables of the nine
scripts are operators named after their functions. `OpenFile` truncates and `Written` fills,
so that a kill or a failed write falls in between. Of the answers, `"nothing"` is a 200 with an empty
body, which helpers that do not look at it write and count; a file can then be whole and empty
(`"nothing"`) or torn and empty (`"empty"`), and the next run treats both alike (`HasBytes`).
`WaitsWithoutTimeout` are the two places where a script waits for ever if it is not answered.

A recorder runs alone between two awaits, so an iteration of its loop is a step: `Receive`
or `Timeout` with the save, if one is due. `GatherCancels` is what `asyncio.gather` does to the
second recorder when the first one's last save raises, `handler` the recorder whose signal
handler was installed last.

### Checkpoints

A checkpoint is what went into it: days, labels, stamp, and the random numbers of its training
(`draw`). A hash is the checkpoint itself. `retrain_adopt.py`, `finetune_luna.py` and
`train_magnitude.py` fix their seeds, so the same windows give the same file again; `train_gpu.py`,
`train_models.py` and `train_tcn.py` set none, so each of their runs gives another (`Unseeded`).
`TrainTcnWindows` is empty: `main` of `train_tcn_windows.py` imports `load_windows` on a branch (line 286),
which makes the name local to it, and calls it before (line 267), so it always raises
`UnboundLocalError`. Its `train_tcn` is what `retrain_adopt.py` trains with, and is modelled.
`Trainings` lists what each trainer may produce: where it saves, what it stamps, which epoch
it keeps. `OpenCheckpoint` and `Save`, `OpenManifest` and `WriteManifest` are the two halves of
writes in place. The server imports, checks the hash and loads in three steps, and reads
the file twice.

### Evaluation

A day grows by a tick; the loops over ticks (`LabelCrashes`, `Replay`, `RunBaselineBacktest`,
`Stage3Feed`) advance together, and what is computed afterwards is an operator of the day so
far: every prefix of a day is a day. `Claim`, `RunBacktest` and `Evaluate` are the different ways in
which the scripts match alerts with crashes, `LabelWindows`, `BuildCorrectedWindows`,
`BuildWindows` and `BuildFromParquet` those in which they label windows. A normalized row is the
row, the first row of the history that normalizes it, and whether a feature of it is blinded by a
book without a side in that history (`blind`). Such a book is a mid of 0: the stream goes on with it,
the scripts that make a feature matrix raise (`Scorable`, `OfDay`), and `extract_windows.py`,
`extract_windows_contiguous.py` and `windows.py` take it for a price of 0 and label a crash (`Falls`).
The two builders that count ticks have a lookahead each, a parameter of theirs (50 and 500 unless
told otherwise), and `BuildCorrectedWindows` labels the windows of a `--normal` day 0. Ticks may share a time stamp, so
`Descent` names the ticks an event goes from and to, not only their times: between the times of
two ticks others can lie that belong to what came before or comes after the descent.
`Replay` keeps the alerts that its cooldown lets through, `Fire` every one, for the scripts that have no
cooldown. Both keep them in order of time, so the `sorted` of `metrics.py` changes nothing and is left out.

## What the runs show

| Run | Result | Shows |
|---|---|---|
| `stream_scoring` | holds | `TypeOK`, `OneAlertPerDedupKey`, `FallbackBounded`, `AvailableBelowLimit`, `FallbackEnds` |
| `tcn_label` | violated | `TcnLabelIsHonest`, the comment at `index.ts:262-265` |
| `delivery_faults` | holds | `TypeOK`, `NothingMissed`, `AckedIsStoredOrPosted`, `TornTailsSwallowOne` under every kind of fault |
| `delivery_promise` | holds | `ImplementsAlertLog` while no post fails, no tab closes, no write tears |
| `delivery_ack` | violated | `DeliveredIsPersisted`, `outbox.ts:5-10`, `page.tsx:164-166` |
| `serving` | holds | `TypesOK`; the window: `NoTickTwice`, `ReadyIsFullUnlessReset`; the detector: `SeriesAligned`, `SustainedLowAlerts`; the API: `SessionsAreSound`, `PagesLoseNothing` |
| `streaming` | holds | `TypesOK`; the feed: `ShowsTheFeed`, `SilenceIsReported`; the replay: `ViewContinues`, `ReplayEnds`; the live programs: `BlindOnlyWhileRecent`, `EveryChannelIsTried`, `EnabledStage4NeverAlerts`, `KeepsScoring`, `StopEnds` |
| `replay_button` | violated | `ButtonIsHonest`, the protocol comment at `replay-service.ts:9` |
| `data_collection` | holds | `TypeOK`; scripts: `FilesAreSound`, `KeptOnceWritten`; recorders: `RecordsAreKept`; both: `RunsEnd` |
| `offline` | holds | `TypeOK`; checkpoints: `SavedIsBest`, `ServedIsVouchedFor`; evaluation: `DetectedDropsAreReal`, `CountsAreRight`, `OfflineMatchesOnline`, `LabelsLookAhead` |
| `audit_leak` | violated | `AuditOkMeansNoLeak`, the message at `audit_dataset.py:82` |
| `window_horizon` | violated | `CoveredWindowsAreKept`, `extract_windows.py:91-92`, `windows.py:100` |

A violated run checks one sentence of the code's documentation against what the code does;
`PROJECT.json` quotes both under `findings`.

`serving`, `streaming`, `data_collection` and `offline` each put components side by side that share
no state, and a behaviour has one of them at work: interleaving them would multiply the states
and show nothing, since no action of one reads what another writes. Components that do
interact are composed within one module: service, outbox, tabs and table in `AlertDelivery`,
service and sidecar in `SidecarWindow`, service and pages in `FeedHealth` and `ReplayService`,
stream, cascade and router in `LiveDetector`, scripts over one directory in `DatasetFiles`,
trainer, manifest and server in `Checkpoints`.

What the code does that a reader may not expect, and the models confirm:

- `EnabledStage4NeverAlerts`: the cross-symbol stage, on unless the configuration says
  otherwise, needs two symbols, and `cli live` watches one: it vetoes every alert.
- A feed that has brought no tick since the service started is never reported stale
  (`Heartbeat`), and a socket that stays open in silence is reported but never replaced.
- With both exchanges recorded in one process, Ctrl+C reaches only the recorder started last
  (`InterruptEnds` speaks of the one it reaches).
- A torn file that has bytes is taken for a finished download for good (`KeptOnceWritten`).
- Pages skip alerts that share the millisecond of a page's last (`Cut` in `PagesLoseNothing`).
- Login is measured by a bucket that alert posts fill (`bucket`): an outbox that catches up
  locks out whoever logs in.
- A correlation alert is to come after `sustain` seconds below the floor (`correlation.ts:7-8`,
  `CORR_SUSTAIN_S` at `index.ts:98`, and `sustain_s` in `ml/.../features/correlation.py:36,125-127`). What
  is counted is evaluations (`correlation.ts:99`), one for each trade of the basket: sixty trades in one second
  are enough. `SustainedLowAlerts` says what is left of the promise: nothing but low
  results behind an alert, and an alert no later than after that many seconds of them.
- Two rows for one alert: an upsert that loses a race (`route.ts:107-112`) stores the alert a
  second time, under a suffixed key (`PostCollides`). `delivery_faults` reaches it; no property forbids it.
- A 200 with an empty body is written and counted as a download by `download_everything.py:40-45`,
  `download_fixed.py:32-37` and `download_extended.py:35-40` (`CountedIsOnDisk`).
- A run of `download_binance.py` may wait for ever for `urlretrieve` (line 24), and one of
  `download_fixed.py` for the `pip` that installs yfinance (line 196): neither has a timeout. `RunsEnd` excepts
  these two (`WaitsWithoutTimeout`) and nothing else.
- `train_tcn_windows.py`, the one trainer that would stamp `input_files`, the key the audit reads,
  never gets as far as training (line 267): of no checkpoint a script saves can the audit find the
  held-out days in its stamp.
- A day with a book that lacks a side cannot be scored in a batch, while three window builders label a
  crash there (`WallClockLabels`); the windows of a `--normal` day are labeled 0 whatever happens in them
  (`retrain_adopt.py:125`).
- The scorers without a grace period (`RunBacktest`, `Evaluate`) lose catches the canonical matching
  has; `MatchersAgree` says when they do not.
- A checkpoint saved between the sidecar's check and its load is served unchecked (`raced`).
- An unreadable `.env` ends the sidecar's import in a `NameError` (`LoadDotenv`,
  `server.py:88`).

### Bounds

Every invariant and action property that holds in these runs is also proved without the bounds
(see "What is proved").

- *StreamScoring*: the unit of time is the 500 ms throttle. The real intervals are 1, 4,
  60 and 20 units; the runs use 1, 2, 3 and 2, which keeps their order and the equality of cooldown and bucket, on which `OneAlertPerDedupKey`
  depends. The limit of three failures is the real one. Two responses may be read at once:
  enough for one answer to come between the request and the answer of another.
- *AlertDelivery*: two alerts, two tabs, three faults. Two alerts are needed for one to run
  into the other's torn line, two tabs for a broadcast to meet a replay, three faults for
  a crash to follow a torn write and a lost acknowledgement. `delivery_promise` uses two
  users, so that a row of one does not hide a missing row of the other.
- *SidecarWindow*: a window of two, batches of two out of a buffer of three, five ticks,
  two threads, three requests at once. A tick can be dropped by the buffer, by the batch
  and by the window, and both threads can be anywhere in their batch.
- *CorrelationBreakdown*: five seconds, windows of three bins, a sustain count of two,
  trades up to one second late: the series are shortened and every symbol can join late.
- *WebApi*: one e-mail, one browser, two requests at once, two sessions, limits of one and
  two in a window of two units. Two requests are what a race takes (two registrations, a
  request and a logout); a second e-mail or browser shares only the bucket, which is shared
  already. The theorems hold for any number of each.
- *AlertHistory*: four alerts in three milliseconds, pages of one and two, every choice of
  symbols: a page can end within a millisecond, and alerts come between any two pages.
- *FeedHealth*: one tab (tabs do not see one another; `DashboardsShowTheFeed` is proved for any
  number), three messages on their way; silence and heartbeat keep the ratio of 15 s to 5 s.
- *ReplayService*: one page and any number of others, days of two points (three in
  `replay_button`), speeds one and two, two commands and two events on their way: a tick can
  end a day exactly or overshoot, and a command can meet an event.
- *LiveDetector*: a window of two ticks, a normalization history of three, every message
  kind, configuration and program. A gap can be in the history and no longer in the window.
- *DatasetFiles*: one symbol, one date, two URL patterns, one kill or failed write, and all
  plans that run a category twice, mix the scripts that share a directory, or download and
  convert twice (`Plans`). Files of different names never meet, so one name is enough.
- *DepthCapture*: one recorder, and two in one process; two records, one failed save.
- *Checkpoints*: two days, one with a crash and one held out, two epochs, two losses and NaN,
  two training runs next to the shipped checkpoint. One is what a save needs to race with
  the manifest and with the server; with two, a trainer without a seed can replace its own
  file by another of the same windows. Two days are what a mix of input files needs.
- *Evaluation*: days of five ticks over prices at, just above and below the thresholds of 2 %
  and 1 %, with missing sides, equal and spread time stamps; windows of two ticks, three for
  the normalization, two units of lookahead by the clock and every pair of
  lookaheads in ticks up to the length of the day. Two crashes and three alerts fit in a day.

### Deadlock

`StreamScoring` never stops: time always passes. The others are bounded (alerts that are all
fired and handled, ticks that have run out, a plan whose runs are over) or really end (a
live program that was stopped), so deadlock is not checked there.

### Fairness

- *StreamScoring*: time passes, the retry callback runs when it is due, and so does the
  abort (`setTimeout`). No message need come and the sidecar need not answer.
- *AlertDelivery*: the container is restarted (`docker-compose.prod.yml:44`); an open tab
  reconnects (socket.io tries ten times, `page.tsx:36`, for some 40 s: the service is taken
  to be back by then or the page to be reloaded); a live socket delivers; a request
  that is not refused reaches its handler. No alert need be fired, no fault need happen.
- *FeedHealth*: time passes, a tab handles what it has received, and the heartbeat beats
  (`setInterval`): strongly fair, only because `MaxInTransit` may hold it back again and again. Nothing
  makes Binance accept a connection or send.
- *ReplayService*: the interval fires, strongly fair for the same reason, and pages handle
  their events. Nobody need send a command; `ReplayEnds` is about replays left alone.
- *LiveDetector*: `asyncio` wakes what sleeps; a delivery ends by its timeout; a cancellation
  and a cleared `running` are noticed in the end although messages that are there already go first
  (`Cancelled`, `Break`: strong, because the loop leaves and re-enters the states in which they are
  possible). That Binance now and then accepts a connection and sends a depth update with two
  sides (`Connect`, `ParseDepth`, `DemoMessage`) is assumed of the world, and used by `KeepsScoring` alone.
- *DatasetFiles*: a running script goes on wherever it waits for nothing or with a timeout
  (`Advance`); in the two waits without one (`WaitsWithoutTimeout`) it need not. *DepthCapture*: the event loop gives each recorder its turns.
- *SidecarWindow*, *CorrelationBreakdown*, *WebApi*, *AlertHistory*, *Checkpoints* and
  *Evaluation* state safety only and need none.

## What is proved

`StreamScoringProofs` proves, for every throttle, abort, fallback and cooldown interval,
every failure limit, every watchlist and any number of responses being read:

- `TypeCorrect`: `Spec => []TypeOK`;
- `DedupKeysDistinct`: `Spec => []OneAlertPerDedupKey`;
- `FallbackIsBounded`: `Spec => []FallbackBounded`;
- `SidecarAskedBelowLimit`: `Spec => []AvailableBelowLimit`.

The assumptions are the ones `StreamScoring` names. `BucketAssumption` is the one that
matters: the bucket is at most one unit longer than the cooldown, because the code compares
with `>`.

The invariants are not inductive by themselves, so they are proved from `IInv`, which adds
two facts. `UsedKeyIsRecent`: while the current bucket's key of a symbol is used, the
alert that used it is no older than the bucket. An alert then needs a cooldown longer than
the time since the bucket began, which there is none of. `AvailableHasNoFallbackAge`: the
age of a fallback is zero while there is none, so the timer set by the failure that begins
one is in time for it; a later failure only adds timers, and a timer that fires ends the
fallback.

`AlertDeliveryProofs` proves, for any alerts, keys, dashboards and users, any bound on the
faults and every combination of the kinds of fault:

- `TypeCorrect`: `Spec => []TypeOK`;
- `DashboardsMissNothing`: `Spec => []NothingMissed`;
- `AckedNotForgotten`: `Spec => []AckedIsStoredOrPosted`;
- `AtMostOneSwallowed`: `Spec => []TornTailsSwallowOne`: the whole lines that cannot be read back are
  no more than the appends that were cut short;
- `DeliverySafe`: `Spec => Log!LogSafety`. The faults that `delivery_promise` excludes are
  admitted here: they can keep an alert from being stored, never store what was not raised;
- `RaisedNotForgotten`: `Spec => []NothingForgotten`, what the liveness of `ImplementsAlertLog`
  rests on. Until an append is cut short (`Whole`: none can be, or there was no fault yet), an
  announced alert has had a post, or it is pending and on its way to every dashboard that is
  connected. So there is always a step left that fairness promises: the next connection, the
  delivery, or the post. When an append has been cut short, this is false, and the alert may be lost.

The assumptions are the ones `AlertDelivery` names, which only give the constants their types.
Each property has an invariant of its own, next to the types (`TypeInv`: also a file with
an open tail has a line, and the table is finite). `MissedInv` adds that what is withheld
from a replay was acknowledged. `AckInv` adds the acknowledgements still on their way: their
alerts, too, are stored, posted or lost, so `markDelivered` may take them over. `KnownInv`
follows an alert the other way, from the outbox over messages to posts: nothing but
announced alerts is in any of them, so every stored key was raised. `SwallowInv` keeps the swallowed lines
  strictly fewer than the broken appends while the tail is open, which leaves room for the line that
  runs into it; the append after that finds the tail closed. `NothingForgotten` follows from
four of these invariants at once: the outbox has what was announced (`KeptInv`), what is delivered was
acknowledged and so posted (`MissedInv`, `AckInv`), a tab that has seen an alert has posted it
(`SeenInv`), and what a connected tab has neither seen nor is being sent it would have missed.

`FeedHealthProofs` proves `DashboardsShowTheFeed`: `Spec => []ShowsTheFeed`, for any number of
tabs, of messages on their way and of failures of either connection, and any times. The
property speaks of tabs that have handled everything; the invariant speaks of the others: the last
event on its way to a tab, or what it shows if there is none, says what is the case.
Each step that changes the case sends a last event that says so. `FeedTypesHold` adds the types and
the bounds of times and queues, for times and a bound on events that are natural numbers (`Bounds`).

`WebApiProofs` proves `SessionsHold`: `Spec => []SessionsAreSound`, for any e-mails, browsers, handlers
and limits, assuming that `MaxSessions` is a natural number. Its invariant follows a registrant
from the row it creates to its session: the e-mail of one that is about to sign has a row and no
registrant's session yet, and two that are about to sign have different e-mails, so the
unique key alone decides. A session that was revoked stays revoked, so a request that found it so
on its arrival finds no valid row when it is verified. `ApiTypesHold` adds the limiter: its bucket
is kept oldest first and holds no more than the larger limit, and what is recent is the end of it
(`RecentIsRecent`), so to drop what is old is to drop a beginning.

`ServingProofs` proves what the run `serving` checks, of `SpecOfOne`:

- `ServingTypesHold`: `[]TypesOK`;
- `TicksAreFedOnce`: `[]NoTickTwice`;
- `ReadyIsFull`: `[]ReadyIsFullUnlessReset`;
- `SeriesAreAligned`: `[]SeriesAligned`;
- `SustainedLowsAlert`: `[]SustainedLowAlerts`;
- `PagesAreComplete`: `[]PagesLoseNothing`.

Threads, requests, ticks, symbols, series, alerts and pages may be as many as one likes. The
assumptions give the constants their types, and ask that sizes and limits are positive, that
threads are finitely many, that the clock can pass the throttle, and that the anchor is not one of
its basket. The four parts have an invariant each.

- *Window* (`WindowInv`): a tick that was sent is in one place (`OnePlace`), a batch on its way,
  the batch of one thread, or the window; and all that was sent is no younger than `lastFlushTs`.
  A batch takes what is younger than that, so nothing is sent again; a thread whose list
  was replaced appends where nobody reads, which loses ticks and repeats none. That the batch is what
  is new, though it is cut where new ticks begin, is `BatchIsNew`. For `ReadyIsFull` a thread between the two
  readings of `/score` finds the window full unless a reset interrupted it (`StaysFull`): a
  trim leaves `MaxWindow` ticks, and nothing else takes ticks away.
- *Correlation* (`CorrelationInv`): the property is inductive for the series; `LowRun` says that the
  last `belowCount` evaluations were low, `LowSoFar` that while the count is short of `SustainBins` it is
  no less than the seconds that have been low, so when the seconds are enough, the count is.
- *Accounts* (`IInv`, `Limiter`): as in `WebApiProofs`.
- *History* (`HistoryInv`): while a reader has more to ask for, each alert of the list it opened is
  accounted for: on a page, cut off by one, below the cursor, or at the edge of the last page, of the
  time of its last row and not on it. The next page turns the edge into a cut.

`StreamingProofs` proves the invariants of the run `streaming`, of `SpecOfOne` (those of the feed come
from `FeedHealthProofs`), and what its liveness properties rest on.

- `StreamingTypesHold`: `[]TypesOK`;
- `PagesShowJoinedPoints`: `[]ViewContinues`;
- `BlindnessEnds`: `[]BlindOnlyWhileRecent`;
- `RouterTriesAll`: `[]EveryChannelIsTried`;
- `OneSymbolNeverAlerts`: `[]EnabledStage4NeverAlerts`;
- `ReportsComeCloser`: `ReportAdvances`, for `SilenceIsReported`;
- `ReplaysComeCloser`: `ReplayAdvances`, for `ReplayEnds`;
- `LiveStopsComeCloser` and `RoutingsEnd`: `StopAdvances` and `RoutingAdvances`, for `StopEnds`;
- `ScoringComesCloser`: `ScoringAdvances`, for `KeepsScoring`.

They hold for any pages, days, points, speeds, windows and bounds on what is on its way.
`LiveAssumption` is the one that says something: a normalization window has at least two ticks,
since one tick has no deviation from itself. `ReplayInv` runs through the events on their way to
a page, as the page will: one after the other they lead it from the points it shows, over joined
points, to those the service is at, unless another page has moved it since (`Led`). `TicksInv` ties what `cli live`
counts to what it remembers: its history ends with the `seen` ticks that came after the last gap, so
a window of blind rows has a gap in its history. `RouteInv`: what is configured and not yet offered
an alert is pending, unless the log raised. `Stage4Inv`: one symbol is all the detector has seen.

The last five are action properties, each the argument of a liveness property but for fairness: there
is something that only gets smaller, and every occurrence of the step that fairness promises makes
it smaller. What gets smaller is the place of a report among the events on their way to a tab, the points that a replay
has left, the steps a stopped program has left (`StepsLeft`), the destinations of a routing, and
for scoring the room in the window, then the places of its gaps. That nothing makes it larger is where the hazards are: a
connection that closes, a `stop()` while an alert is routed, an event that overtakes another.

`CollectionProofs` proves what the run `data_collection` checks but liveness, and what that rests
on, of `Spec`:

- `CollectionTypesHold`: `[]TypeOK`;
- `FilesStaySound`: `[]FilesAreSound`;
- `DownloadsAreKept`: `KeptOnceWritten`, the action property;
- `RecordsStay`: `[]RecordsAreKept`;
- `RunsComeCloser`: `RunsAdvance`, for `RunsEnd` of the scripts: a step of a run ends it, or there are fewer
  categories, jobs or attempts to come, in this order, or the attempt has got on (`ComesCloser`);
- `StopsComeCloser`: `StopsAdvance`, for `RunsEnd` of the recorders: one whose time is up, or that an interrupt has
  reached, has at most four turns left, fewer with each, and nothing another recorder does adds any;
- `CollectionInvariant`: `[]AllInv`, the inductive invariant they follow from.

Symbols, dates, URL patterns, faults, records and failures may be as many as one likes; the scripts and plans are
those of the modules, and `Plans` enters only through the scripts that occur in it.
`DatasetInv` looks ahead. What is counted stays on disk because nothing a script still has to do
makes the same file anew, and that has to be known of the jobs to come: `Work` says it of
the categories, the jobs and the attempts before a run, and it is shown of the job table of every script. A
category is of one of two kinds: `Plain`, of helpers that skip what they find, or `Rewriting`, of
helpers that always write, each to a file of its own. A category that is not selected has no jobs.
`WritingInv` adds that a file being written is empty until it is whole, and that what is converted is
a complete archive. `CaptureInv` says of each recorder that its file starts its
records (or is torn, after a failed save or a crash) and that nothing is saved before there is a record.
`StopInv` adds, for `StopsComeCloser`, that a recorder which an interrupt has reached began before it, so its beginning
cannot set `running` again.

`OfflineProofs` proves the invariants of the run `offline`, of `Spec`:

- `OfflineTypesHold`: `[]TypeOK`;
- `BestIsSaved`: `[]SavedIsBest`;
- `ServedWasListed`: `[]ServedIsVouchedFor`;
- `LabeledDropsAreReal`: `[]DetectedDropsAreReal`;
- `CatchesAreCounted`: `[]CountsAreRight`;
- `BatchedScoresAreOnline`: `[]OfflineMatchesOnline`;
- `LabelsSayWhatFollows`: `[]LabelsLookAhead`;
- `OfflineInvariant`: `[]OfflineInv`, the inductive invariant.

Days, epochs, training runs, thresholds, horizons, grace, cooldown, windows and the length of a day are any; crash days are days, and windows are
not empty (`OfflineAssumption`). Of the ticks in `Kinds` only their types are used (`KindsAreTicks`).

- *Checkpoints* (`CheckpointsInv`): every checkpoint, in the store or about to be saved, is
  well formed and made of days there are (`Sane`). `BestInv` follows the comparison of losses through NaN. `Vouched`: between check and load the file is
  the one that was listed, unless it was saved meanwhile. A manifest that has been verified matches the
  files, because saving undoes `verified`.
- *Evaluation* (`EvaluationInv`): each conjunct says what a loop has found after `N` ticks.
  `SwingInv` names the tick of the peak, and the lowest one since, of the descent that is going on; before
  there is one, no price since the peak was a crash below it (`Steady`), which makes the first one that is
  the start of the event. `CrashesInv` has for each event the two ticks of its `Descent` and between events the
  recovery. `WindowInv` gives history, window and scores of the stream as functions of `N`, which are
  those of the batch on a day without a gap: a row is blind exactly if a gap lies between it and the row its
  history begins with.
- *Metrics* (`CountsHold`): the canonical matching is a fold, which the prover cannot evaluate; that it is the
  last of a sequence of sets of claimed events, each got from the one before by `Claim`, is shown by the
  least place at which it would fail (`FoldExists`, `ClaimsExist`). Events do not overlap and alerts come in
  order of time, so an alert that is near two events is near those between (`NearLater`, `NearEarlier`, `NearBetween`). That no assignment
  catches more is half of Hall's theorem, for this greedy choice: claims are no more than what can be caught, since each has an alert of its
  own; and around the places that are linked to an unclaimed event (`Short`) every alert is spent on one of
  them, so nothing could catch more there (`ClaimsAreMost`). When no alert is early, ambiguous or repeated, hits and
  claims correspond one to one, and all metrics agree (`CountsAgree`).

Two things about the models came out of these proofs. `LabelsAreDescents` used to speak of the ticks
between the times of an event; with several ticks at one time that is false of days longer than the
run's, and it is about the ticks from the highest to the lowest now. And two alternatives
of `Restore` and `ServerImports` overlapped, where the order of the code's conditions decides.

## What is only model-checked

- Liveness (`FallbackEnds`, the liveness half of `ImplementsAlertLog`, `SilenceIsReported`, `ReplayEnds`,
  `KeepsScoring`, `StopEnds`, `RunsEnd`) is out of the prover's reach: it has no rule for fairness. What is proved
  is the part of each argument that is about single steps: `FallbackIsBounded` (the timer of a fallback is in
  time), `RaisedNotForgotten`, and the theorems on progress of `StreamingProofs` and `CollectionProofs`. What
  is left to the model checker is that the promised steps are possible when they are needed, and so are taken.
- That each `violation` run finds its sentence of the documentation broken is a fact about that instance.

## What is not modelled

- The numerics (features, the TCN, the heuristic, Pearson's correlation, losses, calibration)
  are real-valued and appear as open choices.
- An e-mail's headers are built outside the `try` of `_deliver_email` (`router.py:184-194`): a value that
  `EmailMessage` refuses, such as a line break in a symbol, or an address with one, would raise out of `route`
  into the loop of the live program. E-mail is the last destination, so the others have been offered the alert;
  `Deliver` has the failures inside the `try`.
- `model_manifest.py` and the trainers are the only writers of `models/` that are modelled; files copied there by
  hand are not.
- Notifications of the stream service to Slack, PagerDuty, webhooks and Telegram are sent and
  forgotten and change no state.
- The status of an alert and its read marks: PATCH, bulk status, DELETE and POST of the
  marks each write one column of the rows they select. (The marks are set by time: an
  alert stored while the list is open is marked, too.)
- The Rust proxy (`proxy/`): nobody receives what it publishes, which it logs, and on the
  endpoint it opens no message has the `stream` field it waits for.
- The Python order book (`lob.py`): only its tests use it; the live stream takes whole books.
- Plots, reports and one-off scripts, which read files and compute numbers; the rendering of
  the dashboard (its socket handlers are modelled); deployment and tests, which are read as
  evidence. The progress bar of a replay is among the rendering: `replay:state` carries no
  total, so it has none to show.

## Plan

Done, in this order: `StreamScoring`, `AlertLog` and `AlertDelivery`, with their proofs;
`SidecarWindow`; `CorrelationBreakdown`; `DatasetFiles` and `DepthCapture`; `Evaluation` and
`Checkpoints`; `LiveDetector` (cascade and router included); `ReplayService`; `FeedHealth` and `WebApi`, with
proofs; `AlertHistory`.

Then, with no change to what is modelled, the theorems about every other part: `ServingProofs`,
`StreamingProofs`, `CollectionProofs` and `OfflineProofs`.

The proofs then went on to `CountsAreRight` and to the steps that the liveness properties rest on, and to what the
models then said more exactly: empty answers, waits without a timeout, trainers without a seed, days with a gap,
lookaheads of their own.

Left: an abstract player that `ReplayService` implements, with one position, one day, points in order.
