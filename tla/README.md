# DSRFQ: verification project

DSRFQ turns uploaded drawings into quotations. A web application (C# and
TypeScript, `DSRFQ.Web/`) queues parts and shows their results; a separate
consumer process (the RFQ consumer, in another repository) takes them through
three stages: drawing conversion and OCR, costing, ballooning. These modules
model the parts of DSRFQ where processes meet: the queue between the web
application and the consumer, the drawing editor that edits balloons while
recognition replaces them in the database, the numbers those balloons carry, the
quote that several workspaces and the costing run write, and the page of cards
that tells the operator how far each part is.

Paths below are relative to the repository; `Modules/` stands for
`DSRFQ.Web/Modules/`, `scripts/` for `.mssql-scripts/`.

## 1. Inventory

| Component | State | Operations | Where it is hard | Modelled |
|---|---|---|---|---|
| Admission queue (`Modules/Costing/CostingPartQueue`) | `dbo.CostingPartQueue`: one row per job, with status, priority, attempt, worker | Enqueue, Cancel, Release, Move up, Retry; Position | handlers read, then write by id, without locks; the consumer writes the same rows | `CostingPipeline`, `JobLifecycle` |
| Re-run (`CostingPartsEndpoint.cs`) | the four status columns of `dbo.CostingParts`, the stage's output | Rerun: test, clear, reset, enqueue, publish | the message leaves before the transaction commits; page scopes | `CostingPipeline`, `BallooningEditor`, `Quote` |
| Upload (`ApiController.cs`, `DrawingImportDialog.ts`) | `RequestedStages` | `/UploadDrawing`: skip, enqueue the first stage, publish | the same; a stage nobody ticked must stay out of every hand-off | `CostingPipeline` |
| RFQ consumer (external) | worker threads, lanes with a capacity, worker id | receive, claim, run, hand on, close, reap, recover orphans | crashes, reconnects, redelivery, threads nobody can stop | `CostingPipeline`, from the SQL and checks in `scripts/` |
| Drawing editor (`BallooningWidget.ts`, `BallooningDatabaseService.ts`) | a copy of the balloons, removed balloons, masks, areas; the dirty flag | edit, save (dozens of requests), Auto Balloon, live reload | every `await` lets an edit, a run or a reload in | `BallooningEditor` |
| Undo history (`BallooningEditing.ts`) | two stacks of snapshots | record, undo, redo, reset | what a snapshot brings back must still match the rows | `BallooningEditor` |
| Balloon numbering (`BallooningEditing.ts`, `BallooningRegions.ts`, `BallooningWidget.ts`) and the script `fix_continuous_balloon_numbers.py` | number and sub-number of each balloon | draw, delete, move, sub-number, restore, renumber; number through; type a sub-number or a category, filter out, clear a page | several gaps at once; a child knows its parent by number only; some edits take no care of numbers at all | `BalloonNumbering` |
| Quote: machine options and material (`CostingPartMachineOptionsEndpoint.cs`, `CostingPartsEndpoint.cs`, `CostingWorkspace.ts`) | cost lines, machine options, the part's material | Build, Apply, ApplyMaterial, Re-run of the costing | check-then-act on the same lines from several windows and a costing run; row locks taken in two orders | `Quote` |
| Parts grid (`CostingPartsGrid.tsx`) | the rows on screen, a timer per row | progress messages, poll, re-run, reload | answers out of order, lost messages, a poll with a limit | `PartsGrid` |
| Settings store (`BallooningSettingsStore.ts`) | a settings row, `localStorage`, a cache | hydrate, seed, save | two browsers seeding one row | no |
| Service health | last state and an hour of samples per service | probe | under a lock; little to go wrong | no |
| Tolerances, fields, symbols, dimension filter, grid, view links | none, or one page's geometry | parsing, geometry | nothing concurrent; covered by unit tests | no |
| Exports, region recognition | none | formatting; one engine call | no state | no |
| Row conventions, tenancy | `IsActive` (1, 0, -1), company of a row | framework behaviours | - | `IsActive` only |
| Wallet, companies, membership, administration, master data | framework records | list, create, update, delete | outside the costing core; not surveyed in depth | no |

Interactions. Web handlers and the consumer share the database; a web handler's
writes commit together, the consumer commits statement by statement. The web
application sends RabbitMQ messages to the consumer (three queues, plus
`RetryOcr`); the consumer answers over MQTT with progress messages, which the
browser treats as a hint to read again.

What makes each correct:

* queue: one active job per part and lane; the row shown first is served first,
  unless a request is changing it;
  closed rows stay closed; every job ends; the row and its message agree;
* consumer: no row, and no part and lane, has two threads; a crash loses no job;
* re-run and hand-off: output that was cleared comes back, once; a stage that was
  ticked ends, one that was not starts only where the list could not be read;
* numbering: the edits that renumber keep numbers distinct and in order, and
  families together, on every sheet that is so;
* quote: what is marked selected is what the line is priced on; a priced material
  line is the only one and of the part's material; what people typed in survives;
* grid: a card does not say In Progress for ever;
* editor: a save that succeeds leaves the database equal to the sheet; nothing
  the operator can undo to has lost track of a stored balloon; new balloons
  reach the screen; unsaved work is not overwritten.

## 2. Modules and the code

### CostingPipeline

One variable per shared thing: `jobs` (the table, by ID: a later ID was queued
later), `cols` (status columns), `broker` (RabbitMQ queues), `runs` (worker
threads), `up` and `worker` (the consumer process and its number, which stands
for `host:pid`), `req` (what each web request has read so far), `fresh` and
`stages` (the upload dialog), `refused` (parts whose `/UploadDrawing` failed),
`misread` (parts whose stages a hand-off could not read), `lines` and `blank` (the
output: copies of the costing lines; pages without automatic balloons).

| Code | Actions |
|---|---|
| `ApiController.SendMessage` | `Upload`, `UploadAborted` (publishes, then dies before its commit), `UploadRefused` (RabbitMQ is down: rolled back) |
| `CostingPartsEndpoint.Rerun` | `RerunStart` (the tests), `RerunFinish` (clear, reset, enqueue, publish, commit), `RerunAborted`, `RerunRefused` |
| `CostingPartQueueEndpoint.Cancel` | `CancelStart`, `CancelFinish`; a running row is the Release button |
| `Prioritise`, `Requeue` | `PrioritiseStart/Finish`, `RequeueStart/Finish` |
| `scripts/requeue-*.sql` | `ManualRequeue`, `Supersede`, `InsertByHand`: three statements, each committed by itself |
| consumer: enqueue, claim, close, reap | `Receive`, `Claim`, `Close`, `Reap` |
| consumer: end of a handler, and the hand-off | `RunFinish` with `HandOff` (`RequestedStages`, `HandsOverToCosting`, `ThenBallooning`), `Produce` |
| consumer: process dies, starts, reconnects | `Crash`, `Connect`, `Reconnect` |

A handler is two steps because its reads take no lock (READ COMMITTED) and other
sessions run between them and its writes. `Enqueue` inside a handler is one step
with the unique index as its guard: two handlers that both saw no row meet there,
and the loser's exception is swallowed, as in the code. Between the two steps a
row that the request is going to write may be locked (`Locked`): the dequeue reads
with READPAST and passes it over. The model does not say when the lock is taken,
so `Locked` means "may hold the lock". The statements of one consumer process do
not overlap each other.

Assumptions about the consumer, each from a line of this repository:

* claim takes the first row by priority, time and ID that is not locked, sets the
  lane's columns to In Progress (`CostingPartQueueEndpoint.cs:64-66`,
  `check-costingpartqueue.sql:4-8, 67-78`);
* a message for a part and lane that has an active row joins it, its scope
  widened (`CostingQueue.cs:55-63`, `check_page_scoped_rerun.py:117-131`);
* a job is closed from the part's columns, not from its thread
  (`fix-costingpartqueue-stranded.sql:62-92`);
* hand-offs follow `check_stage_handoff.py`, `check_requested_stages.py` and
  `check_ballooning_without_costing.py`; a `RequestedStages` that cannot be read
  (fault `unread`) stands for all three stages (`check_requested_stages.py:85-90`),
  each time it is read; the hand-off's other reads and writes are taken to succeed;
* orphans are the running rows of other processes of this host
  (`check-costingpartqueue-orphans.sql:38-43`);
* a thread does not end while the message that announced its row is still
  waiting, except under the fault `late`, which no run uses: messages are handed
  over in milliseconds and runs take minutes. A second consumer on another host
  is not modelled.

### BallooningEditor

`rows` is `dbo.CostingPartBalloons` of one part, with the state `IsActive`
encodes (`live` 1, `cleared` 0 by a re-run, `deleted` -1 by a save) and `gone`
for the rows the consumer deletes. `sheet` is what the widget holds, `history`
its undo history, `saving` a save under way (the balloons still to send, and the
rows found at its start), `loading` the live reloads under way with what each has
read, `timer` their debounce, `missed` whether the sheet may lack news that will
not come again, `asked` an Auto Balloon request, `run` the recognition job. `edits`
and `settled` count edits made and edits saved or given up: they say whether
there really is unsaved work, which `dirty` only claims.

| Code | Actions |
|---|---|
| `addAnnotation`, `updateAnnotation`, `deleteSelected`, `handleClearPage`, `addMask`, `addRegion`, `clearRegionsOnPage` | `Draw`, `Retype`, `deleteSelected`, `handleClearPage`, `DrawMask`, `DrawArea`, `ClearArea`, all through `Edit`, the dirty setter |
| `undo`, `redo`, `restoreSnapshot`, `UndoHistory` | `Undo`, `Redo`, `restoreSnapshot`, `record`, `undo`, `redo` |
| `handleSave`, `saveBalloons`, `saveAreas` | `SaveStart`, one `SaveBalloon` per row, `DeleteUnseen`, `SaveMasksAndAreas`, `SaveFinish`, `SaveFail` |
| `handleAutoBalloon`, `Rerun`, `ClearPreviousOutput` | `handleAutoBalloon`, `AutoBalloonAnswered`, `RerunElsewhere` |
| the consumer's run | `RunStart`, `RunPage`, `RunFinish`, each telling of it (`Report`) by a message that may be lost |
| `connectProgress`, `reloadFromServer` | `timer`, `ReloadRefused`, `ReloadStart`, `ReloadFinish`, `ReloadFailed` |

Of a balloon the model keeps its page, whether it was drawn by hand and whether
its text was typed over; position, tolerances and number are left out. A page
has at most one mask and one area. The click on Save and the answer to its first
List are one step; balloons and masks are read at one instant by a live reload.
Nothing keeps live reloads apart: any number can be under way, each can fail, and
their answers come in any order, the oldest last if so it happens. There is one
editor window; another window can only ask for recognition (`RerunElsewhere`).

### JobLifecycle

The promise of the queue, without priorities, payloads, messages, processes and
status columns: a table of jobs (key, phase, number of tries) and the threads at
work. `Submit` replaces the live job of a key, `Admit` needs a job no thread
serves, `Recover` takes back only jobs whose threads are gone, `Settle` is for
good. `CostingPipeline` instantiates it with `JobTable` and `Threads`; each of its
actions is a step of it or changes nothing it sees.

### Quote

`work` and `stock` are the machining lines and the material lines by ID (a
re-run deactivates, a run appends), `options` the machine options, `material` the
part's `MaterialID`, `loaded` the material of each window's own copy of the part,
`answers` the reads of the part it still waits for, `unapplied` whether the last
save wrote MaterialID and priced nothing, `run` the costing run, `req` the request
each workspace has under way, `shown` what its screen offers. Amounts are left out:
a line is told apart by machine, material and origin.

| Code | Actions |
|---|---|
| `CostingWorkspace.loadResults`, `loadMachineOptions` | `LoadResults`, `ListOptions` |
| `Build` | `BuildRead`, `BuildWrite`; `BuildForce`, which only the endpoint offers |
| `Apply` | `ApplyRead`, `ApplyWrite` (by ID, whatever happened since) |
| `handleSave` of the material form, `ApplyMaterial` | `SaveMaterial` (`Update`, a transaction of its own), then nothing if the window's copy has that material already, or `PriceRefused`, or `PricePart` and `PriceLine`, or `ClearLine` and `ClearPart`; `PriceLost`, `Victim` |
| `reloadPart` after a pricing | `ReloadPart`, `PartReloaded` |
| a line typed in | `AddManualLine` |
| `Rerun`, the consumer's costing run | `RerunCosting`, `RunStart`, `RunFinish` |

Pricing locks the part's row and then the lines, clearing the lines and then the
part's row, so two windows may deadlock; the database rolls one back. Whether a
save prices is asked of the window's copy (`CostingWorkspace.ts:577-578`), which
another window's save leaves behind. With `Lost`, the answer of `Update` or the
call of `ApplyMaterial` may be lost. A workspace is open from the start and stays
so; its form takes no new choice while `Update` or `ApplyMaterial` is under way, as
the framework blocks it then, but does while the part is read again. Which machines
can hold the part (`Candidates`) is given, not computed.

### BalloonNumbering

`sheet` maps each balloon's place in the editor's array to its page, number,
sub-number and category; `script` is what the operator's script has read.

| Code | Actions |
|---|---|
| a new balloon, `deleteBalloons`, `moveBalloonNumber` | `Add`, `Delete` (promote, close up, close gaps, highest first), `Move` |
| `completeSubNumber`, `restoreNormalNumber` | `SubNumber`, `RestoreNormalNumber` |
| `renumberAcrossPages` with `applyNumbering` and `groupOf` | `Renumber` |
| the Sub-number and Category fields | `TypeSubNumber`, `SetCategory`: one field is written, nothing else |
| Remove in the filter dialog, Clear page | `FilterRemove` (parents and children as they match), `ClearPage`: the balloons go, all other numbers stay |
| `fix_continuous_balloon_numbers.py` | `ScriptRead`, `ScriptWrite` |

The last edits (`HandEdits`) renumber nothing, so they leave gaps, orphans, holes
and, the Sub-number field, duplicates. The properties are therefore about steps:
what every other edit does to a sheet that is in order, and to the others. Undo,
redo and the live reload put a whole sheet back; they are in `BallooningEditor`,
which has no numbers. A batch edit of categories is one `SetCategory` after the
other.

The order in which a page is visited (areas, sort modes, reading order) is any
order: the properties must hold for all of them. The page and category lists are
small sets of ranks.

### PartsGrid

`status` and `queued` are the database's side, `card` what each card shows,
`timers` the pending re-reads, `reads` the Retrieve calls in flight with what the
server saw, `reload` the List in flight, `progress` the MQTT messages on their
way. One stage stands for a part's four; `Outcomes` are the statuses it ends in,
`Upload Failed` among them. Calls of one row that saw the same are
kept once: the poll can repeat them at any time.

| Code | Actions |
|---|---|
| `client.on("message")`, `queueRowRefresh` | `Hear`, `TimerFires`; `LoseMessage` |
| `pollActiveRows` | `PollActiveRows`, with `InFlight` and `FirstOf` (the first 25) |
| `refreshRow`, `Retrieve` | `ServeRead`, `Answer` in any order, `ReadFails` |
| `rerun`, `Rerun` | `Rerun`, `RerunAnswered`, `ServeReload`, `Reloaded` |
| the consumer | `Start`, `Finish`, `Publish` |
| the clock, the tab | `Age` (two hours), `Hide`, `Show` |

The redraw of a card, 150 ms after its row changed, is part of the change.
`Rerun` does not touch `UpdateDate`, so `recent` only shrinks.

### Instances and variants

The MC modules give the constants of the small instances values (`MCQuote` a
symmetry too). Operators marked "Variant" are plausible mistakes in
a definition of the module; no specification uses them. With a variant in the
place of the real definition each property below fails, which shows that the
property depends on that code.

## 3. Runs

Every configuration turns deadlock checking off: jobs, edits and runs are
bounded, so the system legitimately comes to rest.

| Run | Instance | Properties | Shows |
|---|---|---|---|
| `queue` | 2 processed parts, costing re-runs, Cancel, Release, Move up, Retry, scripts; crash, reconnect, reaper; 2 jobs, 2 processes, 1 request or script | `TypeOK`, `OneActiveJob`, `OneThreadPerRow`, `PositionOneRunsNext`, `ClosedStaysClosed`, `ImplementsLifecycle`, `EveryJobCloses` | the queue works under all its users, and keeps the promise of `JobLifecycle`; only a row that somebody is changing is passed over |
| `operator` | 1 part, re-runs of the three stages at every scope, Move up, redelivery, a broker that is down, hand-off from the stage before, 3 jobs, 2 pages | `RowAgreesWithMessage`, `ClearedPagesComeBack`, `LinesCountedOnce` | scopes and clearing agree over sequences of re-runs and hand-offs |
| `uploads` | 2 uploads, any stages ticked, 6 jobs; runs that fail, rows not written, requests that die or find RabbitMQ down, stages that cannot be read (537,300 states) | `SkippedNeverQueued`, `EveryStageEnds` | what was ticked ends; what was not starts only for a part whose stages could not be read |
| `racing` | 1 part, 2 concurrent requests, Force, Retry, Move up; crash, redelivery, failures, 3 jobs | `OneThreadPerPart` | no two threads write one part's results |
| `desk` | 1 page, every gesture, 4 edits, saves that fail anywhere, history of 2 steps | `TypeOK`, `HistoryBounded`, `SaveReconciles` | a save that reports success is right whatever came before |
| `editor` | 2 pages, page, document and skip-done runs, from here or elsewhere; delete, undo, redo; runs that stop half way, reads that fail, messages that are lost; reloads that overlap (1,873,594 states) | `NothingDropped`, `RunIsShown` | edits, saves, runs and reloads do not lose balloons |
| `quote` | 2 windows, 2 machines, 2 machining lines a run, 4 lines; Build with and without Force, Apply, re-runs | `TypeOK`, `SelectionAgrees`, `RecommendationKept` | what is marked selected or recommended is right whoever builds, moves or re-runs in between |
| `material` | 2 windows with a copy of the part each, 3 materials (one without a price), clears, typed lines, lost calls and answers, 3 material lines (999,306 states) | `PricedWhenApplied`, `ManualLinesKept`, `SavesEnd` | saves that overlap, deadlock and get lost never leave two machine-made lines, and one of another material only where a save skipped the pricing |
| `numbering` | up to 3 balloons of 2 categories on 3 pages, numbered through or per page; the edits of section 2 and the script (451,948 states) | `TypeOK`, `NumbersDistinct`, `FamiliesWhole`, `StaysNumbered`, `FamiliesStay` | only a typed sub-number makes duplicates; the edits that renumber keep numbers and families in order on every sheet that is so |
| `grid` | 2 parts, one with its stage switched off, a poll of 1 row; any number of re-runs, lost messages and failed reads | `TypeOK`, `CardsCatchUp` | a card stops saying In Progress once its stage has ended, with neither messages nor order to rely on |
| `reload` | 1 page, 1 run, 1 edit | `ReloadKeepsWork` | see Findings |
| `unoffered` | as `quote`, without Force | `EveryLineOffered` | see Findings |

Bounds, and why they are enough:

* `MaxJobs` 2 or 3: two jobs of one part or of two parts contend for the slot
  and the unique index; the third is the Retry or the script behind them. `uploads`
  needs 6, three stages of two parts.
* `MaxWorkers` 2: one crash or takeover; a second crash repeats the first, because
  recovery compares ids and keeps nothing. (The proofs have no such bound.)
* `MaxMessages` 1: a second message of one queue would wait behind the first and
  publishing waits until there is room.
* `Requests` 1 or 2: with one request its reads and writes are still apart from
  the consumer's steps, and its row may be locked when the other is admitted; two
  race with each other. With two, `queue` does not fit; the theorems have any number.
* `Capacity` 1: the configuration the page describes; a full lane is the
  interesting case.
* `HistoryLimit` 2 (50 in the code): full after three edits, so trimming happens.
* `MaxEdits`, `MaxRows`: enough for a failed save, an edit after it and a second
  save; `MaxRows` only stops a save from starting. `editor` makes edits few so that
  runs and reloads can interleave with all of them.
* `Windows` 2, `Machines` 2: one builds or applies while the other does; a line
  has a machine it is on and one to go to. `MaxWork` 4 is two generations of two
  lines: options of the first outlive a re-run. `MaxStock` 3: one line from each
  of two saves, beside the first line or a typed one. `MaxReads` 1: a window waits for one
  answer about the part at a time, which can be late by any number of saves; only
  two late answers of one window that overtake each other are left out, and what a
  window holds is then one of the same values. `material` has no machines and no
  re-runs: a run that prices the part is in the theorem `PartIsPricedWhenApplied`.
* `Recognised`, `MaxBalloons` 3 on 3 pages: a parent with two children, two families
  on one or two pages, an empty page between two others, a duplicate or an orphan
  beside a third balloon. `families.cfg` has 4 balloons of one category, without
  typed sub-numbers, and the three family properties: a family beside another
  balloon, two gaps at once (70,909 states, no error). `MaxNumber` bounds only what
  is given out next, `MaxSub` also what is typed.
* `PollLimit` 1 (25 in the code) with one part that stays Pending above a running
  one: the limit is reached by a part that never leaves by itself. Only one part is
  processed; parts that compete for the poll's page while all run are not covered.

Two constants keep known cases out, and the properties say which steps they leave
out: `FamiliesWhole`, `StaysNumbered` and `FamiliesStay` are not about `HandEdits`
nor about a renumbering by several categories, `PricedWhenApplied` not about a part
whose last save priced nothing (`unapplied`), `EveryStageEnds` not about an upload
that was refused. `Overlaps` FALSE: the material is not changed while the part is
costed, for a run that read the old material would price it. `EditsDuringScript`
FALSE: an edit between the script's read and its write gives duplicate numbers; the
script is a repair that is run once.

Fairness. `FairSpec` of the pipeline: the consumer's loops and threads keep going,
requests that began end, the upload dialog makes its call, a dead consumer is
started again (its supervisor loop), and a row that stays running is in the end
closed or reaped (`StaleMinutes`). `FairSpec` of the editor: the consumer, the
browser's timer, and the requests of a save, a reload and an Auto Balloon. Of the
quote: a save of the material that began is answered, and the database breaks
deadlocks. Weak fairness is enough in these. Of the grid: jobs run to their end,
time passes, timers fire and requests are served; strong fairness says that the tab
is visible for a poll again and again and that not every read of a part fails. No
operator action is fair: nobody has to press a button. `SavesEnd` says of each
window that again and again no save of its is under way: a save that were rolled
back and sent again for ever would break it. `EveryStageEnds` is checked without
crashes and reaping: a reaped drawing job hands nothing on, and the stages behind it
then wait for a Re-run.

`OneThreadPerPart` is checked without Release and without scripts: both free a
slot whose thread goes on, as the page itself says.

## 4. Findings

Each run named here checks one property that states what a comment of the
repository says; TLC finds it violated.

1. `reload`: a live reload overwrites edits made while it reads
   (`BallooningWidget.ts:441`, against 429-430).
2. `unoffered`: after a re-run of the costing the machining lines offer no machines,
   for Build sees the options of the old lines
   (`CostingPartMachineOptionsEndpoint.cs:66`, against `CostingWorkspace.ts:1298-1299`).

Seen and refuted in the same way; the configuration is kept beside the modules:

* `pulled_away.cfg` (`NeverPulledAway`): `groupOf` looks a child's parent up by the
  number the child carries when it is called, and `renumberAcrossPages` calls it
  again for every category (`BallooningEditing.ts:312`) after it renumbered the
  earlier ones in place, children included. With two categories a child of a page in
  order hangs off another balloon after Renumber (`BallooningWidget.ts:3111`, against
  3106-3107: "a child goes with its parent's category, so a sub-number is never
  pulled away from the balloon it hangs off.").
* `cleared.cfg` (`ClearedIsItsOwn`): the Sub-number field patches `subNumber` and
  nothing else; cleared on 5-1, it leaves a second balloon 5 on the page
  (`BallooningWidget.ts:4127`, against `BallooningEditing.ts:222-223`: "Move the
  parent, or clear the sub-number to make it a balloon of its own first.").
  `restoreNormalNumber` (4744), behind another button, gives it a number of its own.
* `stale_material.cfg` (`PricedAsChosen`): a save prices the part only if its material
  differs from the part as this window loaded it, while `Update` writes MaterialID
  whatever the window has (`CostingWorkspace.ts:578`, 583-586, against
  `CostingPartsEndpoint.cs:166-168`: "Picking a material used to record MaterialID and
  nothing else, so the quote kept whatever material cost the pipeline had produced").
  One window saves another material, the second picks its old one again and saves:
  the quote keeps the line of the first. A lost `ApplyMaterial` does the same (628-633).
* `unpolled.cfg`: a re-run sets Pending but not `UpdateDate`, so the card of a
  part last touched more than two hours ago is not polled, and if no message
  arrives it stays at Pending after the job is over (`CostingPartsGrid.tsx:247-250`,
  against 238: "the visible parts that still have a stage queued or running").
* `retry.cfg`: Retry of a completed costing job doubles the cost lines
  (`CostingPartQueueEndpoint.cs:155`, against `CostingPartsEndpoint.cs:65-67`).
* `cancel_orphan.cfg`: cancelling a job that orphan recovery put back leaves the
  part In Progress with no job (`CostingPartQueueEndpoint.cs:82`, against 64-66).
* `cancel_race.cfg`: a stale Cancel overwrites a job's outcome
  (`CostingPartQueueEndpoint.cs:254`, against 101-102).
* `hand_drawn.cfg`: Auto Balloon clears hand-drawn balloons and tombstones
  (`CostingPartsEndpoint.cs:369-377`, against `BallooningWidget.ts:3609-3610`).
* `unseen.cfg`: saving after the refused reload deletes the new balloons
  (`BallooningDatabaseService.ts:248`, against `BallooningWidget.ts:435-436`).
* `ClearedHasNoCost` (in `Quote`): a clear racing a pricing can leave a material
  line on a part without a material (`CostingPartsEndpoint.cs:205`, against 192-194).

Seen while modelling: with RabbitMQ down a Re-run leaves no queue row, for the
exception of `Publish` rolls it back (`RerunRefused`;
`CostingPartsEndpoint.cs:133-135` says that the row shows the job even then); a
crash between the end of a costing run and the closing of its row runs it again, on
top of its own lines; a message of a cancelled job queues the part again; a re-run
of the costing clears manual cost lines; a page run that succeeds marks the lane
Completed although a failed document run left other pages blank; two Move ups at
once give the same priority (the order is still the one shown); an upload dialog
closed before its last request leaves a part Pending with no job; Build with Force
always meets the unique index when options exist, which also counts deactivated rows
(`CostingPartMachineOptionsRequests.cs:8-9` offers it); on the grid, a late answer
that says Completed hides a re-run that has just been accepted until a message or a
reload, for the poll reads only what the card shows in flight.

## 5. Proofs

The theorems are checked by TLAPS, for every value of the constants that satisfies
the named assumptions of the modules (`PipelineAssumption`, `EditorAssumption`,
`QuoteAssumption`, `NumberingAssumption`, `PartsGridAssumption`: scopes differ from
page numbers, capacities are positive, bounds are naturals) and, where one is
listed, a hypothesis on what happens. Every safety and action property of the
passing runs is stated by a theorem.

| Module | Theorem | States |
|---|---|---|
| `CostingPipelineProofs` | `OneActiveJobHolds` | `Spec => []OneActiveJob` |
| | `OneThreadPerRowHolds` | `Spec => []OneThreadPerRow` |
| | `ClosedRowsStayClosed` | `Spec => ClosedStaysClosed` |
| | `TypeCorrect` | `Spec => []TypeOK` |
| `CostingPipelineRefinement` | `QueueImplementsLifecycle` | `Spec => ImplementsLifecycle` |
| `AdmissionProofs` | `PositionOneIsAdmitted` | `Spec => PositionOneRunsNext` |
| | `SkippedStagesHaveNoJob` | `Spec => []SkippedNeverQueued`, if no `rerun` and no `script` |
| | `NoTwoThreadsForAPart` | `Spec => []OneThreadPerPart`, if no `cancel`, `release`, `script`, no upload under way, no `stale` |
| `RerunProofs` | `LinesAreCountedOnce` | `Spec => []LinesCountedOnce`, if `ClearedFirst` |
| | `EveryClearedPageComesBack` | `Spec => []ClearedPagesComeBack`, if `OneByOne` |
| | `RowAgreesWithItsMessage` | `Spec => []RowAgreesWithMessage`, if `OneByOne` and `SeveralPages` |
| `BallooningEditorProofs` | `NothingIsDropped` | `Spec => []NothingDropped` |
| | `HistoryStaysBounded` | `Spec => []HistoryBounded` |
| | `EditorTypeCorrect` | `Spec => []TypeOK` |
| | `SavesReconcile` | `Spec => SaveReconciles`, if `NoRecognition` |
| `BalloonNumberingProofs` | `NumberingTypeCorrect` | `Spec => []TypeOK` |
| | `NumbersStayDistinct` | `Spec => NumbersDistinct`, if `NoEditsDuringScript` |
| | `FamiliesStayWhole` | `Spec => FamiliesWhole`, if `NoEditsDuringScript` |
| | `ChildrenStayWithParents` | `Spec => FamiliesStay`, if `NoEditsDuringScript` |
| | `NumberingStays` | `Spec => StaysNumbered`, if `NoEditsDuringScript` |
| | `MovesKeepFamilies` | a move keeps all of this, with any categories |
| `PartsGridProofs` | `GridTypeCorrect` | `Spec => []TypeOK` |
| `QuoteProofs` | `QuoteTypeCorrect` | `Spec => []TypeOK` |
| | `SelectionAlwaysAgrees` | `Spec => []SelectionAgrees` |
| | `RecommendationIsKept` | `Spec => []RecommendationKept` |
| | `ManualLinesAreKept` | `Spec => ManualLinesKept` |
| | `PartIsPricedWhenApplied` | `Spec => []PricedWhenApplied`, if not `Overlaps` |

Pipeline. `OneThreadPerRow` is not inductive: a row that waits while its thread
lives would be claimed again. `ThreadsOK` excludes it: a thread lives in the
process that is up, its row is not `queued`, and a row still `running` carries
that process's number, so orphan recovery, at start or after a reconnect, leaves
it alone. This needs `WorkerSpare` (a process that dies can be followed by one
with a new number), `RequestsOK` (what a request remembers is a row that exists)
and that no handler sets a row back to `queued`. With `TypeOK` and `OneActiveJob`
these form `IInv`. The table changes in few ways, so the proof first says what
a step may do to it (`SameRows`, `OneMoreRow`, from `RowFollows`: a row waits
again only as an orphan and runs only if it ran or waited), proves one of them
for each action, and then derives every conjunct of `IInv` and
`ClosedRowsStayClosed` from that.

Editor. `NothingDropped` compares the sheet with every snapshot, so the proof is
about sequences of sheets: `RecordStep`, `UndoStep` and `RedoStep` say what a
step of the history does to the set of its snapshots and to the sum of the two
stacks; `EditKeeps` and `RestoreKeeps` lift that to the operator's actions, and
`SheetUntouched` disposes of all the others. The invariant is `TypeOK`,
`HistoryBounded` and `NothingDropped`; the type of the history is needed to know
that what is popped was pushed.

Refinement. A step of the pipeline is classified by what it does to the table:
nothing (`Stutters`), one more row (`InsertSubmits`, `ScriptSubmits`), a row that is
over (`SetStatusSettles`), the claimed row (`ClaimAdmits`), orphans
(`OrphansRecover`). `IInv` is what makes `Admit` and `Recover` possible: no thread
serves a row that waits or that recovery takes back.

Admission. `OnlyClaimAdmits` leaves one action for `PositionOneIsAdmitted`; that
every row the page counts before the one it takes is locked is the order of
priority, time and ID on both sides (`ClaimTakesFirst`). `AskedInv` adds to
`SkippedNeverQueued` that every message waiting in the broker is for a stage that
was ticked or is of a part whose stages a hand-off misread (`Asked`). `ServedInv`
says that the row of a live thread is still running and its columns do not say that
it is over, so that nothing but its own thread closes it; with `OneActiveJob` this
gives one thread for a part and lane.

Re-runs. Both invariants say who owes a part something. `LinesFollow`: while a
costing of the part is due (a message not yet delivered, a queued row, a thread, or
the status Pending or InProgress) its lines are not there, and when its status is
Completed they are there once. `PagesFollow`: every active ballooning row and every
thread has a scope that covers the blank pages; a message not yet delivered, or a
blank page, means that there is such a row and that the status is Pending or
InProgress; a re-run that is still to clear means that there is none. What is owed
changes hands (message, row, thread, column), and the proof has one lemma for each
of these steps. What the hypotheses leave out does break the properties.
`ClearedFirst`: Retry costs without clearing (section 4); a crash between the end of
a run and the closing of its row runs it again; the message of a request that died,
or one that outlives its run, costs a part that nothing cleared. `OneByOne`: a
second operator's scope may be cleared after the row's scope was read; Force and a
run that fails or is given up on leave pages blank under a later page run's
Completed. `SeveralPages`: the hand-off to ballooning asks for the whole document,
which on a drawing of one page is that page under another name than the row may
have.

Saving. A save is a sequence of requests, so `SInv` follows it: `Progress` says, for
every stage, which rows the save has already brought to what it sent and which are
still to come, `SheetsSound` that the sheet and every snapshot account for the rows
the drawing was opened with, and `RowsSound` that no row a save created is taken for
one of those. A save that broke off leaves rows that the next save finds and deletes
(`Fresh`). Under `NoRecognition` no run is under way; a run writes rows behind the
sheet, which a save does not know of and the reload after it reads.

Numbers. An edit that only gives other numbers to the same balloons is a `Renames`:
two balloons of one page have one number after it just when they had one before.
That keeps numbers distinct, families whole and every child with its parent at once
(`Renamed`), and moving (`MovesOneToOne`), closing gaps (`GapsClose`), the script's
write on the sheet it read (`ScriptWrites`) and renumbering one category
(`RenumberKeeps`) are such. What remains is counting: `RanksAll` says that the ranks
in a family are 0, 1, ... without holes, from which promoting, closing up and hanging
a family behind another follow (`PromoteCounts`, `CloseUpCounts`, `CountsOn`). The
scope of a deletion is the page or the whole drawing; `OffspringIs` shows that a
whole family lies on one page in both. The properties are about single steps from
any sheet, so nothing is kept but the types and that what the script has read is
still the sheet (`FreshInv`, `ScriptFresh`); `KeepsParents` is what a step does to
every child. Distinct numbers are kept on sheets with orphans and holes too, and by
renumbering any categories; families only on sheets in order, and by a renumbering
of one category. The hypothesis and these limits are needed: TLC finds duplicate
numbers with edits during the script, and `pulled_away.cfg` a child pulled away with
two categories.

`NumberingStays` follows the numbers themselves. A change renumbers a zone, which is
the whole drawing or one page (`Zone`), and every edit that adds no number keeps a
numbered zone numbered (`KeepsNumbered`): moving and sub-numbering stay within 1..m
and are one to one (`NumberedAll`). Deleting closes several gaps, so the fold carries
`Dense`: the numbers left and the gaps still open are together 1..m. That holds only
because the highest gap is closed first; the mutant that closes the lowest first
breaks it. Renumbering counts (`Done`: the next number is one more than the balloons
visited), and on a drawing numbered page by page the highest number of a page is the
number of its balloons, so that the script's offsets count the balloons of the pages
before (`OffsetCounts`). `NumberedStep` says all this of one step; `NumberedInv` adds
to `FreshInv` that a drawing the script has read has a number on two pages, so it was
not numbered through already. Whole families are used
throughout: a child without a parent would hold a gap open or raise the next number.

Induction and folds. The library's induction rules take an operator; these proofs
do induction over finite sets by a minimal counterexample (`WFMin` over the size of
subsets, or `LeastExists`), which takes a set. `CloseGaps`, `Renumber` and
`Offset` are folds, `CHOOSE`s of a function on subsets: `FoldExists` shows that there
is one, `FoldStays` that what every step carries over holds of the result, for a
step given as a function.

Quote. `SelectionAgrees` needs six facts (`OptionsInv`): an active option is of a
line that exists, moves go only to machines with an option (`AppliesOffered`,
`ShownWereBuilt`), a line with no option is on the machine it was made on
(`MovesFollowOptions`), and a Build that read before a move will be refused by the
index (`ReadsOutOfDate`). `MaterialInv` says who may write the line next: a pricing
holds the part's row (`PricingHoldsPart`), saves and runs are apart (`RunsApart`),
unless a save is due or was not applied the line is of the part's material
(`LineMatches`), and there is one line at most, the lines that an uncommitted clear
has taken away counted (`AtMostOne`). What a window's copy of the part holds is free
in the proof: no case rests on it.

Only model-checked: the liveness properties (`EveryJobCloses`, `EveryStageEnds`,
`RunIsShown`, `SavesEnd`, `CardsCatchUp`), which are out of the prover's reach.

## 6. Not modelled

* The settings store: one List and one Update per browser. Two browsers that
  hydrate before either has seeded the row both push their local values and the
  later write wins, although `BallooningSettingsStore.ts:130` says the first does.
* Two editor windows on one part: the later save deletes what the earlier one
  created. `BallooningEditor` has one window and any number of runs from elsewhere.
* What the consumer's handlers compute; its code is not in this repository.
* The sheet grid, view links, tolerances, fields and symbols: geometry and parsing
  of one value or page at a time, with unit tests beside them.
* Service health, exports, region recognition, master data, wallet, companies,
  membership and administration: reads, or records that the framework creates,
  updates and deletes one at a time.
* Deleting a part, paging and filters of the grid; single-line edits of the quote.

Most of the repository's code is not its own: `scripts/_tools` vendors Python
packages (an SSH client, a cryptography library, a C parser), which nothing here
is about.

A continuation would take, in this order, the two editor windows (a second
`sheet` over the same `rows`) and the settings store.
