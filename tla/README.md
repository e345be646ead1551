# Water, specified and checked

TLA+ specifications of Water (a Tauri writing application: a Rust core, a React
renderer, a Python analysis sidecar), the TLC runs that check them on small
instances and the TLAPS proofs that hold for every instance. Paths are relative
to the root of the repository.

## 1. The system

Water watches a writer type and now and then lets a persona or a character say
one sentence (a *pill*). The core decides when, with which trigger and in whose
voice; the renderer shows the pills, lets the writer open, pin or dismiss them,
and reports what became of each; the core learns from that which triggers are
welcome.

| Component | State | Operations | Interacts by |
|---|---|---|---|
| Orchestrator service (`app/src-tauri/src/orchestrator_service.rs`) | current scene and analysis, minted pills, cooldowns, time of the last mint, attributions, tuning snapshot, bouquet history, polish and analysis throttles | one loop serves `OrchestratorRequest`s from a channel of 64; LLM, heat, analysis and polish tasks run outside of it | channel from the Tauri commands, events to the window, project database behind a mutex, LLM router, sidecar |
| Orchestrator core (`crates/water-core/src/orchestrator`) | `trigger_feedback` table | triggers, best candidate, pill lifecycle, eviction, reward averages, anti-loop, arc position | called by the service |
| Voice (`crates/water-core/src/voice`) | cooldown clock of each speaker | routing of a candidate to a persona or a character | called by the service |
| Rabbit hole (`crates/water-core/src/rabbit.rs`) | `rabbit_thought` tree | insert a root or four children, resonance, trim to row and byte caps | service, deepen panel |
| LLM router and providers (`crates/water-core/src/llm`, `commands/provider.rs`) | token buckets, circuit breakers, the router in use, models chosen | bouquet generation with failover, eight adapters, keys, models and tests | service tasks |
| Scene store (`scene.rs`, `scene_locks.rs`, `chapters.rs`, `block.rs`, `scene_md.rs`) | Markdown files, `scene` rows | create, rename, write the body, set summary, canvas place and group, location, point of view | commands, file system, database |
| Character store (`character`) | character rows and their files, registry | create, update, archive, intake | commands, service registry |
| World store (`world`) | segments, entries, collisions | create, update, templates | commands, service registry |
| Project lifecycle (`project.rs`, `db.rs`, `migrations.rs`, `rebuild.rs`, `repair.rs`, `commands/project.rs`) | the open project, schema version | create, seed, open, close, migrate, rebuild, repair | starts and ends the service, the snapshot scheduler and the sidecar |
| Snapshots (`snapshot.rs`, `snapshot_scheduler.rs`) | snapshot rows and files, queue of the scheduler | hourly, on close and before a restore; retention by four ages | scene store |
| Sidecar (`sidecar.rs`, `sidecar_supervisor.rs`, `ipc.rs`, `sidecar/`) | child process and its holders, failures in a row, status channel | spawn, health poll, pause after failures, analysis with timeout, stop; the process is never started again | service, Python process |
| Heat (`heat`) | heat rows, LLM budget | local and LLM metrics, hourly budget | service |
| Editor pills (`editor`, `commands/editor_pill.rs`) | `editor_pill` rows | diagnostics, polish, dismissals | service, editor |
| Prompts, post filters, tone audit, replay log, canvas layout | immutable or append-only | assembly, filtering, logging, layout | called by others |
| Tauri commands (`app/src-tauri/src/commands`, `state.rs`) | the open project behind a mutex | one async task per invocation | renderer, everything above |
| Nudge panel (`app/src/pill`: `PillLayer`, `DeepenPanel`, `Bouquet`, `RabbitHole`, `PinnedColumn`) | pills on screen, stash, engaged pills, open panels | events of the core, clicks, hovers, recalls | events and commands |
| Editor canvas (`app/src/chrome/EditorCanvas.tsx`, `app/src/editor`) | body, dirty flag, autosave timer, chips | load, debounced save, scene push, diagnostics | commands |
| Anchors (`anchorResolver.ts`, `sentenceMatch.ts`) | none | find a paragraph again after edits | nudge panel |

### What is hard in it

* **Interleaving.** Every command is its own task, the service is one loop,
  every minted pill, polish, fan, heat and analysis runs in a task of its own.
  The loop awaits the Stage-2 confirmation, so a decision is used after an
  await, and no other request is served meanwhile.
* **Try-locks.** Learning and prompt assembly only *try* the database mutex.
  Whoever holds it for a moment (a heat task, a dismissal that deletes a pin)
  decides whether a reward is written.
* **Ordering.** Requests of different commands may overtake each other; a pill's
  answer may arrive after the pill was reset, the scene switched or the project
  closed.
* **Two sides of one state.** The renderer owns what is on screen, the core what
  is attributed. Nothing but events and commands keeps them together.
* **Limits.** The channel, the panel, the stash, the rabbit tree, the polish
  passes and the LLM budget have caps.
* **Pieces of one thing.** A scene, a character, an entry, a project are a file,
  a row and links; each is written by itself, and the process may end, or a
  step fail, between any two of them.

## 2. Modules

| Module | Models | Composes or implements |
|---|---|---|
| `PillChannels` | the request channel of 64 (`mpsc`), the Tauri commands that wait for room in it, the events to the window, the `AppState::project` flag | extended by the service and by the panel |
| `PillService` | `orchestrator_service.rs`: the loop, the gates of a telemetry tick, Stage-2 confirmation, mint, speaker cooldowns, LLM answers, outcomes, attribution, learning, reset, shutdown | extends `PillChannels`; its window is arbitrary: any command about any pill that has emerged |
| `PillLedger` | nothing in the code: the promise of the learning table (each pill moves the cell it was minted for by at most one observation, once; a reset forgets) | implemented by `PillService` |
| `PillServiceProperties` | the properties of the service, the refinement of the ledger | extends `PillService` |
| `PillLayer` | `PillLayer.tsx`: pills on screen, stash, engagement, hover timer, FIFO eviction, recall, subscription, scene switch | extends `PillChannels` |
| `PillSystem` | service and panel together: the events of the one are the input of the other, and the panel's invocations the input of the service | extends both; implements `PillService` with its arbitrary window |
| `SceneFiles` | `scene.rs`, `scene_md.rs`, `scene_locks.rs`, `rebuild.rs`, `repair.rs`, the scene, canvas and point-of-view commands, opening and closing | stands alone |
| `RabbitTree` | `rabbit.rs`: roots, fans, marks of resonance, ancestry, and the trim, statement by statement, with its two passes and two caps | the abstract view of the thoughts |
| `Deepening` | `DeepenPanel.tsx` and the deepening half of `orchestrator_service.rs`: requests in the channel, tasks that ask the model, announcements, levels of the panels, the safety timer | extends `RabbitTree`, and uses the thoughts by its steps alone (`UsesTheTree`) |
| `CharacterStore` | `character/mod.rs`, `commands/character.rs`: rows, files, presence, point of view, hues, repair and rebuild | part of `Records` |
| `WorldStore` | `world/store.rs`, `commands/world.rs`: segments, pages, entries, their files, locations of scenes | part of `Records` |
| `Records` | both, under one database lock, and the rebuild of the index from the files of both | extends both |
| `LlmRouter` | `llm/router.rs`: buckets, breakers, failover, for several calls at a time | part of `Desk` |
| `Providers` | `commands/provider.rs` and the eight adapters of `llm/`: keys, models, tests, the router they install, the request a provider is sent | part of `Desk` |
| `EditorPills` | `EditorCanvas.tsx` (autosave), `commands/editor_pill.rs`, `editor/store.rs`, `on_editor_polish` | part of `Desk` |
| `Diagnostics` | `editor/diagnostics.rs`: the seven rules, over words and sentences | part of `Desk` |
| `Snapshots` | `snapshot.rs`, `snapshot_scheduler.rs` | part of `Desk` |
| `Sidecar` | `sidecar.rs`, `sidecar_supervisor.rs`, the status forwarder, `close_project` | part of `Desk` |
| `Heat` | `heat/*`, `commands/heat.rs`, `recompute_heat_local`: scores, settings, budget | part of `Desk` |
| `Triggers` | `orchestrator/triggers/*`, the snapshot they read, the choice among candidates | part of `Desk` |
| `Voices` | `voice/router.rs`, `character/registry.rs`: who speaks | part of `Desk` |
| `Analyses` | the block analyses of `orchestrator_service.rs` | part of `Desk` |
| `Bouquets` | `on_expand`: bouquets, their history and the overlap filter | part of `Desk` |
| `Projects` | `commands/project.rs`, `project.rs`, `rebuild.rs`, `world/seed`: creation, opening and rebuild, piece by piece | part of `Desk` |
| `Desk` | nothing of its own: one state space for the parts above that share no state | extends the twelve modules marked "part of `Desk`" |
| `Positions` | a list filtered by the places that stay in it (the code's iterators) | used by `Heat` and `Bouquets` |
| `PillService_proofs`, `PillSystem_proofs`, `Deepening_proofs`, `Records_proofs`, `SceneFiles_proofs`, `LlmRouter_proofs` (with `Providers`), `Desk_proofs` (`EditorPills`, `Diagnostics`, `Sidecar`, `Projects`, `Snapshots`), `Whispers_proofs` (`Heat`, `Analyses`, `Triggers`, `Voices`, `Bouquets`) | the TLAPS proofs | extend the modules they are about |
| `MC*` | instances and bounds for TLC | extend `PillServiceProperties`, `PillSystem`, `SceneFiles`, `Deepening`, `Records`, `Desk` |

`Desk` is a parallel exploration, not a composition: a variable `focus` names
the part that runs, the others rest in their initial states. Its parts have no
variable, lock or message in common as far as their properties tell (where two
of them meet in the code, each models the other side as an environment that
does anything), so a behaviour of all of them is an interleaving of one of
each, and an invariant of a part in every behaviour of that part holds in it.

### How state and actions correspond to the code

**PillService.** `inbox` is the channel, a sequence: the loop takes its head.
A command is in `invoked` until it `Deliver`s, when there is room, so two
commands can overtake each other before the channel and never in it.
`OrchestratorService::handle` is one action per kind of request and per path
through it. A telemetry tick is split where the code awaits: `TickAsks` stops at
the Stage-2 confirmation with what the gates decided, and
`ConfirmationDrops`/`ConfirmationMints` go on from there; no other request is
taken in between, because the loop itself awaits. `Mint` is one step, as nothing
in it awaits: the pill, the cooldown of its speaker, the time of the last mint
and the attribution change together. The spawned LLM task ends with
`PillSpeaks` (an emerged event) or `PillFallsSilent` (a dismissed event).
`LockDatabase`/`UnlockDatabase` stand for a heat task that holds the database
mutex for a while, so every `try_lock` of the learning code may fail. Which
trigger wins and in whose voice is left open here: any trigger may win, any rested
speaker may speak (`Triggers` and `Voices` say which one does). Averages are not
computed: a row is its number of observations, `ledger` remembers which ones they
were, and the tuning is the numbers that were last loaded. A session
may start on the rows of earlier ones (`Remembered`), and its first load
(`TuningPrimed`) only tries the lock: when a heat task holds the database, or
the load fails, the loop works with the default tuning over these rows until a
reward or a reset loads them again. `stale` is the history of that.

**PillLayer.** `visible` is the list of pills on screen, oldest first, and
`bus` with `read` the events the window has yet to hear. `Appear` is the whole
handler of `pill:emerged`: append, and, when the panel is over its limit, evict
the first in line. Every eviction is reported (`pill_evicted`); an engaged
pill goes to the stash, which gives up its oldest when full. `listening` says whether
the subscription is set up; events before that are missed. A recall appends the
pill again and may evict another. A pill that leaves under the pointer fires no
leave event, so its hover timer still runs (`HoverTimer`).

**SceneFiles.** A command is a task with its phase: called, past the scene
lock (`gated`), inside the database mutex with the file read (`holding`), file
emptied (`truncated`), file filled (`written`). `std::fs::write` truncates and
then writes, which is why two phases lie between read and row. `Crash` ends
every task where it is. Another program may edit, break or mend a file, and
delete `project.db` while nothing runs. Histories: `acked` remembers what the
application reported as saved, `overlapped` whether a project was opened while
commands of the previous opening ran, `lost` whether the index has to be built
anew. Simplifications, each on purpose: a body is a value with a number of
words (block markers, hashes, chapters and ordering are left out); no command
calls `move_to`; a repair is one step, because it runs inside of `open_project`
before anything else can reach the project and the next opening repeats what a
crash cut off; `scene_create` holds the application's project lock to its end,
so opening and closing wait for it (`NoCreation`). The database mutex is held
from the read of the file to the update of its row, by every command. The model
shows that the scene locks add nothing to that: every property holds from the
mutex alone, and a mutex that is not held over the read
(`DatabaseFreeOfWriters`) breaks `EditsSurvive`.

**RabbitTree, Deepening.** `rows` is the table, a function from the ids of the
thoughts to parent, message, mark and age. `draft` is what the open transaction
of `auto_trim` will commit; each DELETE of it is a step, and a failed statement
leaves the transaction open, as the code does. In `Deepening` a click (`Descend`,
`ToggleResonance`) starts a command nobody waits for: it is counted in `calls`
until it finds room in the channel (`Deliver`), before or after any other, and
the loop serves what is in `inbox` in its order. Only the first request of a
panel is awaited (`CallDeepen`; `CallFails` is the catch of its invoke, and a
panel that closes meanwhile leaves the command under way). `Fan` tasks wait for
the model outside of the loop, and an answer is stored, announced on
`deepen:ready` and heard by every open panel, whose levels adopt it by the rule
of `DeepenPanel.tsx:102`. Early returns of a fan announce `deepen:failed`. The
safety timer of 45 s may fire at any time an answer is pending. An UPDATE of a
mark may fail, of which the panel hears nothing (`MarkFails`). Closing a project
and opening it again ends its panels (`Reopen`); opening it over itself leaves
them where they are (`ReopenOver`). Two histories say when a panel may differ
from the table, which it never reads: `contested` holds the thoughts whose last
click met an opposite one under way, took away a mark another panel still shows,
or had its UPDATE fail; `taken` holds what the trims have taken.

**CharacterStore, WorldStore, Records.** A command holds the database mutex
from its first to its last statement, so commands do not interleave; what can
go wrong is between file and commit. Each command that writes both therefore has
a second action, the *cut* one (`UpdateIsCut`, `DeletionIsCut` and their like),
that leaves what a failed write
or a crash leaves: a file ahead of its row, a torn file, a row without its file,
a file in the trash whose row is still there. `Rebuild` reads characters, then
the world, and stops at the first file it cannot parse. The data of a character
(`data_json`) is reduced to its full name, its aliases and the name key; its row
lists a name beside the data, and so does its file. A rebuild takes everything in
the file for the data, the name key included (`Parsed`); from then on every
write of the file puts that key in the place of the listed name (`Written`, the
flattening of `CharacterFile`). All pages of segments without a slug share `world/.toml`, as in
the code.

**LlmRouter.** The router is asked in two ways. A call of `generate_bouquet` is a
task that goes down the chain: breaker, bucket, answer. Each lock is one step and
no lock is held over a call. `strays` counts the requests such calls send to a
provider while its breaker is open, `filled` the last refill of its bucket:
histories for the properties. A single shot (`generate_raw_with_default`,
`generate_structured_with_default`) asks the first provider at once, past bucket,
breaker and health (`AskPrimary`); `direct` counts them. The application sends
its pills, fans, polishes, bouquets and confirmations as single shots: *nothing
limits them*. It walks the chain in `provider_test` only, once on each new
router, whose chain has one provider. What `CallsAreLimited` says is the
contract of the library, which its own tests and documentation state, and no
bound on how often the application asks.

**Providers.** A router is its index in the sequence of routers built so far;
`provider_test` builds one, asks it, and installs it if the answer passed, in
three steps with other commands between them. The request of each adapter is a
record of what goes on the wire (model, tokens, number of variants).

**EditorPills, Diagnostics.** A scan carries the blocks it was asked for with
their texts; by the time it runs they may have been rewritten. Every command is one
step under the database mutex, however it ends. The findings of a scan are a
transaction of their own (`Upserted`); then the rows of other blocks are dropped
(`RunScan`), or the reading of the rows or the cleanup fails and they stay
(`RunScanUncleaned`): the window swallows the first error and never hears of the
second. A polish is asked for, counted, sent and
answered in separate steps. `Diagnostics` grows a paragraph word by word
(`Type`) and computes the findings of each of the seven rules over words and
sentences; a word is a model of one with the classes the rules test (adverb,
participle, stopword, mistake), not a string.

**Snapshots, Sidecar, Heat, Analyses.** Their tasks wait on timers, which are
countdowns in ticks. In `Snapshots` each operation is one step, as the database
is held throughout, and has a second form that ends with the process between
file, row and pruning (`TakeOneIsCut`, `ProcessEndsInTake`, `ProcessEndsInRestore`). In `Sidecar` the handle has a set of holders
and the process dies with the last of them (`kill_on_drop`); a stop wakes only a
supervisor that waits (`Notify::notify_waiters`). In `Heat` a task computes from
a copy and writes later; the write of a toggle may fail before or after it has
emptied the file (`WriteSettingsFails`). In `Analyses` an answer is the number of its request.

**Triggers, Voices, Bouquets.** A moment is the record the triggers read
(`OrchestratorSnapshot`); scores are thousandths. `Triggers` recomputes each
trigger at each moment, at the sensitivity set. `Voices` keeps who spoke when,
per track. In `Bouquets` two texts are in the relation `Echo` when their overlap
reaches the threshold.

**Projects.** A folder is the set of the pieces on disk; `create_project` adds
them in the code's order, one per step, and any step may be the last.

## 3. Runs

At most 300 s each, two workers. Statements about one component that belong
together are conjoined into one named property, next to its type invariant (for example
`CallsAreLimited` is `RouterTypeOK`, `RateIsLimited`, `BreakerCountsFailures`
and `OpenBreakerHolds`): the parts keep their own names and comments in the
modules.

| Run | Bounds | Shows |
|---|---|---|
| `minting` | three pills, two speakers with rests of 2 and 3, an interval of 2, a clock to 4, a channel of one | types; pills are spaced, speakers rest, every pill is announced exactly once, a closed project is quiet |
| `learning` | two pills, two triggers, every outcome repeated and in any order, resets, a contended database, one failing statement, a start with or without rows of earlier sessions, on a free or a held database | no reward counted twice, misattributed or written after a reset; the tuning follows the table unless its last load failed; the service implements `PillLedger` |
| `liveness` | two pills, a channel of one and two commands at it, confirmations | every terminal outcome is settled, every minted pill is answered for |
| `panel` | three pills, a panel with room for one, a stash with room for one | a pill is shown in one place; every pill that left was reported; an engaged pill leaves the screen for the stash only, or with the whole panel |
| `window` | two pills with resets and the close of the project | the composed system implements the service with the arbitrary window, so whatever holds of `PillService` holds of the composition |
| `manuscript` | two scenes, one of them to be created, two commands of any kind, two openings, one crash, one failure, one event from outside | a saved edit survives; word counts are true; a file is torn only by a crash, a failed write or another program; every command ends, in whatever order the three locks are taken |
| `deepening` | one pill, four thoughts, caps of two rows and four units of bytes, fans of two, two levels, two tasks that ask the model, four inputs (panels and projects opened, clicks, crashes) | the tree is whole; resonant chains survive every step; a trim takes no more than the caps ask for; a level shows the children of its own thought; a mark that is not contested reaches the table, whatever overtakes it; a panel stops waiting; the thoughts change by the steps of `RabbitTree` only |
| `records` | two characters, two names, one scene, one built-in page and list, one segment of the writer, one entry, six commands, cut ones and rebuilds included | points of view are present; names stay known; links are alive and files hold what their rows are written as, stale name keys of a rebuild included; locations exist; what was deleted stays away |
| `desk` | see `desk.cfg`: two providers and callers, two blocks, three snapshots, paragraphs of four words, pauses of 1 and 2 ticks, three passages, moments with up to two symptoms, two speakers per track | one property for each part, below |
| `silenced`, `crossed_panels`, `half_rebuilt` | smallest that shows it | the findings of section 4 |

What `desk` shows, part by part:

* `CallsAreLimited`: however calls of `generate_bouquet` overlap, they ask a
  provider no more often than its bucket allows; the two fields of a breaker
  agree; an open breaker is passed by no more than the calls that were already
  past it. Single shots go past both and to the first provider only (section 2).
* `RequestsAreWhole`: every request that goes out names a model and allows the
  answer a token, whatever the writer chose, cleared or never chose; the router
  in use has passed its test, however tests overlap.
* `RowsAreKept`, `FindingsAreStable`: one open row per finding and block; a scan
  that commits leaves the findings of the text it read, also when its cleanup
  fails; one that runs to its end leaves none of a block it did not meet, those
  included which earlier scans left behind;
  an even run of sentences is reported once, and a finding stays while its block
  is written on.
* `PolishIsRationed`: polishes stay below their cap and rest per block, also
  when answers are late, empty or missing.
* `TextsStayRecoverable`: every snapshot ever taken has a successor in its hour,
  day or week, as its age asks for; a scene open at the close is taken once more,
  unless its own snapshot failed; the text a restore replaces is in a snapshot,
  wherever the process ends in it.
* `SupervisorKeepsWatch`: the supervisor ends for a stop only, polls are spaced,
  the window ends up with the last status.
* `ReadingsAreCurrent`: a heat row was scored for its scene and its place, and
  the metrics of a scene speak of the same paragraphs, whatever tasks overtake;
  toggles that do not overlap keep each other's choices, as far as their writes
  succeed; the budget is never
  overdrawn; metrics of a paragraph lag behind by no more requests than fit into
  one timeout of the client.
* `WhispersAreFair`: raising a sensitivity takes no trigger away; no character
  speaks twice while another one that is present and rested has not spoken
  since; no bouquet comes close to one the writer had on the screen.
* `WhatOpensIsWhole`: a project that opens has its settings, row and segments,
  and its manuscript if it was created and not rebuilt, wherever creation or
  rebuild ended before.

**Why the bounds are enough.** The properties of the service relate at most two
pills (spacing, cooldown, double counting) and one reset. Two pills for
learning and three for minting let every pair be separated by a third. A panel
with room for one reaches eviction, stash overflow and recall with three pills;
larger panels only delay them. Two commands suffice
for every pairwise race of read, truncate, fill and row update, and two
openings for a repair of what the first one left. Four thoughts hold a
root with a chain and a fan, which is where a trim can go wrong (a protected
leaf, an interior thought, a tie in age). Four inputs open a panel and let three
clicks meet: a mark, its opposite and a third one overtake each other, and
`MarksAreKept` fails there when `contested` is not minded. That a click takes
away what another panel shows needs two panels and five inputs: this branch of
`Contested` is beyond the run and left to the proof. In `records` the interesting histories
are create, edit, cut, rebuild, edit, delete of one record: six. Two callers
make every race of one router; a paragraph of four words reaches every rule
(windows and thresholds are shortened by their constants). What matters most
is also proved for every value of the constants (section 5). `Projects`
has no constants: TLC explores all of it. Clock,
channel, calls, openings, crashes, failures and outside events are capped in the
guards by the constants of the MC modules (`Limit`, `MaxTime`, `MaxInFlight`
and their like); the channel's real capacity of 64 is shortened so that it does
fill up.

**Deadlock** is not checked where the system may stop: a project may be closed
and bounds used up. That nothing waits for ever on a lock is `EveryCommandEnds`.

**Fairness.** The tokio runtime polls every task that was woken, so each step
of the loop, of an LLM task and of a command task is weakly fair (`WF`). LLM calls and
Stage-2 confirmations are bounded by timeouts, so their tasks end; the
model lets them end with success or failure. A send to a full channel queues
in FIFO order (`tokio::sync::mpsc` reserves in order of arrival), which is strong
fairness of `DeliverRequest`: the channel is full again and again, and whoever
waits is served. A tokio mutex is FIFO too: it is handed to a waiter when it is
let go of. In `Deepening` the loop, the fans, the commands under way (as one: the
channel has room again), the delivery of events and the safety timer of a panel
are weakly fair. Nothing is assumed of the writer:
typing, opening and calling are unfair.

## 4. What the code does not do as documented

Three are runs that TLC finds violated; PROJECT.json quotes the lines.

* `silenced`: a finding the writer dismissed is inserted anew by the next scan of
  its unchanged paragraph, although `editor/store.rs` says it does not resurface.
* `crossed_panels`: two panels that wait for their first fan both adopt the
  answer that comes first; one of them shows the thoughts of another pill.
* `half_rebuilt`: a rebuild that stops at an unreadable scene leaves an index
  the next opening takes for complete.

Eight more are stated in the modules, with a comment, and checked by no run,
because the number of runs is limited. TLC finds each violated when it is put
into a cfg:

* `SkippedRewardIsReattempted` (`PillServiceProperties`): a reward skipped
  because the database was held is never written; the attribution is gone, so
  the "next outcome event" of `orchestrator_service.rs:1254-1256` does not find it.
* `OpeningCountsAsEngagement` (`PillSystem`): opening a capsule does not reach
  the service, so its eviction is booked as that of an ignored pill.
* `IndexIsRebuildable` (`SceneFiles`) and `SavedTextsAreRebuilt` (`Records`): a
  rebuild forgets canvas positions and groups, locations, points of view,
  presence, hues, segments of the writer and hidden flags; a rebuilt built-in page
  is seeded empty and its first edit overwrites the file.
* `EditsSurviveReopening` (`SceneFiles`): opening a project over itself gives the
  new commands new locks and a new connection; a command of the previous
  opening can undo a later edit.
* `NamesMirrorTheData` (`CharacterStore`): the name column "mirrors
  main.full_name" (`character/mod.rs:486`). After a rebuild every write of a
  character's file carries the old name key in the place of the new one, and the
  next rebuild lists the character under its old name.
* `StopEndsThePolls` (`Sidecar`): a stop that comes during a health call is lost.
* `CharacterKeepsThePause` (`Triggers`): `max_by` returns the last of equal
  candidates, so the plain pause wins over the one with a present character,
  against `idle_pause.rs:54-58`.

Seen while modelling, without a formula of its own:

* *Service.* `feedback_reset` reports success when the database was held and
  nothing was reset (`ResetGivenUp`). `seconds_since_last_pill` is 60 in every
  snapshot. The stage-2 await holds up the whole loop, and a rejected
  confirmation leaves no mark, so it is asked for again at each tick.
  Attributions of failed pills are never drained. A session that starts while
  the database is held works with the default tuning over the rows it has, until
  the first reward or reset; nobody is told. `scene_excerpt_for` takes the
  first occurrence of a block id.
* *Expand.* Pills a character speaks never expand; items of one bouquet are
  not compared with each other; two concurrent regenerates can pass the same
  text; the service never sets a pill's text, so `parent_text` is empty;
  a failed regenerate dismisses the pill.
* *Panel.* A pill recalled from the stash has lost its engagement although its
  panel opens with it. `MAX_ON_SCREEN` is 4, its comment says otherwise.
* *Pinned pills.* A pin that overtakes its own dismissal shows a ghost; the
  initial fetch of `PinnedColumn` overwrites events it heard before; pinning a
  chorus pill twice makes two stub entries, though `pill.rs:119` says it is a
  no-op; an unpin leaves the stub.
* *Rabbit hole.* A mark whose UPDATE failed stays on the screen: the comment at
  `orchestrator_service.rs:1079-1082` counts on the renderer's "next read of the
  tree", and the renderer never reads it. Two commands of one thought may
  overtake each other, and then the panel and the table differ. The second pass
  of the trim never happens (proved: `InteriorIsNeverTrimmed`); a failed
  statement leaves the transaction open.
* *Scenes.* A reset of the canvas never reaches the files, as the next rename
  writes the old position back; a scene that cannot be parsed makes the whole
  project fail to open, against the header of `repair.rs`; file hashes are
  computed and never read.
* *Records.* Deleting a segment leaves files of entries that a rebuild revives
  as segments; a torn character file or an orphan ends a rebuild; a failed move
  to the trash resurrects the character; `world/store.rs` claims that a file's write only
  sticks when its row lands, which a crash refutes.
* *Editor.* A cleanup that fails is dropped (`let _ =`), and a scan whose findings
  are committed but not read back is reported as failed. Rows of corrected
  findings stay active; cleanup deletes dismissed rows its comment keeps for telemetry; the canvas's autosave cancels its own
  continuation (`EditorCanvas.tsx:208`); an answer of the polish can add a row to a
  removed block; "its own way of" is replaced by itself.
* *Providers.* `docs/ARCHITECTURE.md:582-584` sends confirmations and the bouquets
  of `pill_expand` through `generate_bouquet`, "with circuit-breaker + rate
  limit"; the code sends both as single shots (`orchestrator_service.rs:2055`,
  `1884`), so no call of the service is limited. "no providers configured" is also
  said when all breakers are open; `provider:status` comes before the router is installed; a model chosen
  during a running test is lost. A polish is not given back when it fails.
* *Snapshots.* The application never calls restore; errors are dropped; the
  first tick fires at once; quitting right after a close may skip its snapshots.
* *Sidecar.* It is never started again after it died, and its port is fixed.
* *Heat.* The typing history is never written, so pacing is empty; the budget
  is not used by the application; of two overlapping toggles one is lost; a
  toggle whose write fails may take all the others with it; an
  emptied scene keeps its rows; a held database reads as an empty history.
* *Analyses.* The analysis is not reset at a scene switch although a comment
  says so. *Voices.* A persona that never spoke counts as the one that spoke last.
* *Projects.* A creation that was cut leaves a folder that blocks a second try
  and may not open; a database left by a rebuild that was cut before the row of
  the project can never be opened again.

## 5. Proofs

TLAPS checks 40 theorems for every value of the constants: any number of
pills, speakers, scenes, callers, thoughts or records, any interval, cooldown,
vocabulary and cap. The assumptions are the named `ASSUME`s of the modules (TLC
evaluates them in the runs). Every invariant and every action property of the
passing runs is stated by one of them; what is left to TLC is liveness.

*`PillService_proofs`*: `TypeCorrect`, `PillsAreSpaced`, `SpeakersAreRested`.
Spacing is not inductive: the gates are read before the Stage-2 confirmation is
awaited and the mint happens after. The invariant adds that the time of the
last mint and the clocks of the speakers bound all mints so far (`LastMintIsLatest`,
`SpokeIsLatest`), and that a tick that waits for a confirmation has passed gates
that are still open (`GatesStayOpen`): while the loop waits nobody else mints,
and time only widens the gap.

For learning: `NothingIsCountedTwice`, `RewardsAreWellAttributed`,
`ResetForgetsThePast`, `AttributionsCloseOnce`, `ClosedProjectsAreQuiet` and
the refinement `ServiceKeepsTheLedger`. The invariant says that a pill with an
open attribution was minted after the last reset, has no observation in the
table yet and that the attribution carries the trigger and mode of the mint
(`OpenAttributionsAreNew`), and that every observation belongs to a pill minted
after the last reset, with its trigger and mode (`LedgerIsOfTheMinted`). For the
closed project it says that an ended loop awaits no confirmation. Removing the
attribution in the same step that writes the reward is what keeps the first
part; the action properties and the refinement follow step by step, one per
action. `AttributionIsClosedOnce` is proved and no longer part of a run.
`TuningIsTheTable`: the sensitivities of the loop are those of the table unless
the last load of a changed table failed, at the start or after a reward; an
invariant of its own (each action that touches the table sets `stale` to what its
load was worth). `NothingIsAnnouncedTwice`: an
announcement needs the task of a minted pill, and ends it; the invariant adds that
only minted pills have tasks.

*`PillSystem_proofs`*: `WindowIsAllowed` is the step simulation of `IsAService`.
The panel only reports pills it was told of (`PanelHeard`), so whatever it, the
telemetry and the settings send is a command that the arbitrary window of
`PillService` could send; every theorem about the service then holds of the
composition. `PanelsKeepTheirPills` and `EvictionsAreReported` use one of them:
that a pill is shown in one place only needs `NothingIsAnnouncedTwice`, since a
second event for a pill would put it on the screen beside its own capsule in the
stash. For the evictions, a request in flight or in the channel is not lost
while the project is open (`ReportsStay`).

*`Deepening_proofs`*: `NoThoughtIsOrphaned`, `InteriorIsNeverTrimmed`,
`ResonantChainsAreKept`, `TrimsAreMinimal` and `DeepeningUsesTheTree`. The
invariant is about the trim under way (`TrimInv`): its draft is the table
without some thoughts, none of them spared, and the last one it took was taken
from a tree above a cap. That the second pass is idle needs an induction over
the tree: below a thought that may be trimmed there is a leaf that may
(ids grow from parent to child, which makes the tree well founded).

`LevelsAlwaysFollowTheTree`: an announcement carries thoughts that were stored
with the thought it is about as their parent. A trim at an opening may take some
of them from under an answer on its way or a panel that outlived the opening; it
takes nothing else (`taken`). `PanelsAreTrue` adds the marks, for any number of
panels. The table alone does not carry it: `MarksInv` says of every mark on the
screen that is not contested that the thought is in the table or was taken, that
no opposite command is under way, and that either its own command still is or
the table has it. The lemmas follow one click through the program: what is
contested only by clicks and failures (`OnlyClicksContest`), a command stays
under way until it is served (`MarksStayUnderWay`), serving it writes the mark
(`MarkingWrites`), and nothing else clears it (`TheTableKeepsMarks`): what could,
an opposite command, was clicked in this panel or in another one, and either
contests the mark.

*`Records_proofs`*: `PointOfViewIsPresent`, `NamesStayKnown`, `WorldIsKept`,
`RecordsStaySound`, `DeletedCharactersStayAway`, `DeletedEntriesAreGone`. What makes them inductive is
what the files remember (`FilesRemember`): the file of a character knows every
name it had, also while the index is without it, because a rebuild believes the
file. `RecordsStaySound` keeps the data and the file together through the stale
name key: the file is `Written` of the data, which is the same before and after
`Parsed`. For the world: every entry belongs to a list that has its file's folder
(`EntriesAreListed`).

*`SceneFiles_proofs`*: `ScenesTypeCorrect`, `SavedEditsSurvive`,
`SceneFilesAreSound`. The invariant says that at most one command per opening
holds the database, that a holder between its read and its write carries the
file except for the field it changes (`WritersCarryTheFile`), and that nothing
is acknowledged before it is written (`NothingIsPromisedUnwritten`). The proof
never uses the locks of the scenes: the mutex of the database, held from the
read to the end of the write, carries `EditsSurvive` alone. It does use that a
creation takes an id no other command works on (`NewScenesAreNew`), and that a
missing and a torn file are told apart from each other and from every readable
one (`SceneAssumption`). Two openings of the same project in one process are
outside of it: there the statement fails (section 4, `EditsSurviveReopening`).

*`LlmRouter_proofs`*: `ProvidersAreSpared`, about `generate_bouquet`; single shots
are counted apart and touch neither bucket nor breaker. That an open breaker holds is not
inductive: the invariant counts the calls that have passed the breaker and not
yet reached the bucket (`StraysAreCounted`); the call whose failure opens the
breaker is not one of them, hence the strict bound. `EveryRequestIsWhole`
(`Providers`): the router in use has passed its test, and a request that leaves
was built from it or is a test, however tests overlap.

*`Desk_proofs`* is about five parts of `Desk`.

* `FindingsAreShownOnce`, `PolishIsAlwaysRationed`: one row per finding is
  inductive; the step that matters is the scan, whose insertions are shown to be
  pairwise different by counting them (`FiniteSetTheorems`), with its cleanup or
  without it.
* `FindingsAreAlwaysStable`: the windows of even sentences are given by a
  recursive function. It is shown to exist, and its windows to be apart and to
  meet every even run, by least counterexample.
* `WatchIsKept`: the time since the last poll and the time until the interval
  fires never add up to less than the interval (`PollsApart`), and a loop that
  was woken by a stop was stopped (`StopsWhenTold`).
* `OpenProjectsAreWhole`: `water.toml` is the last but one piece a creation puts
  in place and the first an opening asks for, so what opens has what came before it.
* `TextsAreRecoverable`: of the readable successors of a snapshot within its hour,
  day or week, the newest is never thinned out, because what would make it
  superfluous is a newer readable successor. This needs spans that nest, so that
  a snapshot's grade only becomes coarser as it ages (an assumption on the
  policy, `SnapshotsAssumption`: hours divide days and days divide weeks, as in the code). For the close: the
  requests `close` and `stop` are the last ones in the scheduler's channel.

*`Whispers_proofs`* is about the other five.

* `ReadingsAreAlwaysCurrent`: rows that lie in the heat map of a scene come from
  one batch, and a batch was scored for its scene; a toggle that overlaps no
  other ends with the row it read, changed in its own field, or with what a failed
  write has left. For the metrics: an
  answer that is still out has, for each later request, one debounce of age
  behind it, so no more of them exist than fit into a timeout of the client.
* `WhispersAreAlwaysFair`: a raised sensitivity moves every bar of every trigger
  towards firing (`BarsMove`), so what fired still fires and the best candidate
  is no weaker. For the voices, whoever spoke since has a later turn. For the
  bouquets, what is on the screen is in the history that new items are compared
  with, and a bouquet keeps what is distant from all of it.
* `PartsHold` maps a behaviour of `Desk` to one of each part: while the focus is
  elsewhere the part stutters.

Two devices are used throughout. A recursive function or an argument over the
length of a list is handled by the least counterexample (`LeastOf` in
`Desk_proofs`, from `NatLessThanWellFounded`), where the library's induction
theorems would need an operator as parameter. Lists that the code filters are
written in the models by their places (`Positions`, `Before` in `Voices`,
`Without` in the panel) instead of with `SelectSeq`, whose recursion the provers cannot see into; TLC
evaluates the same definitions.

**Only model-checked.** Liveness: `EveryCommandEnds`, `PanelsStopWaiting`,
`TerminalOutcomesSettle` and `EveryPillIsAnswered` rest on fairness, and TLAPS
proves nothing about ENABLED. The three violations of section 4 and the eight
formulas next to them are refuted, not proved. The runs allow one command in
flight (`liveness`: two) beside the one in the channel; the proofs hold for any
number.

## 6. Not modelled, and why

* Migrations: one SQLite transaction per version with its version row; what
  could go wrong is inside of the library.
* Pinned pills: what would be worth stating of them does not hold (section 4),
  and no line of the repository promises it.
* Pill lifecycle and eviction inside of the core (`eviction.rs`, `arc.rs`): the
  service never leaves the state `Generating` and the victim it would pick is
  not used (comment at `orchestrator_service.rs:1664-1669`).
* Effects and timers of the editor's components in the window: `SceneFiles`,
  `EditorPills` and `Snapshots` accept their requests in any order.
* Block ids (`block.rs`), chapters, templates, hues of a segment, hidden flags:
  data of a row that no property tells apart.
* Prompts, filters, tone audit, replay log, anchors, canvas layout: pure
  functions over text or geometry.
* The Python sidecar: answers or failures at any time.

## 7. Plan

Every safety property of the runs is proved. What would say more:

1. `Triggers` and `Voices` composed with the gates of `PillService`, instead of
   its open choice of trigger and speaker, and the composition shown to implement
   `PillService` as `PillSystem` does.
2. The safety half of the liveness properties: the lemmas a liveness argument
   rests on (whoever waits for a lock is in its queue; a panel that waits has a
   request, a task, an answer or an armed timer on its way) as invariants, so
   that only fairness itself is left to TLC.
3. `RabbitTree` as seen by `Deepening` has a refinement theorem; the same for
   an abstract store of texts under `SceneFiles` (a saved text is what a reader
   gets) and one of records under `Records`.
4. Shorter proofs where one invariant was split by commands more finely than
   the argument needs.
