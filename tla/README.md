# A TLA+ verification of correlator

correlator is a desktop application (Electron) that shows logs and metrics
collected by *sumps*: small servers (Python, FastAPI, Redis) that run beside the
containers they watch. This directory holds TLA+ models of the program, the TLC
configurations that check them on small instances, and proofs, checked by TLAPS,
of what holds for every instance. Every definition is translated from the
source; `PROJECT.json` maps each one to the lines it stands for.

## The system

### Components, their state and their operations

| Component | Source | State it keeps | Operations that change it |
|---|---|---|---|
| Recording sessions | `app/lib/recording-session.ts`, `app/shell.ts` 804-994 | rows of `recording_sessions` (status, open segment, closed segments) | start, pause, resume, stop, dismiss; an event rule's start and stop; boot recovery |
| Downloads | `app/shell.ts` 267-385 | `.recording` / `.track` files, rows of `recordings` / `tracks`, references in a project file | export of a segment, manual downloads |
| Sump lifecycle | `app/lib/{lifecycle,provision,local-sump,auth-token,net-wait}.ts`, `app/shell.ts` 214-247, 455-464, 559-801 | rows of `sumps`, the primary sump, the containers outside | install (local, remote), connect, promote, discover, select, edit, uninstall |
| Catalog | `app/lib/catalog.ts` | a SQLite file | single statements; no transaction spans two of them |
| Event rules | `app/lib/events.ts`, `app/shell.ts` 893-994 | rows of `event_rules` | create, toggle, delete, evaluate |
| Correlate page | `app/renderer/src/Correlate.tsx` | its copies of a sump's records, session, notices, rules and alerts | open, select another sump, refresh, a click, an answer |
| Project files | `app/lib/project.ts` | one JSON file per project, with the live context it is bound to | create, load, save, bind, add a reference |
| Client windows | `app/lib/detach.ts`, `app/renderer/src/**` | view and cursor of each window, one detached window per kind | move the view (a click on a line, a load), detach, reload, close, broadcast |
| Sump switcher | `app/renderer/src/sumpSelection.ts`, `App.tsx` | the list last fetched | filter, resolve the active sump |
| Preferences, snapshot, archives, menu, entry | `app/lib/*.ts`, `app/main.cjs` | a settings row; files opened before the window is ready | load, save, format, parse |
| Ingest and queries | `server/.../{ingest,records,query}.py` | a Redis list of everything; a stream per host and kind | ingest, page through records, export |
| Relay | `sump-plugin-logstream` | two cursors | poll a page, ingest it |
| Mesh and privacy | `server/.../{mesh,federation}.py` | owner, nonces, peer list, owner of each data source | claim, nonce, rotate, sync, set privacy |
| Plugins and lifespan | `server/.../{plugins,app}.py` | registered transports, sources, tasks | discover, start, isolate, shut down |
| SSH plugin | `sump-plugin-ssh` | a worker thread, its buffers and its queue | run, stream lines, cancel |

### How they interact

The renderer calls the main process over IPC; the main process reads and writes
the catalog and the project files, runs docker and ssh, and sends HTTP requests
to sumps. Event rules call the session operations. A closing session downloads
its segment as any download does. `list-sumps` asks every active root sump for
its docker hosts and registers one *logical* sump per host; the others query
through those. Windows send each other their view over a relay in the main
process. Inside a sump, plugins register data sources and background tasks;
Fluent Bit and the relay feed ingest; queries and exports read the streams.

### What is hard

The main process is one event loop: a handler runs alone from one `await` to the
next and interleaves with every other there. Handlers read a row before an
`await` and write it after; nothing is locked, and no two statements share a
transaction. Docker, ssh and HTTP fail or take long; the process may die between
any two writes, and only recording sessions have a recovery. The sump is one
event loop too, over a Redis that other requests write between two awaits.
`PROJECT.json` lists each hazard at its line with the properties that watch it.

### What makes each component correct

* Sessions: a stop is final; one active session per sump; segments follow one
  another and none is lost, also across a crash; a segment names a file that
  holds it.
* Downloads: file, row and reference appear in an order that never leaves a
  reference to nothing.
* Lifecycle: statuses move along the transition table; hosts are live only under
  a live root; the token of a row is that of its container.
* Projects: a project holds references of one live context.
* Page: once all calls are answered it shows what is stored for its sump.
* Windows: a detached panel is in a window or comes back; windows moved one at a
  time end with the same view and fall silent; no late answer is shown.
* Queries: the pages of one listing have every record that matched when it was
  asked for, each once, and come to an end.
* Relay: no record twice within one listing and none skipped; every record that
  stays in its window long enough is copied.
* Mesh: one owner at a time, each nonce used once, a verified peer neither
  forgotten nor degraded by a synchronisation alone on the list.
* Lifespan: tasks start after every plugin has registered and stop before the
  process does; a task that fails takes no other with it.

## Modules

| Module | Models | Checked by |
|---|---|---|
| `RecordingSessions` | sessions, exports, event-rule actions, boot recovery, crashes | `MCRecordingSessions_*.cfg` |
| `RecordingSessions_proofs` | its theorems: with any number of calls in flight, and with one | TLAPS |
| `SessionRecorder` | abstract: sessions whose pauses, stops and recoveries are atomic | implemented by `RecordingSessions` |
| `SumpLifecycle` | the sumps table, installs, discovery, uninstalls, crashes, the switcher's filter | `MCSumpLifecycle_*.cfg` |
| `SumpLifecycle_proofs` | its theorems | TLAPS |
| `RecordPages` | operators: what one read of a stream returns, and its cursor | by the two modules that extend it |
| `RecordPages_proofs` | lemmas about these operators | TLAPS |
| `RecordStore` | ingest connections and paging exports over one Redis | `MCRecordStore.cfg` |
| `RecordStore_proofs` | its theorems | TLAPS |
| `RecordListing` | abstract: a listing that knows nothing of pages | implemented by `RecordStore` |
| `SumpServer` | a server's lifespan, its background tasks, the relay among them | `MCSumpServer.cfg` |
| `SumpServer_proofs` | its theorems | TLAPS |
| `Mesh` | ownership, nonces, peer list, privacy of data sources | `MCMesh.cfg` |
| `Mesh_proofs` | its theorems | TLAPS |
| `ClientWindows` | main and detached windows, their view, its relay, the panels' queries | `MCClientWindows*.cfg` |
| `ClientWindows_proofs` | its theorems | TLAPS |
| `CorrelatePage` | the Correlate page, its calls to the main process and the handlers that answer them, event rules | `MCCorrelatePage.cfg` |
| `CorrelatePage_proofs` | its theorems | TLAPS |

Three compositions: `SumpServer` runs the relay over streams read with the
operators `RecordStore` uses; `RecordStore` is checked against `RecordListing`;
`RecordingSessions` against `SessionRecorder`. An operator marked `Fault` is no
part of a model: it is what its neighbour would be with a plausible bug, and each
shows that a property can fail.

### RecordingSessions

`sessions` is the table, one row or `Null` per id; `archive`, `recordings` and
`references` are the files, their catalog rows and the default project's
references. A handler that awaits an export is split at that `await`: its first
half (`CloseRow`) puts the row it read in `calls[c]`, its second half
(`SettleExport`, `SettleUnsaved`) writes that copy back. `DownloadAndRegister`
performs the first *n* of the export's three writes, so an export that throws,
or that a crash interrupts, is a smaller *n*. `Boot`, `CoerceInterruptedSession`
and `RegisterIpcHandlers` are the recovery, which runs alone before any handler
is registered. An evaluation of several event rules is a sequence of
`EvaluateEventRule` steps. `DownloadRecording` is the user's own download: the
same three writes, outside every session, and as atomic, because after the one
`await` for the bytes the code runs to the end.

Times are instants of a clock that does not go back; ids are fresh; file
contents are the window they were exported for. Left out: names, formatting, the
touch of the sump's last-seen time, listing handlers that change nothing.

Runs:

* `recording_overlap` - one session, two recordings, two calls in flight, a
  catalog that may throw, two segments, three instants. Two calls are enough for
  each to overwrite the other; two segments for an order between them; three
  instants for a segment between two others' bounds. `NoticeStands` is about the
  interrupted mark, a column that every handler writes back from its copy: `unread`
  is a history variable, the sessions the recovery has marked and the user has not
  dismissed since, and their mark stands however the copies cross. It stands because
  the recovery is awaited before a handler is registered; the mutant does not await it.
* `recording_serial` - two sessions, one call at a time, a catalog that does not
  throw. Two sessions are what `OneActivePerSump` needs to be violated. `RecordsLikeARecorder`
  is the refinement: seen through the mapping in the module, every handler, split
  or not, is one step of `SessionRecorder` or a stutter. The mapping leaves out the
  interrupted mark, the ids of files (a stretch was kept or not) and everything
  outside the table; a cut may be at an instant before now, since the code takes
  it before it awaits the export.
* `recording_resurrect` - two calls in flight. TLC finds the disagreement of the
  code with its tests: a pause that settles late takes a stopped session back to
  paused.

Observed and not a property: the same stale copy carries the interrupted mark,
so that a notice dismissed while a pause or stop awaits its export comes back.

These runs do not check deadlock: the model stops when its clock, ids and
segments are used up, which the program does not. `Ranges` is what users may
download: one stretch, which a segment may have too.

Fairness (`FairSpec`): an awaited export settles, the recovery's loop goes on,
and handlers get registered. The event loop runs what is ready, so the last two
hold; the first is an assumption on the network, since the code sets no timeout
of its own. Nothing is assumed of users, rules and crashes.

### SumpLifecycle

`sumps` has a row for each root sump and for each pair of a root and a docker
host; `server` is the environment, the token of the container that runs for a
root. A handler that awaits keeps what it will use later in `calls[c]`: the
token of an install, or the roots and tokens a discovery read. `Retire(s, n)` is
the first *n* of the writes that end an uninstall. A discovered host's row is
inserted if absent and otherwise left alone, as the SQL does. `Overlap` says
whether a handler may start while another awaits, `TornWrites` whether a crash
may come between two of an uninstall's writes.

Host and port are copied and edited with the token, which stands for the three.
A promoted sump is its own connection type here: an `ssh` row without a recorded
target, which the uninstall refuses. `unreachable` is declared by the source and
written by none of its code. A docker command the process had started when it
died may take effect, at the crash and not later.

Runs:

* `sumps_serial` - the local sump and one other, one host, two generated tokens
  and one typed, one handler at a time. Two roots let one be installed while the
  other lives; two tokens let a reinstall differ from what runs. It checks
  deadlock.
* `sumps_dangling` - handlers may overlap: a disconnected sump gets a live host
  from an answer that was on its way.
* `sumps_race` - two calls and overlap: a retired sump becomes active.

No fairness is assumed: an install that a command never lets end, or that a crash
cuts off, leaves its row provisioning, and nothing repairs it.

Observed and not a property: a root with a live host is hidden from the
switcher, and only roots have an uninstall button, so such a root cannot be
uninstalled from the user interface. And a host's row keeps the status and the
connection it was inserted with: after its root was uninstalled and installed
again, or edited, the row stays retired, or stale.

### RecordPages, RecordStore and RecordListing

A stream is a sequence of lines and an entry is its position. `Matching`,
`Remaining`, `Page`, `HasMore` and `NextCursor` are the body of `_fetch_kind`
(records.py): read everything, sort by instant and id, drop what is up to the
cursor, cut. Ids are compared as strings, so entries of one instant are ordered
by `IdRank`, an arbitrary ranking, and not by position. A record without an
instant makes every read of its stream raise (`Readable`).

`RecordStore` splits ingest between its two Redis commands (`PushToList`,
`AddToStream`); a failure or a sender that hangs up closes the connection with
the record in the list only. An export reads one page per step, and anything may
be ingested between two pages.

The run `store` has two senders, one export, a log query and a metric query, and
three entries: one more than the pages of one record need to have a first, a
middle and a last, and enough for an arrival before and one after the cursor.
Two exports read and change nothing of each other's. `ExportsList` is the
refinement: the pages together have every record that matched when the export
was asked for, and none that does not match. `StreamsWithinList` compares
streams with the list across failures; `PagesAscend` says that no page repeats a
record. `ExportsEnd` needs only that the loop goes on: the cursor moves. Deadlock
is checked.

### SumpServer

One process: `discover` loads the plugins and fires the three hooks, the ingest
server opens, each factory gives a task; a shutdown closes the server, waits for
its connections, cancels the tasks and awaits them. `ProcessEnds` forgets all
that is in memory, and `Start` is supervisord. The relay is modelled to its
awaits: the poll (`FetchPage`), then two commands for each record. Cursors move
only when a whole page is in; a page is the set of the two kinds' entries, taken
in the order of instants (`Before`). The polled sump is external, and answers with pages
as `RecordPages` has them.

The run `server` has a plugin with the relay, one with another task, one that is
disabled, and one sender. Three records over the two kinds make two listings of
different lengths run side by side; a window of one instant and a clock that
moves once past it let a cursor's record leave the window; one failure of any
kind is placed everywhere. Two histories are what `OncePerListing` speaks of.
`pass` counts how often a record was added since its kind's listing began; what a
failed poll has added of its page is not counted, since the next poll gets it
again. `owed` says how many entries the listing owes: those the stream had at its
first poll, and none once its cursor names a record that has left the window, for
then the polled sump answers with an empty page and the next poll begins anew.
Whenever the relay sleeps, what is owed, still in the window and not behind the
cursor was added exactly once. Deadlock is checked.

Fairness: startup, shutdown and the relay go on when they can. The event loop
runs what is ready and the relay's HTTP client has a default timeout; nobody is made to
hang up. `DrainEnds` therefore has the condition that connections close:
`wait_closed` waits for those still open, and a forwarder holds its connection
as long as it runs.

Observed and not a property: a listing that ends is begun again, so the relay
copies the last hour over and over; a page that fails half-way is copied again
from its start.

### Mesh

A request is in `calls[c]` between two Redis commands, with what it read. A claim
is one command (`SET NX`), a nonce is consumed by one (`GETDEL`); a rotation
reads the owner, consumes the nonce, has ssh-keygen verify and overwrites; a peer
synchronisation loads, merges and saves; the privacy of a source is read and
written. `FailRequest` ends any of them anywhere. A nonce stands for the key of
Redis: unused, live, gone.

The run `mesh` has two requests at once, two keys, two nonces, one peer, two
users, one data source. Two requests are what a race needs. The routes of the
three groups share no key and no handler, so a behaviour uses one group
(`OneRoute` in `MCMesh`). Deadlock is checked; no fairness is assumed.

Observed and not a property: of two synchronisations that overlap the second
save drops the peers of the first; of two overlapping first claims of a source
the second takes it; of two overlapping rotations the second may be signed by an
owner who is no longer one. The properties say what is left: a list is never
worsened by a synchronisation that no other overtook; the owner of a source is
one of those who found it without one; whoever changes the owner was owner when
its request was read.

### ClientWindows

A window is a process with a view, the render of it, and the effects of that
render; between any two of these a message may be received. `IsEcho` is the
comparison with the last view received, `QueryRange` the panels' query effect
with its cancellation. `outbox` and `inbox` are the two directions of IPC, in
order, through the main process (`Relay`). `HandleDetach`, `OpenDetachedPanel`,
`LoadFile`, `LoadFileFails`, `Closed`, `DetachedPanelClosed` and
`DetachRejected` are a panel's way out of the main window and back, `registry`
and `detached` the two places that remember it. `Reload` is the menu's: the page
of one window begins anew, and with the main one's goes all that it remembers and
awaits (`awaited`, and the status `reloading`). `calm` is a history variable: the
last move or mount came when nothing else was going on, and the move did not
return to the view its window had been told last.

The runs:

* `windows` - the main window and the log, two views, two moves or reloads, two
  clicks of the button. One panel is enough for its window to be opened, closed and opened
  again with a message of its former life on the way; two moves are what crosses.
* `windows_crossing` - with the sidebar too. TLC finds the disagreement with the
  header of `useSyncedView.ts`: two windows whose views cross take over each
  other's and rest.

These runs do not check deadlock: when the user has used up moves and clicks, the
windows rest.

Fairness: every process handles what it has got, a load and a query end in one
way or the other. `EchoesDie` has a condition, that from some time on moves and
mounts come one at a time. Without it TLC finds two windows that keep sending each
other the view they rendered last, because an effect runs with the values of its
render and compares them with a remote value that has changed since.

Observed and not a property: when `loadFile` rejects, the blank window stays
registered, and the next click on the button shows it again. The view a panel is
opened with is in its URL, where nothing reads it: a panel opened late mounts
with the default view, and sends it to all others.

### CorrelatePage

`page` is what the component holds; `requests` and `replies` are the two
directions of IPC, each in order, and `working` the handlers that await: a query,
the export of a pause or stop, an evaluation between two of its rules. A handler
that awaits nothing reads and answers in one step. A call carries the sump of the
render that made it, as the closure does. The component stays when another sump
is selected, with all it holds; `SelectSump` is then a render and its effect
(`Effect`), which loads anew. `LeavePage` leaves the calls under way to be
answered to nobody (`live`). `Receive` is the code behind an `await` of the page:
what it sets (`Shown`) and what it calls next (`Follows`). A rule that is deleted
keeps its number. Which samples match a rule is a choice among the enabled ones.

The run `correlate` has two sumps (symmetric), three sessions, one rule and three
acts of the user, from a table that is empty, or has a session an earlier page
left recording, or one a crash left paused with its notice. Three acts are what
two clicks on a page that is open need to overlap, and what a rule needs to be
created and then evaluated or removed. It does not check deadlock: the acts are
used up.

`calm` and `ruled` are history variables, and the properties are about a page
whose sump was selected while no call was under way. Otherwise, observed and not
a property:

* the answer to an earlier sump's load is shown under the sump selected since;
* until the new sump's session is answered, the buttons act on the earlier one's,
  and the answer puts that session on the page of the new sump;
* a session that a rule has started or stopped shows only when the page is opened
  or a sump is selected again;
* the alerts of the sump selected before stay up.

## What is proved

For every value of the constants, and so for any number of sumps, ids, calls,
windows, connections and requests. Each component's assumption on its constants
is named in its module and says no more than that the null value is none of the
others, that bounds are natural numbers, and which sets are within which. TLC
evaluates it on every run.

The argument is the same everywhere: a property is seldom inductive, because what
a step writes comes from a copy somebody holds; so the inductive invariant says
of copies and messages under way what the property says of the state. It is
proved to hold initially, to be preserved by each action, and to imply the
property. Action properties follow
from the same invariant, one step at a time.

`RecordingSessions_proofs`, whatever handlers overlap:

* `TypeCorrect`; `RowsAreCoherent` and `SegmentsAreChained` (status, open
  segment, stop time and segments of every row agree); `ReferencesAlwaysResolve`,
  `SegmentsAreBacked` (the store is consistent at every instant a crash could
  choose); `NoticesStand`. The strengthenings: a call in flight holds a recording
  row with an open segment (`CallsExport`), a copy's segments are chained up to
  the instant its call began (`CallsChained`), a copy's recordings are in the
  store, which only grows (`CallsBacked`), the recovery has no other call beside
  it (`BootAlone`, `BootCallAlone`), and a copy some handler holds shows the mark
  of every session still unread (`CopiesMarked`).
* `BootLeavesNoRecording`, with a catalog that does not throw, needs `BootCollects`:
  a session still recording during the boot is queued or being closed. When the
  catalog throws, the code goes on to register its handlers, and the property is
  false.

In its second part, with one exporting call at a time (any two members of
`Calls` are equal; `recording_resurrect` shows what happens otherwise):
`OneSessionRuns`, `StoppedForGood`, `CapturesAreKept`, and `SessionsRecord`, that
`RecordingSessions` implements `SessionRecorder`. `CopiesFresh` is what one call
gains: the copy it holds is still the row, but for a dismissed notice.
`SessionMoves` says in which five ways a step may move a row (start, resume, cut,
end of a paused one, notice); each of the three properties and each abstract step
is read off one of them.

`SumpLifecycle_proofs`: `TypeCorrect` and `SwitcherShowsALiveSump` without
condition; `HostsGoWithTheirRoot`, `ContainersAcceptTheirRow` and
`StatusMovesAlongTheTable` when handlers do not overlap and no crash comes
between two writes of an uninstall. The runs `sumps_dangling` and `sumps_race`
show that the first condition is needed; a torn uninstall leaves a root retired
and its hosts live. `CallsHold` says what a handler may rely on when it goes on
(the row it installs is provisioning, with its token), `RootsServed` that a local
sump without a token has no container either, so that a new token meets no old
container.

`RecordPages_proofs` has the lemmas about reads: `Precedes` is a strict total
order of dated entries, a finite set of entries has a first, a page is the least
part of what remains and its last entry divides it from the rest, an arrival
changes nothing of what was cut before.

`RecordStore_proofs`: `TypeCorrect`; `NothingBesideTheList` counts, for each set
of lines, those in a stream and those between their two writes, which together
are at most those of the list; `PagesFollowOneAnother`; and `PagedExportsList`,
that the paged export implements `RecordListing`. `ExportsInv` says of an export
that all it has served is up to its cursor and that each record it owes is served
or remains.

`SumpServer_proofs`: `TypeCorrect`; `RelayOutlivesFailures`, which needs that
there is no task before the server serves; and `OnceEach`, that a listing
ingests each record once. Two invariants tie the counts of `OncePerListing` to
the cursors. `ListingInv`, for no record twice: what was ingested of a kind in
this listing is at or before the place the next page begins after, and what is
left of a page was not ingested yet. `SkipInv`, for none skipped: what is owed
and at or before the place a poll began after was ingested, and what is at or
before the place the next one will begin after was ingested or is in the page.
A record that arrives is never owed, a clock that moves on only takes records
out of the window, and a failed poll goes back to the first of the two places.
The proof assumes nothing of the window, the page size, or the rate at which
records arrive and age.

`Mesh_proofs`: `TypeCorrect`; `NonceUsedOnce` and `OwnershipRotates` (an accepted
nonce is gone, a verified rotation has the owner's signature); `PeersAreKept` (a
synchronisation that no other overtook has loaded the list that is there);
`FirstClaimantOwns` (whoever is about to write found no record or its own).

`ClientWindows_proofs`: `TypeCorrect`; `AnswersInOrder` (a query that was not
cancelled asks for the last range); `NoPanelLost` (while the main page is not
there, nothing is detached); `CalmMovesSpread`. For the last, `Spread(v)` follows
one view through the windows: one window at most still has to tell it, and then
nothing else is under way; after that it is the only view told, rendered or
echoed, and a window without it has it coming.

`CorrelatePage_proofs`: `TypeCorrect`; `RestShowsThisSump` and
`RestShowsThisSession`, for any number of sumps, sessions, rules and acts (one
session at least: the table may have one at the start). What the page shows at
rest is the end of what was on its way, so the invariant speaks of queues.
`Typed` says that a call names what exists, that a copy of a row is of its row's
sump, and that an answer fits its call. `Moves` sorts the steps into eight: a
call is asked for, a sump shown, the page left, an answer heard, a call taken up,
answered, settled, or an evaluation goes one rule further; each part of
`PageInv` is then shown to be kept by each of them:

* `AllHere`: with `calm`, every call on its way is of the sump selected, and acts
  on a session of this sump. `RecordsHere` follows from it.
* `Loading`: a page that loads has its query on its way.
* `RulesHere`: a list of rules is still to be asked for, or the last list that was
  answered is that of the table.
* `SessionHere`: the session is still to be asked for, or the last answer on a
  session, read or not, has the status of its row. A later answer is truer
  because a pause or stop answers in the step that writes its row.
* `LastNotices`: whatever was on its way when the sump was selected, the last
  notices to come are this sump's. A sump selected next finds none of its own on
  the page, which is where `NoticesToCome` begins.
* `Once`, `NoticesToCome`, `NoticesHere`: the session's answer asks for the
  notices, once. Until they have come no notice of this sump is shown or
  dismissed, so that the copies of its rows agree with the table; from then on
  each notice shown is up, in the table and in every copy, or its dismissal is
  answered and about to be read. Without the agreement of the copies a stop that
  awaits could take down a notice that a late pause has brought back, and leave it
  on the page.

### Only model-checked

* Liveness, which needs fairness and `ENABLED`: `InterruptedIsMarked`,
  `ExportsEnd`, `EventuallyRelayed`, `DrainEnds`, `EchoesDie`.
* The violations: TLC exhibits the behaviour.

Out of the prover's reach: what a recursive definition computes for every input,
since it needs an induction over data, and `RECURSIVE` operators. No module
declares one.

## Not modelled

* The SSH plugin's `stream_lines`, a thread with a queue: nothing outside its
  tests calls it, so the histories it sees cannot be told from the code.
* Projects with a name, their folders, track delays and live context, and
  downloads into them: the user interface calls none of it. The default
  project's references are part of `RecordingSessions`.
* Tracks: the three writes of a recording's download, into another table.
* The Correlate page's snapshots and their export, and its calls that fail other
  than a query (they set its error and change nothing else); the tab a detached
  sidebar is on.
* What happens after the main window has closed: panels that stay open then have
  nobody to come back to.
* Thresholds and patterns of event rules, density buckets, the log window, the archive reader,
  menus, snapshots, file names, command lines: pure functions or formatting.
* Authentication headers and telemetry: a comparison, and counters.
* Migrations of old catalogs: run before anything else, once.
* Two exports of one sump and streams of several docker hosts: they share only
  the list, to which `RecordStore` has every sender write.

## Plan

Every invariant, action property and refinement of the passing runs is stated by
a theorem; what is left model-checked is liveness. What could be added is
`SumpLifecycle` with overlapping handlers: what still holds of rows and tokens.
