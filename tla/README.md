# Batuta in TLA+

A verification project for [Batuta](../src/README.md): a Windows file indexer
that reads an NTFS volume's Master File Table (MFT) once, keeps the file tree
in memory, and follows the volume's change journal (USN) so that the tree,
its folder totals and its search results stay current. Around that core are a
service clients reach over a named pipe, a full-screen interface with an
editor and a terminal, a shell, and a setup program; they are modelled too.

The modules are translated from the Rust source; `PROJECT.json` names, for
every definition that models code, the file and lines it stands for. Paths
below are relative to `src/crates/`: `core` is `batuta-core/src`, `ntfs` is
`batuta-ntfs/src`, `ipc` is `batuta-ipc/src`, `app` is `batuta-app/src`.

To check: `tlc -config <run>.cfg <module>` for each run of section 3 and
`tlapm` on the modules of section 4.

## 1. The system

### Components, the state they keep, what they do

| component | source | state | operations |
|---|---|---|---|
| Index | core `index.rs`, `names.rs` | parallel arrays per node (parent, name, size, allocated, subtree files, depth, flags, sequence), record table per volume, name arena, generation | build from a scan, roll totals up, prune a subtree, look a path up, resolve a record, retire a node |
| Live changes | core `watch.rs` | the index | `apply`: created, deleted, resized, renamed |
| Search | core `search.rs` | a `Searcher` per connection: last text, filters, matches, how far they are in order, generation | search: serve cached rows, narrow, or scan the arena; rank, order, page |
| Query execution | app `query.rs` | none | make a search, a browse, a size or a duplicate answer of a request |
| Snapshot | core `snapshot.rs` | `index.bin`, `index.tmp` | save through a temporary file, load and validate |
| Duplicates | core `dupes.rs`, app `content.rs` | none | group by size, then samples, then whole contents |
| MFT scan | ntfs `mft.rs`, `record.rs`, `runlist.rs`, `volume.rs` | a batch of entries | sweep the table in chunks, parse in parallel, merge |
| Journal reader | ntfs `usn.rs` | journal id, next position | open (resume or start at the end), read, report a lost place |
| Translation | app `watcher.rs` | none | fold a batch of journal records per MFT record, read metadata, emit changes |
| Daemon | app `daemon.rs`, `scan.rs` | shared index under a lock, flags `watching`, `desynced`, counter of changes, channel | load or scan, reader threads, applier, checkpointer, idle release, Rescan, queries, stop |
| Service and pipe | app `service.rs`, `pipe.rs` | service state, a pipe instance per client | report, stop, accept, connect with retry |
| Frames | ipc `lib.rs` | a stream of bytes | write and read length-prefixed requests and responses |
| Update check | app `update.rs` | one cached answer per user | ask once a day, cache, tell |
| Setup | app `setup/`, `hotkey.rs` | a plan, a report; executable, service, task, helpers, PATH | ask in dialogs or lines, apply in steps, uninstall |
| TUI | app `tui/app.rs`, `tui/mod.rs` | query, rows, window, selection, dialogs, a scan worker | keys, debounced refreshes, views, delete |
| Drawing | app `tui/ui.rs`, `layout.rs`, `theme.rs` | none | panes, rows and carets, highlighting, colours |
| Explorer | app `tui/explorer/` | a tree, an open file with undo, a path line, a find | edit, save, list, complete, find |
| Terminal | app `tui/terminal/` | a cell grid, history, a pseudo console | print, erase, scroll, resize, report |
| Shell | app `shell/` | a line, its history, a pipeline | edit, complete, parse, run, file commands |

### How they interact

* `scan_volumes` takes each volume's journal position, **then** reads its MFT,
  builds and prunes an index and saves it; `serve_with` puts it under
  `shared.index`.
* One thread per volume opens a `JournalReader` at the position the index was
  saved with and sends each batch it reads down one channel. The applier
  receives a batch, translates it under the read lock (looking files up in the
  index *and* on the live volume), and applies the changes under a write lock
  taken afterwards.
* The checkpointer saves the index (tree and positions) once a minute when
  something was counted; a stop saves it once more; a start loads it.
* A client's `Rescan` scans while everything above goes on, then swaps the
  index under the write lock. Queries take the read lock; each connection
  keeps its own `Searcher` across requests, changes and swaps.
* The accept loop makes one pipe instance at a time and a thread per client.
  The service's stop control sets a flag and connects to the pipe itself, to
  wake the loop.
* The interface asks the daemon through the pipe, or a local index, whenever
  typing rests; a duplicate scan runs on a thread and answers by message. The
  explorer and the terminal are views of the same loop.
* Setup copies the executable over one that may be running, as service, as
  helper, or from the aside name an earlier setup left it under.

### What is hard about it

* Everything the applier knows is late: the index, the journal and the volume
  are three different moments, and metadata is read at a fourth.
* A batch folds records per file, so order between files is lost within it,
  and NTFS accumulates reasons on a file that stays open.
* MFT records are recycled, so a record number is not an identity.
* Totals are kept by increments, never recounted.
* Positions, tree, snapshot, channel and batch in hand must agree at any
  moment the process may end.
* Losing history (a wrapped journal) must be noticed, not served.
* A searcher reuses what it found last time, against an index that may have
  changed, or have been replaced, since.
* Rows on the screen are of an earlier query, window or order while keys are
  pressed; dialogs, Tab and worker results refer to them.
* Files are saved, hashed, copied and deleted while other programs use them.
* A stop, a client and the idle clock race for one pipe.
* Setup may fail at every step, on a machine that goes on being used.

### What makes each component correct

| component | correct when |
|---|---|
| Index, live changes | the record table names every live node once; node ids are stable; the tree is rooted; totals are what a recount gives; pruned subtrees count nowhere |
| Translation | at rest the index shows the volume, whatever the interleaving; in the end it is at rest |
| Daemon | no change is lost between scan, snapshot, journal, channel and applier; a snapshot is restartable at any moment; a lost place is reported and stays reported |
| Search, query | an answer is the page a fresh search would give, cached or not; a path typed letter by letter browses the folder it names |
| Snapshot file | what a start loads is an index that was saved |
| Service, pipe | a stop ends the accept loop; the last save is tried between the stop and its report, and nobody is taken from then on |
| Frames | the k-th result is the k-th answer or an error |
| Duplicates, MFT scan, run lists | files are grouped exactly by content; the scan holds what the table says; a decoded run list covers exactly what was encoded |
| Update check | a release is heard of within the age of one answer |
| Setup | wherever it ends there is a program to start, and what it says is on works |
| TUI, drawing | the rows are those of the query; a key acts on what it named; marks keep the text |
| Explorer | undo goes back through every state; "modified" tells whether the disk differs; a save never loses the file |
| Terminal, shell | cursor and region stay in the grid; output goes where it was sent; a file command changes what it names and nothing else, and says so when it could not |

## 2. Modules

| module | models | with |
|---|---|---|
| `Index` | the node table and `Index::apply`: every change as a function from index to index | - |
| `IndexBuild` | `IndexBuilder`: scan, depths, rollup, pruning | extends `Index` |
| `IndexTable` | the index under *any* changes in any order, and the swap of a Rescan | extends `IndexBuild` |
| `IndexProofs` | what each operation of the index keeps: types, the record table, node ids, flags, totals | extends `IndexBuild`, `DataLemmas` |
| `IndexTableProofs` | theorems about `IndexTable` | extends it and `IndexProofs` |
| `Volume` | the environment: an NTFS volume, its MFT, its journal, programs opening, writing, renaming, deleting, recycling records | extends `IndexBuild` |
| `LiveIndex` | scan, `translate` with each metadata read a step of its own, `apply_loop` | extends `Volume` |
| `LiveIndexProofs` | theorems about `LiveIndex` | extends it and `IndexProofs` |
| `Daemon` | threads, channel, positions, snapshot, rescan, crash, restart | refines `Follower` |
| `Follower` | what following promises: the served index holds a growing prefix of each volume's changes; a restart serves at least what was saved | abstract |
| `SearchScan` | terms, globs, the arena scan with windows and straddling matches, ranking, ordering, paging | extends `IndexBuild` |
| `SearchCache` | a connection's `Searcher` against an index that is changed and replaced | extends `SearchScan` |
| `Query` | what a request becomes: browsing, segments, retry, folder and largest-folder listings | extends `SearchCache` |
| `NtfsScan`, `RunList` | the MFT sweep, records and attributes; data runs | - |
| `SnapshotFile` | saves step by step through one temporary file, load, exclusions | - |
| `Serving` | service states, accept loop, stop, clients, idle release | - |
| `Frames` | encoding, limits, frames over a stream that breaks | - |
| `Dupes` | the three tiers over files that change | - |
| `Update` | overlapping checks through one cached answer | - |
| `DaemonProofs` | theorems about `Daemon` | extends it |
| `ExplorerProofs` | theorems about `Explorer`: its files, its text, its find | extends it and `DataLemmas` |
| `BackgroundProofs` | theorems about `SnapshotFile`, `Serving`, `Update`, `Dupes` | extends the four and `DataLemmas` |
| `ForegroundProofs` | theorems about `Tui`, `Prompt`, `Setup` | extends the three |
| `DataLemmas` | least numbers, induction over sets of numbers and of subsets, recursions and folds that have a solution, parts of sequences, sums and places of finite sets | extends `TLAPS` and its library |
| `EditBuffer`, `TextField`, `TextFile` | text with cursor and undo; a one-line field; files to text and back, find | - |
| `TreeView` | the folder tree and path completion | extends `TextField` |
| `Explorer` | the explorer and what the application does with its keys | extends `TextFile`, `TreeView` |
| `Tui` | event loop, views, dialogs, rows, scan worker | - |
| `Screen` | layout, rows and carets, highlighting, themes, as functions | - |
| `Terminal` | grid, history, session, pseudo console | - |
| `ShellParse` | words, variables, stages, redirections, as functions | - |
| `Shell` | line editor, history, pipelines, file commands | extends `TextField` |
| `Prompt`, `Setup` | the questions in both front-ends; applying, failing, uninstalling | - |
| `MCIndexTable`, `MCLiveIndex`, `MCDaemon`, `MCSearchCache`, `MCExplorer`, `MCTui` | the instances TLC checks | extend one module |
| `MCForeground`, `MCBackground` | the instances of the smaller parts, which share nothing: a behaviour picks one `part` at the start and runs it, the others rest | `MCForeground` extends `Prompt`, `Setup`, `MCBackground` extends `SnapshotFile`, `Serving`, `Dupes`, `Update`; INSTANCE of the others, whose values are given there, not in the `.cfg` |

State and actions against the code:

* `Index`: the parallel arrays of `struct Index` are the fields of one record;
  `dir`, `excl`, `del` are the node sets of the three flags; `rec` is
  `rec_to_node`. `Climb` is the guarded loop of `propagate`, turn by turn, so
  that a cycle of parents is adjusted as often as the code would.
  `ApplyCreate/Delete/Resize/Rename` are `apply_create/...`, whole: record
  resolution, retirement of an earlier file, detaching, totals, tombstone.
* `LiveIndex`: `ReadBatch` is a read of the journal and the fold of `translate`;
  `Translate` is one pass of its second loop, with its `stat` of the volume as
  it is then; `ApplyChange` is one turn of the inner loop of `apply_loop`;
  `Scan` is `scan_volumes`, whose journal position was taken at the initial
  state, so that everything since is in the scan and in the journal.
* `Daemon`: what an index holds is the set of numbered changes it reflects.
  `LoadSnapshot`, `ScanAtStart`, `TakePosition`, `ReadMft`, `SaveScan`,
  `ServeScan`, `OpenReaders` are a start in the order of the code; `Read`,
  `LosePlace`, `FailToRead` a reader thread; `Receive`, `ReceiveDesync`,
  `ApplyBatch` the applier's two lock scopes; `Checkpoint`, `Rescan`,
  `SwapIndex`, `Stop`, `Crash` the rest. A reader that meets a journal other
  than its own may fail or report a lost place: both are modelled.
* `SearchCache`: `ServeCached` and `Search` are the two ways through
  `Searcher::search`; `searcher` is its fields, `ordered` the number of rows
  known to be in order. `order_prefix` is nondeterministic about the rows
  behind those it ordered, as `select_nth_unstable` is. `older` is a history
  variable: the searcher holds matches of an index a Rescan replaced.
* `SnapshotFile`: `Create`, `WriteBody`, `Seal`, `RenameFile` are the steps of
  `save` for each of three threads over the same two names; a file is a body
  in two halves and a checksum. `StartLoaded`/`StartScanned` are a start,
  `Checkpoint`, `Rescan`/`ScanSaved`, `FinalSave` who saves when.
* `Serving`: `loop.pc` is where `serve_with` stands: making an instance,
  waiting in it, looking at the flag. A connection is a state per caller, and
  the stop signal is a caller like the clients. `Save` is the last checkpoint,
  written or failed (`daemon.rs:253` warns and goes on), `Report` the word to the
  service manager, `ProcessEnds` the end of the connections still open.
* `Frames`: messages are tags and fields, written to bytes by `Encode` and read
  back by `Decode`; `DaemonWrite` puts any part of a frame on the wire, so that
  the daemon may end between any two bytes.
* `NtfsScan`: the sweep's loops are actions, the parsing of one record and the
  merge of thread results functions. `RunList` is functions only.
* `Dupes`: `SampleFile` and `HashFile` read one file each, as it is then, in any
  order between groups; `WriteFile` is another program; `Reply` the rest.
* `Update`: the check's steps are actions between which other processes run;
  `Empty` and `Fill` are the truncating write in two.
* `Explorer`: one variable holds `struct Explorer`; `job` is the load or save in
  progress, with one action per system call of `file.rs`. `EditBuffer` has one
  function per operation of `buffer.rs`.
* `Tui`: `Frame` is one turn of the loop up to the draw, `Rested`/`StillTyping`
  the two outcomes of the debounce, `KeyPress` the handlers of every view.
* `Terminal`: the bytes between the program and the session are whole control
  sequences (the `vte` crate cuts them, external); `Pump` is one turn's reading.
* `Shell`: `StartPipeline` and `ShellStep` are `run_pipeline`, stage by stage in
  the order of the code; processes are external, named for what they read
  and write, output counted in units.
* `Setup`: one action per step of `apply` and of `uninstall`, each with its
  failure; services, helpers and other programs act between any two.

Abstracted throughout: `mtime`, statistics, formatting, saturation of the
64-bit totals at the top, several volumes inside one index (every operation
stays inside one volume). Names are model values in `Index`, and become bytes
through `Spell` only in `SearchScan`.

## 3. Runs

| run | checks | shows |
|---|---|---|
| `live` | TreeSound, TotalsExact, Mirror, PrunedTogether, CatchesUp | one volume and the index that follows it, in four regimes (quiet, ahead, batches, pruned): rooted and sound after every change, totals exact, at rest a mirror of the volume, and in the end at rest |
| `table_any` | TypeOK, TableSound, IdsStable, TotalsKept | the table under arbitrary changes, also ones no journal would give, and the totals between rooted trees |
| `daemon` | NothingLost, Restartable, Follows, ClaimNotResumed, ServedInTheEnd | crashes, stops, restarts, trimmed, torn and replaced journals, a Rescan: nothing lost that the daemon does not own up to, and it implements `Follower` |
| `search_cache` | AnswersRight, CacheSound, QueriesRight | cached, narrowed and scanned answers are the same answers; browsing typed letter by letter |
| `explorer` | BufferTrue, SelectionTrue, FindKeepsPlace, SaveKeepsFiles | editing, undoing, saving, finding, while others use the files and the process may die |
| `tui` | RowsOfThisQuery, ActsAsAsked, ScanEnds | keys, wheel, resizes, a scan worker, dialogs, files that go: the rows are the query's and keys act on what they named |
| `foreground` | WordsAsMeant, DrawnAsMeant, AsksWell, ProgramKept, PromisesKept, PaneRight, PipelinesRun, PromptKeeps, SetupEnds | the parts a person meets: shell words, drawing, questions, setup, terminal, pipelines |
| `background` | VolumeReadBack, SnapshotWhole, StopsInOrder, FramesInStep, DupesRight, ReleasesNoticed, WokenStops | the parts nobody sees: MFT scan, run lists, snapshot file, accept loop, frames, duplicates, update check |
| `live_ghost` | NoGhosts **violated** | `watcher.rs:102` "A file created and removed within one batch never really existed": reasons accumulate, so a close record still says "create" of a file the index has; folded with the deletion, the delete is dropped |
| `daemon_rescan` | NothingLost **violated** | `scan.rs:96-98` promises that what changes during the scan "replays afterwards"; in a Rescan it was applied to the old index and is lost in the swap |
| `search_stale` | AnswersCurrent **violated** | `index.rs:78-80`: cached state "derived from an older generation cannot be reused"; the index of a Rescan counts from the start, so the generations can meet |
| `serving_stop` | StopEnds **violated** | `daemon.rs:66-69`: the wake-up is there so that a stop does not time out; made while no pipe instance exists, it is refused, and the loop then waits for a client |

Every property of a passing run has a mutant (a variant of a mapped operator
with a plausible bug, next to the operator it replaces, marked `Bug:`) under
which the same run finds it violated. The properties of `foreground` and
`background` are conjunctions of the parts' own properties, and say so where
they are stated; each part's properties are about different states, since a
behaviour is one of one part.

### Bounds, and why they are enough

* **live.** The volume starts as a root, a folder in it, a file in that (two
  in the pruned regime), and a free record: files can move between
  two folders, a folder can be created, moved into, and deleted. Two names give
  clashes and renames, three or four operations a recycled record (delete,
  create) with one or two more before, between or after; `maxSeq` bounds how
  often a record is recycled (1: not at all). `bytes` has a size that is no
  multiple of `Cluster`. `MaxNodes` is above the nodes the operations can
  allocate. `ClimbGuard` (512 in the code) is above the deepest path;
  `TreeSound` says no climb meets it. `batch` and `lag` differ by regime: quiet
  digests each operation before the next starts, ahead lets the volume run
  freely with one record per batch, batches folds up to three records of files
  renamed and deleted while open, pruned works in and beside a pruned folder.
  `Mirror` is claimed where nothing the daemon could not know happened
  (`PlacesFollowed`): with the volume ahead a size can be missed when a parent was
  renamed before the `stat`, in batches of several records the order between files
  is lost unless all are told of one step, and files renamed or deleted while open
  drift (section 6). `Rooted` and `TotalsExact` are claimed `StepByStep`,
  `PrunedTogether` where what is pruned stays apart (`PrunedApart`); `unfollowed`
  remembers the two things neither can stand, a folder moved or removed before the
  scan and a configured path that names a file (section 6). The differences are in the properties' premises and documented, not hidden
  in the model.
* **table_any.** Four records (a root, two folders, a file in one of them; the
  same with the folders pruned), one name, two sequence numbers, three changes:
  a change may be about the root, a descendant of itself, a file as a parent,
  a tombstone; a file may be moved from folder to folder, a folder with its file
  below the other, and a record recycled. The theorems remove these bounds.
* **daemon.** Two volumes, because the channel is shared. A weather is the
  faults that may come together: *restart* (a crash or stop and its recovery,
  three changes per volume: one in the index, one in flight, one unread),
  *wrap*, *torn* (trims, read errors and a Rescan in one process), *replaced*
  (a journal that appears or is made anew over a restart). All faults at once
  exceed what can be explored, and add only combinations in which the
  properties' premises fail.
* **search_cache.** Names `a`, `b`, `ab`, `Ab` over small volumes; `Window` of 3
  bytes puts window borders inside names and between them; `MinOrdered = 2` (4096
  in the code) makes a page lie behind the ordered rows; `MaskTerms = 1` (8 in
  the code) sends a query of two terms down the fallback. The queries cover the
  three modes, both cases, one and two terms, the files/folders, under, child-of,
  size and hidden filters, orders, offsets, no limit, and the extensions typing
  goes through. Case-sensitive needles do not overlap themselves (section 6).
  `MaxGen = 1` lets the index change under a filled cache and lets generations
  meet.
* **explorer, tui.** A plan names the groups of keys a behaviour may press and
  what it starts from; together the plans press every key the code handles, and
  the groups that share state are pressed together. Texts of two and three
  lines with every line ending, files of up to three bytes of every kind
  `inspect` tells apart, two edits and as many saves; three rows on screens of
  one to three lines.
* **foreground.** Grids of two or three columns and rows (nine columns where
  tab stops matter), programs of two to seven writes; pipelines of three stages
  over every order of builtins, programs, missing commands and redirections,
  pipes of two units; words of two characters over every character the parser
  looks at; windows at both sides of each limit of the layout; three plans, three
  machines and one run of setup or uninstall over them; two tries at a question.
* **background.** MFTs of four records out of whole, extension, torn, unused and
  malformed ones in three layouts (records across runs, holes, runs out of
  order); run lists of every edge of two-byte numbers, and every three bytes;
  three savers over two starts; two clients for two instances; messages at
  every limit; up to six files with copies that differ in the middle alone, two
  groups and four rows of duplicates to a reply (10 000 rows in the code) over
  volumes on which the first or the second group has too many rows, two fit
  exactly, and a third is one too many, two writes; two programs, two releases, five hours.
* The constants of `Prompt`, `Setup`, `SnapshotFile`, `Serving`, `Dupes` and `Update`
  stand in `foreground.cfg` and `background.cfg`, those of the other parts in the two
  `MC` modules.
* `CHECK_DEADLOCK FALSE` everywhere: the bounds on operations stop every
  instance, and a volume nobody uses is a system that may stop.

### Fairness

* `LiveIndex!FairSpec`: the daemon's threads keep running (`Follow` is a reader
  woken by new records and an applier woken by the channel; neither waits for
  anything but locks held briefly) and a program that opened a file closes it.
  Nothing forces programs to act. The first conjunct is weak fairness of
  `Follow` with `ENABLED` written out, because evaluating it is costly.
* `Daemon!Fairness`: per reader weak fairness of reading or losing its place,
  of the applier, the checkpointer (a timer), the steps of a start that began
  and of a scan. Nothing is assumed about starting, stopping, rescanning,
  crashing or failing reads.
* `UiSpec`: the loop turns (weak fairness of `Frame`), the worker answers, and a
  user rests now and then (strong fairness of `Rested`, since each key stops
  the clock).
* `MCForeground`: the loop pumps the terminal, the system schedules the shell
  and each process, somebody types or the input ends, a helper goes on
  retrying and other programs let go of shortcuts.
* `MCBackground`: the accept loop's threads run, a call to Windows returns and a
  wake-up is made to its end; nothing makes a client ask.
* The safety-only runs use `Spec`.

## 4. Proofs

What TLC shows of a small instance, these theorems show for every value of the
constants: any number of records, drives, changes, messages, clients, programs.

| module | theorem | property | from |
|---|---|---|---|
| `IndexTableProofs` | `TypeCorrect` | `TypeOK` | - |
| | `RecordTable` | `TableSound` | - |
| | `NodeIdsStable` | `IdsStable` | - |
| | `TotalsStay` | `TotalsKept` | - |
| | `TotalsStayExact` | (for as long as the tree is rooted) | a scan's totals are exact |
| `LiveIndexProofs` | `IndexMirrors` | `Mirror` | `[]Shallow`, `StepByStep` |
| | `TreeStaysSound` | `TreeSound` | `[]Shallow` |
| | `LiveTotalsExact` | `TotalsExact` | `[]Shallow` |
| | `MarksStayTogether` | `PrunedTogether` | `[]Shallow` |
| | `RecordTableLive` | (the record table alone, also where it cannot follow) | - |
| `DaemonProofs` | `NothingIsLost` | `NothingLost` | `Calm` |
| | `AlwaysRestartable` | `Restartable` | `Calm` |
| | `ImplementsFollower` | `Follows` | `Calm` |
| | `ClaimStays` | `ClaimNotResumed` | - |
| `BackgroundProofs` | `SnapshotsWhole` | `SnapshotWhole` | - |
| | `StopKeepsOrder` | `StopsInOrder` | - |
| | `NoticedInTime` | `ReleasesNoticed` | - |
| | `DuplicatesRight` | `DupesRight` | - |
| `ExplorerProofs` | `NobodysTextIsLost` | `SaveKeepsFiles` | - |
| | `TheBufferIsTrue` | `BufferTrue` | - |
| | `FindReturns` | `FindKeepsPlace` | - |
| | `TextKnown` | (the text between any two edits) | - |
| `ForegroundProofs` | `RowsAnswer` | `RowsOfThisQuery` | - |
| | `KeysAct` | `ActsAsAsked` | - |
| | `SetupAsks` | `AsksWell` | - |
| | `ExecutableStays` | `ProgramKept` | - |
| | `SetupKeepsItsWord` | `PromisesKept` | - |

Each rests on the named assumptions of its modules, which TLC evaluates in every
run: natural numbers where the code has unsigned ones (`IndexAssumption`,
`DaemonAssumption`, `SnapshotAssumption`, `UiAssumption`, `SetupAssumption`,
`UpdateAssumption`); a scan or snapshot that delivers a well-typed index with a
sound record table and flags for its nodes alone (`TableAssumption`); a volume that is one when it is mounted, with
names that differ inside a folder, and a node for each of its records
(`VolumeAssumption`); finitely many files, of natural sizes
(`DupesAssumption`); files written before a behaviour begins
and made of bytes, as all that is typed or written is, on a screen of at least one line
(`ExplorerAssumption`, `ByteAssumption`); a waker that is none of the clients (`ServingAssumption`);
and at least one drive to ask about
(`PromptAssumption`: `main.rs:788` ends with "no fixed drives were found to
index" before any question).

**IndexProofs, IndexTableProofs: the table.** `IInv == TypeOK /\ TableSound` is inductive; `TableSound`
alone is not, since what a helper does to the record table is known only of an index
whose slots and parents are nodes, and `TypeOK` alone is not, since only the table
says that the tombstone it sets is a node's. Each helper of `watch.rs` (propagate,
detach, attach, tombstone, set/clear record, retire, resolve) has a lemma saying that
from a well-typed index it leads to a *good* one: well typed, ids and kinds
kept, tombstones kept, record slots changed only over tombstones, and a sound
table left sound. `GoodTransitive` chains them, so that each of the four
handlers is the sequence of its helpers in the order of the code, and `ApplyGood`
joins the four.

**IndexProofs, IndexTableProofs: the totals.** `TotalsKept` speaks of one change, between a rooted tree and
a rooted tree; both premises are needed, since changes of any content can hang a folder
below itself, and then climbs run into their guard (section 6). Of pruned nodes it
says that they stay where they are: a move takes their flags along and their
weight nowhere (section 6), and without that premise TLC finds the totals wrong. The
proof has three layers. *Climbs*: the climb of `propagate` follows the function `Up` from
parent to parent (`Chain`), and two chains that meet go on together. Hence
one that reaches a root meets each ancestor once (`MetOnce`), so that `propagate` adds
each delta once to each of them (`PropagateAdds`); where one node is hung
elsewhere, nodes beside it keep their ancestors (`Aside`), and those below it lose the ones
it had and get the ones it now has (`Along`). *Sums*: a folder's total is the sum over
the files below it; sums over disjoint sets add up (`SumJoins`), so a total changes by the
weight of the files that came to stand below the folder less that of those that left
(`TotalsRemoved`, `TotalsResized`, `TotalsAdded`, `TotalsMoved`). What a moved folder
carries is its own total, which was exact before, and a node moved into a
folder that is also above its old place is taken off and put back (`BelowMoved`).
*Changes*: every path through the four handlers is one of these updates or leaves the
tree as it is (`ApplyKept`). `resolve_record` may retire a stale node on the way to creating another; the tree
between the two is rooted because the tree after them is (`RootedBefore`).
`TotalsStayExact` is the induction: from a scan whose totals are exact, they stay
so for as long as the tree is rooted and nothing pruned moves. That a scan's totals
are exact, and that the journal of a volume leads from rooted trees to rooted trees, is
proved next.

**LiveIndexProofs: following the journal.** Between the scan and the end of the journal
the index is neither the volume as it was nor the volume as it is: what the scan saw
already is told again, and what is gone from the volume still has a node. So the
invariant (`FollowInv`) is about a history `h` of *layouts*, who is in which folder under
which name: `h[0]` is the layout told so far, each word on its way (a record of the
journal, a folded record, a change) makes of one the next, the last is the volume's, and the scan
saw `h[K]` (`Chronicle`). Every live node shows the place its record has in `h[0]` or
in `h[K]` (`Mixed`), and the two agree on the folders (`Agree`, from `Settles`: a
folder of one layout of the history is neither moved nor removed before the scan
saw it, which is what `unfollowed` excludes). Hence the climb from any node goes the way
up of a layout, and ends at the root (`MixedRooted`). A program's operation makes the
history longer (what it writes tells of what it did: each of the five operations of
`Volume` is a case), reading and folding a batch leave layouts out, and an applied
change takes the first one away; where a batch holds more, `StepByStep` says that all
its records are of one step.

*Marks*: pruning follows each configured path to a folder and marks its subtree, so that
a file is marked with its folder, however the folders nest (`MarksInv`). Where something is pruned nothing
moves (`PrunedApart`), and the rest of the handlers keep the marks.

*Totals*: the scan gives each file its own weight and each folder none, and the turns
of `rollup` are followed level by level: after the turn of a level, its folders hold the
sum over what is below them (`GoesUp`, `Leveled`), by the sum of a family of sets that
are apart (`SumFamily`). Pruning subtracts what it hides, and from there on each change is
`ApplyKept` between the trees that `FollowInv` says are rooted (`CountInv`). The
allocated size is left out, as in `TotalsExact` (section 6).

*The mirror*: with nothing on its way one layout is left, and it is the volume's, so
every place is right. A size is told by no record: `translate` looks the file up by its
path in the index. `SizeInv` says that the size of a file is right in the index or is
*owed*: the file is open, so that a closing record is to come, or its record, its folded
record or its change is on its way, with the size it has now (`Owed`, `OnItsWay`). The
look finds that very file, because on the volume its path leads from the root through the
folders the index shows (`LeadsDown`, `PathFollows`, `StatIs`); a change then touches the
size of no other (`FilesStay`). `SizeInv` was checked by TLC before it was proved.

`Shallow` says that no file of the volume lies deeper than the climbs of `ancestors` and
`path` go, 512 levels in the code: below that a path is cut off at its top, and totals
above the guard are not adjusted. It is a hypothesis and not an assumption, because
nothing in the code keeps a volume from being deeper. `RecordTableLive` needs neither
it nor `StepByStep`: the record table is sound in every regime.

**DaemonProofs.** The argument follows a change `c` of a volume `v` through the
daemon. `Reached(c, v, i)` says that the index holds it, or the batch in hand
does, or one of the first `i` messages of the channel does. None of the
properties is inductive: a checkpoint is restartable because the index is, the
index stays without gaps because a batch closes the space between what it holds
and the position the batch brings, and that is known of a batch only because it
was known of the message it was. So every position the daemon keeps vouches for
what is below it, and that is the invariant: a message's position for what is
`Reached` by that message (`Messaging`), a reader's for what is `Reached` by the
whole channel (`Reading`), the index's and the snapshot's for what they hold
(`Stored`: prefixes `1 .. k` with the position inside), a scan's for what
the scan saw, taken before it (`ScanSound`). Each action has a lemma; a step of
the daemon is then a step of `Follower` or none, by the same invariant.

The first three theorems assume `Calm`: there is a drive, and where journals are kept nobody asks for a
Rescan, and a daemon whose journals may be trimmed is started once. Both are
needed because the code does otherwise than its comments there: a Rescan loses
changes (`daemon_rescan` is its counterexample), and a gap that a reader found is not
stored, so that the next start calls itself live (section 6). Under `Calm` trims,
crashes, stops and restarts come at any moment. `ClaimStays` assumes nothing: it holds
under every fault, with Rescans, from the invariant `Doubt` (a gap leaves no claim).

**BackgroundProofs.** *Snapshots*: three threads write one temporary file, so a file on disk may
hold the beginning of one thread's index and the end of another's; what keeps a
start from reading it is the checksum alone. The invariant, `SnapInv`, says that
a payload written for an index reads back as the names that index shows, that every
file's header is blank or the checksum of such a payload, whoever wrote the body
below it, and, while one save runs alone, that the temporary file is its own,
written as far as its stage says. *Serving*: what the service manager was told is tied to the
accept loop's place: "running" never at its end, "stopped" only there, and at its end with
a stop asked for only behind the last checkpoint, tried once the loop was left
(`LoopTold`). An instance waits only while the loop listens, so nobody is taken
later. The connection that wakes the loop is made when the flag is up, and what the
loop finds then is dropped (`WakerTold`). Clients have no part in it, which
`ClientStep` shows for all of them at once. *Update*: a tag `Covers` a time when
every release it does not know was
published then or later. An answer covers the time its check began, the file the
time it is stamped with less the time a check may take, no matter which of the
overlapping writers was the last and which ended half way. *Dupes*: the property
speaks of the reply alone. `DupesInv` follows the finder to it: a key computed of
a file nobody wrote since is that of its content (`KeysTrue`), so that at the reply
each bucket that is told is one set of equal files, whatever was
written to the others, and the list ends at the limit or where the next group has
too many rows (`GroupsTold`, from `ListedIs`: the rows of one more group are those
so far and its own), and the waste is a sum that only grows with the files
counted (`WasteTold`).

**ExplorerProofs.** *Files*: what a step of a save does to a file says little of itself; what
makes it safe was looked at several steps earlier, and others write in between.
`ExplorerInv` carries that along: what each stage of a load or a save knows of its
file (`Staged`), what the stamp kept with the open text is worth once others wrote
(`Stamped`: a file of that time still holds what was read, which needs that no
file is dated in the future, `Dated`), and whose the temporary file and the dialog
are (`Working`). Every key, edit and search is one case, `Still`: there the text is a
value the proof never looks into.

*Text*: `BufferTrue` speaks of the top of two stacks; what makes it hold is every
text below. A replacement puts lines between two places (`PutBetween`), and
putting back what it took out undoes it, line endings too (`PutBack`,
`EndsBack`). A `History` is the text between any two edits, those undone included, where each edit
takes one text to the next and back (`Takes`). Every key keeps one: a new edit cuts
off what was undone, typing joins the last edit (`ApplyMore`), undo and redo move in
it. `Alive` adds what the buffer remembers: which of those texts was read
and which was saved, until an edit loses it. A load begins one, since splitting a file at
its line ends and joining the lines again gives its bytes (`PiecesAre`, `ParsedIs`). *Find*: hits are
places of the text in its order (`MatchesAre`); while the prompt is open the
text stands still, the cursor is on the current hit and the place the search
began at is one of the text (`FindOf`), so that Esc can return to it. `TextInv`
is the three together; it is inductive beside `ExplorerInv`, which knows of the
save what becomes of the saved mark.

**ForegroundProofs.** *The interface*: `RowsOfThisQuery` speaks of the moments at rest and says nothing of
how they are reached. `UiInv` does: whatever may part rows and question sets dirty
or pending, the height the rows were fetched for is the window's unless a fetch
is owed, and what two keys share (the file a first Tab named, the view the
terminal came from) is kept between them. *Setup*: `PromptInv`: the plan so far answers exactly the questions that
were put (`Came`), and what an answer costs was told before its question
(`ToldBeforeAsked`). `SetupInv`: wherever `apply` stands, an executable is in place or aside
and will be put back (`ExeKept`), what was started since runs the new one
(`NewStarts`), a shortcut that is advertised has a helper or a retry (`KeyHeld`), and
an uninstall has taken away what its steps so far were for (`GoneSoFar`).

**DataLemmas.** The library's induction theorems take an operator as a parameter,
which the provers cannot instantiate. Where a proof needs induction it is stated
about a *set*: one that holds 0 and with each number the next is `Nat` (`Induct`,
`InductUpTo`), one that holds a subset when it holds the smaller ones holds them
all (`SubsetInduct`), both from the well-foundedness of `<`. On these rest that a
recursive function or a fold *has* a solution, without which its equations say
nothing of it (`RecursionSolved`, `FoldSolved`), and that a sum does not depend
on the order its members are chosen in (`SumTakes`, `SumOfPart`) and of two sets,
or of a family of sets, that lie apart is the sum of theirs (`SumJoins`, `SumFamily`).

**Model-checked only.** Liveness (`CatchesUp`, `ServedInTheEnd`, `ScanEnds`, `SetupEnds`,
`WokenStops`), which needs fairness and `ENABLED`. `Mirror` where it is claimed beyond
`StepByStep`: after a folder was moved or removed before the scan. The answers of
searches (byte strings, sorting by `SortSeq`,
which the prover does not know), the explorer's carets and tree rows
(`SelectionTrue`: rows are a recursion over folders and pass through `SelectSeq`,
of which the provers have no rules; its part about the find is in `TextInv`), shell words, drawing, the terminal and pipelines; `FramesInStep` and
`VolumeReadBack`, whose modules decode with RECURSIVE operators.

## 5. Not modelled

* Of the modelled parts, what has no state or is a system call: the boot sector
  (`boot.rs`), the bits of the name arena (`names.rs`, modelled as the
  concatenation of its names), drives, access control lists, elevation, console
  modes and colours, key translation (`keys.rs`), the parsing of a hotkey, the
  pseudo console, the registry and the task scheduler, formatting (`fmt.rs`),
  argument parsing, and the printing of `main.rs` (watch, status, duplicates).
* Of search: the order by modification time, orphans, the extension filter and
  own bytes, which share the paths that are modelled.
* Of the duplicate finder: the folder it is restricted to, and its statistics.
* The panic hook and what a crash of one thread does to the locks it held.
* Several volumes inside one index: `Daemon` has several, with positions of
  their own; the trees do not touch.
* Assumed of the environment: a file that was renamed a moment ago can be
  renamed back, a service or task query answers truthfully, a registry value
  one may read can be deleted.

## 6. Known drift

Places where the code does not keep what its comments or its readers expect,
met while modelling, those a model states confirmed by TLC on variants of the
runs above. The
four listed as findings have a run; the others are described here, and the
passing runs are set up so as not to depend on them. A statement of a doc or
comment that is not kept is written out in its module, marked `Not kept`.

### Index and daemon

| where | what happens |
|---|---|
| `watcher.rs:102` | *finding `live_ghost`*: a deletion folded with an accumulated "create" is dropped |
| `daemon.rs:326` | *finding `daemon_rescan`*: changes applied during a Rescan's scan are lost by the swap |
| `daemon.rs:326`, `search.rs:217` | *finding `search_stale`*: generations of two indexes meet |
| `daemon.rs:83` | *finding `serving_stop`*: a stop that comes between the look at the flag and the next pipe instance wakes nobody |
| `watch.rs:296-305` | a folder deleted before its children in one batch takes its total off, then each child takes its own off the ancestors again |
| `scan.rs:96`, `watch.rs:400` | a folder moved before the scan is found in its new place and its moves are replayed: one of them can put it below itself, climbs then end at their guard, and totals stay wrong after the last move undid it; a folder removed before the scan is missing under a file that was in it and has left it since, while the moves of that file are replayed |
| `index.rs` (`exclude_subtree`) | a configured path that names a file leaves the file count of its folders one too high: what is taken off is the count below the node |
| `watcher.rs:126-128` | a file renamed while open, with its creation or a later record in the batch, can keep its old name |
| `index.rs:335` | a recycled record whose deletion was not seen can answer for the wrong generation; where a scan saw the next file of the record already, the earlier file's deletion takes it off the tree until its own creation is read |
| `watch.rs:366` | a move across the border of a pruned folder keeps the flags of where it was |
| `watch.rs:334` | a resize stores the size as the bytes on disk, and moves the folders' allocated totals by the change in size: they part from the allocation the scan found |
| `watch.rs:380` | a move updates the moved node's depth, not its subtree's |
| `index.rs:277` | a lookup takes the first child with the name, live or not |
| `daemon.rs:183-200` | a detected gap is not stored: after a stop and a start the daemon calls itself live |
| `usn.rs:174`, `usn.rs:357` | a position from one journal is accepted by another whose numbers include it |
| `usn.rs:388` | a drive without a journal at the scan stores position 0; when one exists later, the reader starts at its end and reports no gap |
| `daemon.rs:160` | a reader that ends on another error leaves `watching` set |
| `daemon.rs:190` | a position that moves without counted changes is not stored, and can age out |
| `daemon.rs:56`, `daemon.rs:344` | idle time subtracts a time since one connection opened from a time since the thread started: memory is released while the daemon is in use (`Serving!ReleasedOnlyIdle`) |
| `daemon.rs:251-256`, `service.rs:96` | "Checkpoint on the way out, so an ordinary stop loses nothing": a final save that fails is a warning on stderr, and the service is reported stopped, with exit code 0, all the same; the next start replays from the last checkpoint, as after a crash (`Serving!StoppedIsSaved`) |
| `service.rs:9-11` | "Running" is reported before the pipe accepts, and between two accepts there is an instance for nobody: a client then falls back to the snapshot (`Serving!RunningIsAccepting`) |
| `snapshot.rs:90-93` | two threads save through one `index.tmp`: what is renamed can be the other's half-written file, which the load refuses (`SnapshotFile!AlwaysWhole`) |
| `snapshot.rs:15-16` | checkpoints hold the pruned tree: a folder the configuration no longer excludes stays away until a Rescan (`PrunedAsConfigured`) |

### Search, scan, update

| where | what happens |
|---|---|
| `search.rs:450` | case-sensitive scans take non-overlapping matches over names without separators: a match across two names can hide the real one (`aa` over `a`, `aa`) |
| `search.rs:438`, `490` | a needle longer than the whole arena finds nothing, not even a renamed node whose real name holds it (possible only on an index with next to no names; `ScanNames` does the same) |
| app `query.rs` | a page past the end of a browsed folder, or an empty folder, is answered from another query; the largest folders include deleted ones |
| `runlist.rs`, `mft.rs` | a run that starts inside a record is skipped whole |
| `update.rs:150` | a stamp in the future has age 0: after a clock was set back the answer stays fresh until the clock catches up |

### Interfaces

| where | what happens |
|---|---|
| `app.rs:545-546` | a list that shrinks between two answers can leave the cursor on no row (`Tui!CursorShown`) |
| `app.rs:290`, `tui/mod.rs` | a key pressed before the rows of the new query came acts on the row of the old one; `y` in one burst with the delete key acts before the prompt was drawn (`DeletesWhatWasShown`); the prompt cuts long paths (`ui.rs:780-795`) |
| `tui/mod.rs` | F5 during a duplicate scan asks for no other scan; a started interface never goes back to a daemon that restarts; the terminal starts in a folder the explorer has left |
| `layout.rs` | a title bar of exactly 15 columns draws no buttons, and clicks where they would be still act; without colours the selected row has no mark |
| `explorer/state.rs` | closing the console window drops unsaved text without a question (`UnsavedAlwaysAsked`) |
| `grid.rs:318` | every control sequence ends a pending wrap, `ESC E` does not |
| `README.md:325-326` | `Shift+PageUp` and the wheel turned up move towards the live screen and `Shift+PageDown` into the history: the signs are exchanged (`mod.rs:332-340`, `mod.rs:708-714`; `Terminal!PageUpGoesBack`) |
| `README.md:311-312` | a walk through the history outlives the line it began from: after `Ctrl+C` the way down ends at the abandoned line (`Shell!HalfTypedKept`) |
| `run.rs:254-256` | a file command whose output exceeds the pipe, in front of a program that does not read, waits for ever; `README.md:303-304` |
| `builtins.rs:386-428` | `mv` or `cp` of several sources with one base name into a folder keeps the last, and `mv` has then removed the others (`Shell!SourcesSurvive`) |
| `builtins.rs:412` | a copy writes over its target in place: one that breaks off leaves neither the old file nor the new |
| `grid.rs:510` | `ESC c` makes a new grid, and with it drops the reply to a question asked in the same piece of output |

### Setup

| where | what happens |
|---|---|
| `README.md:647-652`, `service.rs:159`, `apply.rs:167` | a service that runs already is not restarted: it keeps serving, and saving, the drives it had, not those that were chosen (`Setup!ServesWhatWasChosen`) |
| `apply.rs` | setup run again with another choice of resident or hotkey leaves the old service, task or shortcut in place |
| `apply.rs` | a service that is stopping still reports that it runs, so starting and verifying succeed on one that ends; after a replacement over the aside name the old build runs on in memory |
| `service.rs:209` | uninstalling takes a query that fails for a service that is not there; the task's query does the same |
| `apply.rs` | a scan setup makes while a daemon runs is overwritten by that daemon's next checkpoint |
| `main.rs:842-844` | "Nothing on your machine was changed by this run" and "still working" are printed after aborts too that had stopped a service to replace its executable, which is not started again (`AbortedStillWorking`) |
| `prompt.rs`, `wizard.rs` | the warning about the data folder comes when only declining is left; no drive at all can be chosen (`Prompt!SomeDriveChosen`) |
