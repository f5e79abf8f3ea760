# Models of fns-cli

fns-cli keeps a local vault of notes (`.md`), attachments and `.obsidian/`
configuration in step with a Fast Note Sync server.  This directory holds TLA+
models of the program in `src/`, configurations that check them with TLC on
small instances, and theorems about them checked by TLAPS.  Paths such as
`note.rs:410` are relative to `src/src/` (`src/src/sync/` for `note.rs`,
`file.rs`, `setting.rs`, `folder.rs` and `coordinator.rs`).

1. [The system](#1-the-system)
2. [The modules](#2-the-modules)
3. [The runs](#3-the-runs)
4. [What is proved](#4-what-is-proved)
5. [Where code and documentation disagree](#5-where-code-and-documentation-disagree)
6. [What is not modelled](#6-what-is-not-modelled)
7. [What is left](#7-what-is-left)

## 1. The system

One process, one tokio task for the client and one thread for the file watcher,
one WebSocket to the server.  Nothing else is shared: the watcher talks to the
task over a channel, and both meet in the vault's files.

| component | state | operations |
|---|---|---|
| `main.rs` | - | runs one command; for `run`, drops the coordinator on a signal |
| `coordinator.rs` | the three engines, `state` (three `last_*_sync_time`), `reconnect_retries` | `run_sync`, `run_pull`, `run_push`, `run_continuous`: connect, the three syncs, `commit_state`, then watcher events and broadcasts |
| `ws_client.rs` | `msg_queue`, `is_authenticated` | `connect_and_auth`; its queue and `run_with_reconnect` have no caller |
| `note.rs` | counters `expected_*`/`received_*`, `pending_uploads`, the page in progress, `echo_hashes` | `sync_incremental`, a handler per server message, `push_modify`, `push_delete`, `push_rename` |
| `file.rs` | the same counters, `active_uploads`, `active_downloads`, `echo_hashes`, `last_activity` | request with all files, chunked upload and download, `push_upload`, `push_delete` |
| `setting.rs` | as notes | as notes, for `.obsidian/` and other dot-prefixed directories; bounded by `SYNC_TIMEOUT_SECS` like the file sync |
| `protocol.rs` | `ChunkReassembler` | encodings; reassembly of binary chunks |
| `folder.rs` | as notes | constructed, never run |
| `watcher.rs` | `known_files` | turns notify events into Created, Modified, Deleted, Moved |
| `state.rs` | `.fns_state.json` | `load`; `save` by writing a temporary file and renaming it |
| `signal.rs`, `config.rs`, `cli.rs`, `logging.rs`, `error.rs`, `hash.rs` | - | start-up, pure functions |
| `debounce.rs`, `echo_cache.rs`, `http.rs`, `progress.rs` | - | library code the program does not call |

**How they interact.**  After each connection `run_continuous` runs the note
sync, the file sync and the setting sync one after the other on the same
socket.  Each sends what it lists and its last time, and then loops on
`ws.next()` until its own counters say that everything has been received.
`commit_state` saves the times.  From then on `select!` takes watcher events
(pushed to the server) and server messages (applied to the vault) in any order,
until the socket fails; then everything starts over.  A one-shot `sync` is the
same up to `commit_state`; `pull` is the same code as `sync`.

**What is hard.**

- *Counting.*  A sync knows that it is complete only by comparing sums of
  counters: broadcasts, acknowledgements, the details of several pages and the
  notes that were missing all go into the same sums.
- *Echoes.*  A write made for the server is reported by the watcher as if the
  user had made it, and a push may be broadcast back to its author.  One hash
  per path, `echo_hashes`, is all that tells them apart.
- *Times.*  The next incremental sync trusts that everything up to
  `last_note_sync_time` is in the vault, whichever syncs failed, were cut off or
  were repeated after a crash.
- *Noticing.*  The watcher sees events, not files: it asks the vault what a path
  is when it gets to the event, `known_files` is all it knows of a directory
  that is gone, and notify describes a rename differently on each system.
- *Losing things.*  Watcher events are consumed whether or not their push
  succeeds, messages of notes are ignored while the other syncs run, and the
  process may end anywhere.

**What makes it correct.**  A sync that returns `Ok` has nothing left to
receive; the committed time never runs ahead of the vault; a sync ends; the echo
cache suppresses what it should and nothing else, so that vault and server come
to agree and stop talking; what happens to the vault is reported; a missed
change is caught up with; the program gives up only when it should.  `PROJECT.json` lists the hazards behind these, each at
its line, with the properties that cover it.

## 2. The modules

| module | models | built on |
|---|---|---|
| `SyncSession` | the contract of a sync: ask, be told what differs, settle each item once, return with nothing left, or give up | |
| `NoteEngine` | what each handler and push of `note.rs` does to files and `echo_hashes` | |
| `NoteSync` | a paged note sync with its server, the commit of its time, failures, disconnections and restarts | `NoteEngine`, `SyncSession` |
| `NoteLive` | continuous mode for notes: watcher, broadcasts, echo cache | `NoteEngine` |
| `FileEngine` | what each handler of `file.rs` does to files, `echo_hashes`, uploads and downloads; chunk reassembly | |
| `FileSync` | a file sync with its server, chunked transfers, what becomes of them after the sync, failures, disconnections and restarts | `FileEngine`, `SyncSession` |
| `SettingEngine` | what each handler and push of `setting.rs` does to files and `echo_hashes` | |
| `SettingSync` | a setting sync with its server, its time-out, and the live phase after it | `SettingEngine`, `SyncSession` |
| `VaultWatch` | from the file system to the server: watcher, `known_files`, choice of an engine, pushes | |
| `Coordinator` | connections, retries, the three syncs in turn, times, what is in flight | |
| `Queues` | what can be said of a queue: free of some elements, their last word, at most one of them, two queues that agree on them | |
| `NoteSyncProofs`, `FileSyncProofs`, `SettingSyncProofs`, `CoordinatorProofs` | theorems | the module they are named after |
| `NoteLiveProofs`, `VaultWatchProofs` | theorems | the module they are named after, `Queues` |
| `MCNoteSync`, `MCNoteLive`, `MCFileSync`, `MCSettingSync`, `MCVaultWatch`, `MCCoordinator` | symmetry and constant values for TLC | |

**SyncSession.**  What the rest of the program may expect of a sync, without
messages, counters and pages.  `stage` is `"idle"`, `"asked"`, `"answered"` or
`"returned"`, `left` the items that are not settled.  A step asks, answers (and
so chooses `left`), settles one item, returns with `left` empty, or gives up,
which promises nothing.  `NoteSync`, `FileSync` and `SettingSync` implement it
(`KeepsContract`): `Stage` is read from `phase`, from whether the request is still
on its way (`Asking`), and from `sync_complete`; `left` is what is outstanding
for notes, for files what a finding, a message or a transfer is still about
(`Busy`) and, for settings, what the counters still miss (`Uncounted`).  A
handler that fails, a lost connection, a restart and a time-out are `GiveUp`.

**NoteEngine.**  `disk` is the vault: a content per path or `Absent`.  A content
*is* its hash, because the code compares nothing else.  `NonText` are the
contents `read_to_string` rejects.  `echo` is `echo_hashes`, with the marker
`__deleted__` as `DeletedMarker`.  `HandleNoteModify`, `HandleNoteDelete`,
`HandleNoteRename`, `PushModifyEcho` and `PushDeleteEcho` are the bodies of the
functions of those names.

**NoteSync.**  The client's variables are the fields of `NoteSync`: `expected`
and `received` are the sums of the four counters each (nothing in the code reads
one alone), `page` is the record of the five `page_*` fields, `phase` says
where `run_continuous` is.  Each message type has an action; `Settle` is the
common end of the handlers (`check_all_received`, `finish_page_if_needed`, and
the return with the commit of the time).  Every handler is one action, as in the
code no await lies between its reads and its writes, with one exception:
`read_stable_note_content` sleeps between `exists()` and its reads.  During that
sleep the note may vanish (`ReceiveNeedPushOfVanishing`).  An edit in that gap
is the same as one just before the push.  `HandlerFails`, `Disconnect` and
`Restart` may strike between any two steps.

The server is external.  It answers with the counts of `NoteSyncEnd`, sends
one page per acknowledgement (full or not), and acknowledges pushes; its verdict on a note
changed on both sides is left open.  Its clock and the mtimes of files are
one clock that ticks with every change: skewed clocks are not modelled.

**NoteLive.**  It starts after a sync that left both sides equal, on a
connection that stays up.  The queue `watch` stands for the channels between
notify, the watcher and the coordinator.  A write is reported once or more, a
removal once, a rename by its target and then by both its paths, as notify does
on Linux.  `select!` is the free choice between `HandleWatchEvent` and
`HandleServerMessage`.

Whether the server sends a change back to its author is not visible in this
repository, so `EchoesToAuthor` is a constant.  With echoes, crossing edits
converge, because each side hears what the server kept last; without them,
vault and server may keep each other's edits.  Edits may always cross.  A
deletion or rename that crosses another change is what breaks the code
(`NoteLiveLoop`), so the constant `Overlap` says whether there are such:
without it a removal is made only when everything before it has settled, and
nothing else is done until it has settled itself.

**FileEngine.**  `downloads` and `uploads` are `active_downloads` and
`active_uploads`; a download holds the chunks its `ChunkReassembler` has got.
The chunks of a content carry that content, and a file assembled from chunks of
several contents is `Torn`.  `Empty` is the content the server cuts into no
chunk at all.  An mtime only ever decides which of two files is the later one,
so `newest` records just that: the side, `"here"` or `"there"`, whose file has
the later mtime.  A download that ends sets it to `"here"`, because the file gets
the time of the write; an update with its content inline sets the server's
mtime.

**SettingEngine.**  Not the note engine under another name.  A modification is
written whatever the echo cache holds; a deletion that the cache suppresses
does nothing and is not counted; `Excluded` paths are listed by nobody and
written by no handler but the rename; `NonText` contents are listed (with a
lossy hash, taken for the content here) but cannot be pushed; `Binary` ones are
not listed at all.

**SettingSync.**  The shape and the names are those of `NoteSync`.  It is the last
of the three syncs, and `commit_state` and the live phase follow without an
await, so that its return, the commit and the save are one step
(`Return`).  The time-out is looked at only after a message, as in
`process_setting_sync_messages`, and commits the time like a completion.  The
counters go on changing in the live phase, where nothing looks at them; they are
left alone there.  `silent` is a ghost: the paths that nothing in this session
will count any more, because a deletion was suppressed as an echo or an upload
that the server waits for was not made.  `cutOff` is one too: what was
outstanding when a sync ran out of time.  `edited` are the paths with a local
change that no push has carried to the server.  `QuietInSync` says whether the
server keeps changes of other devices from a client that is syncing.  A connection
that is dead is `phase = "idle"` at once, whenever the program notices: until then
`PushFails` takes events and loses them, one after the other, with what each
failing send leaves in the echo cache (`FailedPushEcho`).

**FileSync.**  The shape is that of `NoteSync`.  `Apply` is the handler of a
message, `Replies` what it sends, `Counts` whether it raises a `received_*`
counter, and `FinishPage` the page's bookkeeping.  A message belongs to a page
(`ReceiveDetail`) or to a transfer (`ReceiveTransfer`), which no page counts.
The request lists all files, whatever the last time, so `last_file_sync_time`
has no influence and is not a variable.  A file sync may return with transfers
under way: when its time is up (`ReturnIfComplete`) or a handler fails.  Their
messages are then read by the loop of the setting sync and by the live phase,
which hand some types to the engine and ignore others (`HandledIn`,
`ReceiveElsewhere`); nothing looks at the counters outside a sync, so there
they are left alone.  `disturbed` and `skipped` are ghosts: which side has
changed since the request, and for which files the echo cache suppressed what
the server asked.  An upload reads its file twice, for its hash and to send it;
`ChangedUpload` and `UploadVanishes` are the handler with a change of the user in
between, all its other reads and writes being one step.  `Busy` is the sync as
`SyncSession` sees it: the files that are a finding, a message, a request, a
download or an upload.

The server is external here too: the later mtime wins, there is a page per
acknowledgement, chunks are numbered from 0 and sent in any order and
interleaved with everything else, session ids are unique within a connection,
and an upload is acknowledged with or without its session id, since the code
takes both.  It forgets its sessions with the connection.

**VaultWatch.**  The connection stays up, and the server neither changes anything
nor echoes; what is left is whether the program notices what happens to the
vault.  `raw` are notify's events, `events` the watcher's (`event_rx`, the bridge
thread and `watch_rx` are one queue).  `process_event` is one action per kind of
event, and reads the vault as it is when the event is handled.  A rename is
described as inotify does (`RenameMode::From`, `To`, `Both`: backend `"paired"`)
or by a `RenameMode::Any` per side, as notify does where it cannot tell the
sides apart (`"single"`).  The vault is a set of directories with the same file
names in each; a directory's kind decides the engine.  A path that `is_excluded`
rejects is outside the vault: `process_event` drops its events, and the branches
of `handle_watch_event` for a rename across that border (coordinator.rs:1063)
get no event behind this watcher, which is why they are not in the model
(main.rs:371 has the watcher exclude the config directories too when they are not
synced).  A file is handled in three steps, each reading it anew: `push_upload`, then,
when the server has asked, the hash of `handle_upload_session` and the read of
`upload_file` (`UploadFile`), whose content is sent while the hash of before goes
into the echo cache.  `hashed` is the upload between the last two; the client does
nothing else meanwhile, the user may.  Three ghosts name what the program does not
report: `unreported`, the paths whose last change goes unnoticed, `carried`, the
files that came to their place with a directory, and `misread`, those sent with
another content than was hashed.  A file in `misread` that again has the content of
its entry is taken for sent (`TakenForSent`).
Without paired renames the watcher reports the files of a directory that leaves
as far as `known_files` lists them.  `LeftBehind` names the others: those that
were carried, and those that an engine sent before the watcher saw them appear.
A directory's path is never that of a file (`VaultWatchAssumption`).

**Coordinator.**  A change is an item (kind and time).  `local` are those the
server lacks, `remote` those the vault lacks, `pushed` and `news` those on their
way.  A sync is abstracted to asked, answered, served and complete.  It completes
when it has counted as many messages as it expects.  Without broadcasts that is
when everything it was due has been handled, which `NoteSync`'s
`CompleteMeansHandled` establishes; a broadcast handled by the sync of its own kind
is counted like a detail (`Counts`, `session.extra`), so that the sync may return
with one item more still to come, and commits its time all the same (`Complete`).
Two ghosts record that: `overtaken` are the items that a sync left over when it
returned `Ok`, `counted` the broadcasts that the syncs have counted.  `Leave` is what
of them is on its way by then.  `Since` and `Listed` keep what differs
between the kinds: only notes are listed by time, files are always asked for
from 0.  `TimeOut` is the `Ok` that the file and setting syncs return after
`SYNC_TIMEOUT_SECS`.  A broadcast is applied, ignored by the sync of another kind,
or lost with the error of its handler, which ends a sync (`FailsOver`) and which the
live phase only logs (`HearNews`); an event whose push fails is lost in the same way.
`letGo` is a ghost: the items that the present connection
may not bring any more, because their broadcast was ignored or failed, or their sync
failed or returned without them.  `rushed` is one too: the notes edited while a note
sync waited for its answer.  `link` is separate from `phase`: the program finds out
about a dead connection when it next uses it, and pushes on it until then.

## 3. The runs

| run | states | shows |
|---|---|---|
| `NoteSyncSafe` | 1.9 M | `AppliedUpToLastTime`, `EchoTruthful`: whatever fails or is cut off in two sessions, what the committed and the saved time cover is in the vault, and the echo cache is right about every untouched note; `CompleteMeansHandled`, `AckedPageHandled`, the inductive `SessionInv`, and the refinement `KeepsContract` |
| `NoteSyncLive` | 0.4 M | `SyncTerminates`, with a broadcast in the midst and handlers that fail; `EchoTruthful` with broadcast renames |
| `NoteLiveSafe` | 0.2 M | `QuietMeansSame`, `UploadsAreOurs`, `FeedbackEnds`: edits of both sides that cross, deletions and renames made one at a time, all echoed to their author |
| `FileSyncPages` | 0.4 M | `CompleteMeansHandled`, `SyncTerminates` and the refinement `KeepsContract`: two files, a page each, transfers beside the pages and beside each other |
| `FileSyncTransfers` | 1.1 M | `SameUnlessSkipped`, `NeverTorn` and the inductive `TransferInv`: two syncs of one file of three contents, with everything that can fail or change in between |
| `SettingSync` | 1.4 M | `KeepsContract`, the inductive `SessionInv`; `MissedOnlyByTimeOut`: nothing but a time-out makes a sync skip a change for good; `EndsUnlessSilent`: nothing but a swallowed deletion or a file that cannot be pushed makes it wait for ever |
| `VaultWatch` | 1.8 M | `QuietMeansReported`: when all events are handled, the server has what the vault has, but for what the ghosts name; `KnownIsTrue`: so does `known_files` |
| `CoordinatorSafe` | 0.7 M | `GivesUpRightly`, `NotesUpToLast`, `ForgottenOnlyIfPassed`, `NotesCatchUp`, and `OneForEachBroadcast`, which bounds their exception `overtaken`: with two failed attempts, a lost connection, a restart, failing handlers, time-outs, and a broadcast in any sync |
| `NoteSyncOvertaken`, `NoteSyncStuck`, `NoteLiveLoop`, `FileSyncLostUpload` | | the counterexamples of section 5 |

**Bounds.**

- *Notes and contents.*  Two notes and two contents make every verdict of the
  server and every mix of two of them.  `NoteSyncSafe` has a page per note, so that
  one page follows another, `NoteSyncLive` pages of one or two.
- *Sessions.*  Two: the second starts from whatever the first left behind, which
  may be any reachable state (the initial vault and server are arbitrary).
- *Changes.*  Two: one by each side, or two of the same note.
- *Continuous mode.*  Three changes by the user and one elsewhere: an echo under
  way while a newer change of each side crosses it.  Two events per write.
  `NonText` is empty, so that the exception of `QuietMeansSame` for files that
  cannot be read is not used: a note that cannot be read is never pushed.
- *Files.*  A content takes two chunks, so that those of two transfers can mix,
  or none if it is empty.  Two files fill two pages and upload, download and
  are deleted side by side (`FileSyncPages`); one file with three contents may
  change twice during its download, over two sessions (`FileSyncTransfers`).
  Files are not empty at first: an empty one comes by a change.
- *Settings.*  One included and one excluded path, a content that is text and one
  that is not UTF-8, a page per path, one change by either side, two sessions
  and one broadcast.  `Binary` is empty: such a file is listed by nobody, which
  an absent one shows as well.
- *Watcher.*  Two directories of one kind and a dot-prefixed one, with a file
  each, all there at first or all but one; three changes by the user, made while
  up to two events wait, both backends.  A file cannot be renamed from one kind to another and back with less.
- *Coordinator.*  `MaxRetries = 1` with two failures reaches the limit within
  one outage and across two; one lost connection in any phase, and one restart.
  Two changes are a note that a sync owes and a broadcast that it counts in its
  place, or an edit and a broadcast.
- *Broadcasts during a sync* are off in `NoteSyncSafe`: with one, its properties
  are false (section 5).  `NoteSyncLive` has one.  In `SettingSync` a broadcast
  falls into the live phase, or is a rename, which no count contains
  (`QuietInSync`).

Paths and contents are interchangeable, so the safety runs use symmetry; the
runs with a liveness property and those of files do not.  Deadlock is not an error in any of
them: the bounds stop every behaviour in the end, and a finished sync or a
program that gave up really stops.

**Fairness.**

- `NoteSync`: the client's loop takes a message when there is one, and the server
  answers.  Nothing is assumed of users, failures or connections.
- `SettingSync`: the same.
- `FileSync`: the same, for all that the server has to send.
- `NoteLive`: `select!` polls its ready branches in random order, so both
  handlers get their turn, and the server takes what it is sent.
- `Coordinator`: some step of the program, the runtime or the server happens
  when one can.  Failing attempts, lost connections and restarts need no
  fairness and are bounded, so the network is good in the end, which
  "eventually caught up" presupposes.

`NotesCatchUp` is weaker than README.md:210, which is the point of `letGo` and
`overtaken`: a change whose broadcast was ignored or failed, or whose sync failed
on a connection that stays up, is caught up with only after the *next* connection;
one that a sync left over is never asked for again.
`ForgottenOnlyIfPassed` asks that a note the server lacks be newer than the last
time, so that the next sync lists it even when its event is lost.  It is not so for
a note edited between a sync's listing and its answer, which that sync has not
listed and whose mtime is below the time it commits (`rushed`), nor for one that a
sync has listed and left over, if its push is lost (`overtaken`).  `NotesUpToLast` has
the second exception only.  `rushed` grows in that one window only, and
`OneForEachBroadcast` says that no item is left over but for a broadcast that a sync
has counted, so that without one there are none.

`SyncTerminates` of `FileSync` holds while other devices are silent and the
server holds no empty file; `CompleteMeansHandled` while other devices are
silent, since a broadcast is counted as a detail here too.
`SameUnlessSkipped` excuses the files for which the echo cache suppressed a
request; `SyncedMeansSame` does not, and fails.

## 4. What is proved

For all values of the constants that satisfy the modules' assumptions (any
finite set of notes, any contents, page size, bounds).

**NoteSyncProofs**

- `TypeCorrect`: `Spec => []TypeOK`.
- `SessionInvariant`: if `MaxBroadcasts = 0`, `Spec => []SessionInv`.
- `CompletionCorrect`: under the same assumption, a session that has returned
  `Ok` has nothing outstanding (`CompleteMeansHandled`).
- `PagesAcknowledged`: under the same assumption, a page is acknowledged only
  when all of it has been handled (`AckedPageHandled`).

`CompleteMeansHandled` says nothing of a session under way and is not inductive.
`SessionInv` adds why it holds: (1) the request and `NoteSyncEnd` travel alone;
(2) each note of the session is in one place only: owed by the server, on its
page, in flight to the client, or waiting in `pending_uploads` for an
acknowledgement; (3) from `NoteSyncEnd` on,
`received + Cardinality(Outstanding) = expected`.  Each handler takes one note
out of `Outstanding` and adds one to `received`, or moves a note from flight to
`pending` and leaves both alone (`DetailHandled`, `DetailPushed`,
`OtherHandled`).  So `received >= expected`, the code's test, forces
`Outstanding = {}`.  A broadcast breaks (3), hence the assumption: without it
the theorem is false, as the run `NoteSyncOvertaken` shows.  It says that the
server tells a client of nothing else between `NoteSync` and the last detail;
the code does not make sure of that.

`AckedPageHandled` looks at an acknowledgement under way, when the page that it
closes is history.  `PageInv` is about the page from its announcement on: an
acknowledgement, an announced page and an active page exclude each other; a page
travels ahead of its details; and while a page is active,
`page_received + Cardinality(ToCome) = page_total`, `ToCome` being the notes of the
page whose detail the client has not handled.  So `page_received >= page_total`,
the test of `finish_page_if_needed`, forces `ToCome = {}`.  It needs part (2) of
`SessionInv`, so that a detail handled takes exactly one note out of `ToCome`, and
it excludes renames: a `NoteSyncRename` counts for the page without being one of
its details, which the assumption keeps out of a sync.

**NoteSyncProofs**, the times (if `MaxBroadcasts = 0`)

- `NothingMissed`: `Spec => []AppliedUpToLastTime`.
- `EchoSound`: `Spec => []EchoTruthful`.

Neither is inductive, and each needs the other: a detail that an echo entry
suppresses must not have been needed, and an entry stays truthful because what
is written comes from a detail that is still current.  `AppliedInv` adds: no time
exceeds the server's clock, and the time of a sync (`SyncTime`) is the clock when
it was answered (`TimesOrdered`); what the request says of a note is what the vault
holds (`AskedTruth`); a detail that is owed, on the page or in flight tells what
the server has, unless that is newer than `SyncTime` (`OnTheirWay`); and a note
that is not outstanding, and not changed at the server since, is in the vault
(`Handled`).  `SessionInv` closes the argument: a complete sync has nothing
outstanding, so its time may be taken over.  It covers any sequence of syncs,
failing handlers, disconnections and restarts.

**The refinement** in **NoteSyncProofs**, **SettingSyncProofs** and
**FileSyncProofs**

- `ContractKept` in `NoteSyncProofs`: if `MaxBroadcasts = 0`, `NoteSync` implements
  `SyncSession`, under the mapping of section 2.  One lemma per action says which
  step of the contract it is; `SessionInv` supplies why: the request is alone, so
  that `Asking` ends with the answer; each note is in one place, so that a handler
  takes one note out of `Outstanding` or none; and the counters agree, so that
  `sync_complete` needs `Outstanding = {}`.
- `SessionInvariant` and `ContractKept` in `SettingSyncProofs`: the same for
  settings, if `QuietInSync`.  The difference of the counters is the number of
  *uncounted* paths, those that are outstanding and those that were dropped
  (`silent`): a setting sync that drops one does not return by itself, which
  is the deadlock of setting.rs:457 seen from the other side.  `PushesApart` is
  needed beside `OnePlaceEach`: pushes of the live phase and of the sync have the
  same acknowledgement, and `pending_uploads` is matched by path.
- `ContractKept` in `FileSyncProofs`: the same for files, if `MaxBroadcasts = 0`.
  `left` is `Busy`, what is looked at until the setting sync is over: transfers
  outlive their page, and a file is at any time a finding, a message, a request, a
  download or an upload, of which a step turns one into the next or ends one
  (`TakenBusy`, `MovedBusy`).  That it ends no *other* file needs `OneFile`: on a
  connection a session id stands for one file, since `active_downloads` and
  `active_uploads` are keyed by it, and a second announcement of an id would
  replace the transfer of the first.  That it returns with nothing left is
  `HandledInv`, below.  A request for a file that is gone settles it here,
  although no counter will know: such a sync is given up by its time-out.
- `TypeCorrect` in `SettingSyncProofs`, without assumptions on broadcasts.

**SettingSyncProofs**, the times (if `QuietInSync`)

- `MissedByTimeOut`: `Spec => []MissedOnlyByTimeOut`.

`TimesInv` has the parts of `AppliedInv`, and differs from it as the code does.
There is no part about the echo cache: a modification is written whatever the
cache says, and a suppressed deletion goes uncounted, so that its path never leaves
`Uncounted` and no completed sync covers it.  A path is `Settled` if the vault has
what the server had when it answered, unless either has changed since; what the
sync counts no more and no time-out has cut off is settled (`Handled`).  Details
outlive a sync that is timed out or fails, and are handled in the live phase
among the broadcasts; so `OnTheirWay` speaks of every phase, and says of an
acknowledgement and of a rename that they tell of changes newer than the sync: the
one takes its path off `Uncounted` and the other moves a file without settling
anything.  `OnlyUsers` is needed because `collect_local_settings` leaves out files that
are not text: an absent entry of the request then says nothing about the vault,
unless such files are the user's own.  `VaultStep` lists what any step may do to a
path; one lemma per part shows that the part survives it, and one per action that
the action is such a step.

**CoordinatorProofs**

- `TypeCorrect`, `GivesUpOnlyThen` (`GivesUpRightly`) and `NeverAhead`
  (`NotesUpToLast`), from the inductive invariant `CoordInv`.
- `NeverForgotten` (`ForgottenOnlyIfPassed`), with `LocalInv` besides.
- `OneItemForEach` (`OneForEachBroadcast`), with `LeftInv` besides.

`NotesUpToLast` needs to know that a time about to be committed is covered.
`CoordInv` adds: no time exceeds the clock (`InTime`), so that new changes are
newer than any of them; between answer and completion a note sync is due every
note that its time would cover and that no earlier sync has left over
(`DueUpToEnd`), so that what completion leaves uncovered is what it adds to
`overtaken`; and a session exists only in the phase of its sync
(`SessionInPhase`).  `CountsRetries` ties `reconnect_retries` to the outage.  `LocalInv`
says the same of what a sync has listed: a note of `local` that the time of a sync
would cover is listed, rushed or overtaken.  `LeftInv` bounds the exceptions:
`Cardinality(overtaken) + session.extra <= counted`, where the broadcasts that a sync
in progress has counted stand for the items that it may leave over.

**FileSyncProofs**

- `TransferInvariant`: `Spec => []TransferInv`; from it `TypeCorrect` and
  `DownloadsNeverMix` (`NeverTorn`), with broadcasts, I/O errors, time-outs,
  disconnections and restarts, for any number of chunks per content.

`NeverTorn` alone is not inductive: a torn file needs a download that has
chunks of two contents, and nothing in `NeverTorn` forbids one.  `Sourced` adds
that on a connection there is a function `source` from session ids to contents
such that every number of chunks announced, every chunk in flight or still to
be sent and every chunk in `active_downloads` is of `source[id]`, with an index
below the number of its chunks (`OneSource`).  A new session extends `source`
by its fresh id (`NewSource`).  A download with as many chunks as announced
then has all of them and no other, by counting (`AllChunks`, `AssembledWhole`),
which is why the test of `is_complete`, a comparison of two numbers, is enough.
`NothingUnconnected` and the clearing of `active_downloads` by `reset()` make
the ids of one connection harmless on the next.  The type of a message to the
server excludes torn contents, so `TypeOK` holds only because of `NeverTorn`.
What the theorem takes from the server: ids are not reused on a connection, and
indices run from 0 to count - 1 (`FilesAssumption`, `ServerStartsDownload`).
Each of the invariants below is kept by `ChangedUpload` and `UploadVanishes` too: an
upload whose file changes between its two reads is counted like any other
(`ChangedInv`, `ChangedHandled`, `ChangedContract`), and its file is excused where
both sides are compared.

- `CompleteHandled`: `Spec => []CompleteMeansHandled`, for all values of the
  constants; a remote change excuses a sync (`disturbed`), nothing else does.  If
  `MaxBroadcasts = 0` nothing excuses it (`Quiet`), which is what `ContractKept` uses.

Its invariant is `HandledInv`.  While the sync runs it is `Accounted`: the request
is alone, or its answer is, or `received + Outstanding <= expected`, where
`Outstanding` counts the findings not sent, the messages that stand for one
(`Owing`), the requests of transfers (`Asking`) and the downloads.  Each of them
turns into one of the next kind, or into one more of `received`; it is an
inequality because a file may be gone when its chunks are asked for.  Chunks are in
no count, and `is_complete` must not hold while one is missing: `ChunksKept` says
that a chunk is at the server, in flight or in its download, and in one of them
only (`ChunksOnce`), and that for each there is a download or the start of one
(`ChunksAwaited`).  So a download that has as many chunks as announced is the last
that its chunks wait for (`AllThere`), and the moment in which it leaves
`active_downloads` and is counted is the right one.  The test of `is_complete` then
leaves nothing outstanding (`CompleteIsHandled`), and the setting sync, which takes
what is late, finds only pages and times (`StaysOver`).

- `SyncedSame`: `Spec => []SameUnlessSkipped`, for all values of the constants; a
  change of either side during the sync excuses it.

`SettledInv` adds to `HandledInv` what is under way, file by file.  Before the answer
the request says what the vault holds.  From then on (`Settling`) a file that differs
has been skipped, or is on its way in one direction (`Reconciled`), never in both
(`Apart`): as a finding, a detail, a request, a download.  While nobody else changes
anything, only what is on its way up changes the server's copy and only what is on
its way down the vault's, so that what the other items say stays right (`AllRight`);
`StillSettling` is that argument, once for all steps.  The contents of downloads need
`OfServer`: a session is of one file, and its chunks are of what the server has of
it.  That a late start of a download replaces an active one with the same id
(`Started`) is harmless for the same reason.  When nothing is left, the two sides
are the same but for what was skipped (`OverSettled`), which is the case where the
run `FileSyncLostUpload` shows that they are not.

**Queues**

What is under way is a queue of events or messages, and what it leads to depends
on their order.  `LastWord(q, A, B)`: some element of `q` is in `A`, and none after
it is in `B`.  `Free(q, A)`, `Once(q, A)`, `Fresh` (no two in a row say the same)
and `Keeps` (two queues say the same of a note) are the other words of the two
proofs below; the lemmas say how each fares when the head is taken or something is
appended.

**NoteLiveProofs**

- `TypeCorrect`: `Spec => []TypeOK`, for all values of the constants.
- `UploadsOurs` and `QuietSame`: `Spec => []UploadsAreOurs` and
  `Spec => []QuietMeansSame`, if `EchoesToAuthor`, `~Overlap`, and `NonText = {}`
  where notes may be renamed (`Removals`).

`QuietMeansSame` speaks of the moment when all queues are empty; `IInv` says what
those that are not will come to, note by note (`NotePart`):
a note being removed is not being edited, and what its removal will find is known
(`RemovedPart`);
the last content under way to the client is the one the server holds (`SentPart`);
when none is, the server has, or will get, what the vault and `echo_hashes` hold
(`SettledPart`);
when no edit is waiting to be handled, the echo entry is true (`EchoPart`);
an edit that is waiting is of the user or in `echo_hashes`, so that a push is never
of a received content (`OursPart`).
The last two are not inductive alone.  The echo entry is one per path and is
overwritten by each message; it protects a received content only as long as
nothing else is received before its event is handled or, if something is, as
long as the entry changes together with the file.  `handle_note_modify` skips the
write when the hash is the entry's, so a broadcast that repeats the entry must
not be there for a file that has changed since: `FreshPart` says that the server
never sends the same content twice in a row but for one of the user's.

Each assumption is needed.  Without echoes, two edits that cross end with each side
holding the other's.  With removals that overlap, `NoteLiveLoop` shows what
happens.  And a `NoteSyncRename` of a note that cannot be read leaves the new path
the echo entry it had (note.rs:526 is a `read_to_string` whose failure is ignored),
so that a later edit equal to it is not pushed: TLC finds that with three
contents, one of them unreadable.

**VaultWatchProofs**

- `TypeCorrect`, `KnownTrue` (`KnownIsTrue`) and `QuietReported`
  (`QuietMeansReported`): for any directories, files, kinds and contents, both
  kinds of backend, any number of changes, from the inductive invariant `IInv`.

Both properties speak of empty queues.  `IInv` follows a path from the raw events
to the server.  `KnownInv`: for a file that is there, the raw events end with one
that lists it, or it is listed and none takes it off; conversely for one that is
gone.  `ReportInv`: for a file that is there, the raw events end with one that shows
it, or the watch events do, or else the server will hold it or has yet to ask for
it (`Right`); for one that is gone, an event is under way that says so, or
`known_files` has it and its directory's removal is under way, or the server will
be told.  The watcher looks at the vault when it handles an event and the engines
look again, twice, so that what an event leads to depends on the state at that time;
one lemma per kind of event says what is appended (`Effect`), one per change of the
user what the raw events then say (`Changed`).  `EchoInv` is needed because an engine
sends nothing that its echo cache holds: an entry is what the server will hold, but
for a file in `misread`.  A file that differs from its entry then either has an event
under way or is still to be sent (`HashInv`, `UploadInv`), and one that equals it is
the exception `TakenForSent`.
`UnknownInv` is needed without paired renames: for a file that is not in
`known_files`, and whose directory leaves, nothing is reported, so the server must
have been told that it is gone.  TLC and the failing proof of it showed the case
that `LeftBehind` now names: the server's answer to a first appearance sends the
second, which the watcher has not seen yet (file.rs:874 compares with
`echo_hashes` only).  An instance that reaches it has one plain directory, four
pending events and five changes, more than the run `VaultWatch` makes; it holds
there with `LeftBehind` as it is.

**Only model-checked**: all liveness (`SyncTerminates`, `FeedbackEnds`,
`NotesCatchUp`, `EndsUnlessSilent`), which is out of the prover's reach.  Every
invariant that a passing run checks is stated by a theorem.

## 5. Where code and documentation disagree

- **A broadcast is counted as a detail** (`NoteSyncOvertaken`, note.rs:810).  A
  `NoteSyncModify` for a change made while the sync runs raises
  `received_modify`; the sync then ends before its last detail, and commits a time
  that covers a change the vault lacks.  Incremental sync never asks for it
  again.
- **A sync waits for an acknowledgement nobody will send** (`NoteSyncStuck`,
  note.rs:688).  A `.md` file that is not UTF-8 is listed, asked for, and then
  silently not pushed.  The note sync has no time-out.  The same happens to a
  note deleted while it is being read.
- **A note deleted and re-created at once is deleted and re-created for ever**
  (`NoteLiveLoop`, note.rs:747), on a server that echoes changes to their author.
- **An upload that never arrived is taken for done** (`FileSyncLostUpload`,
  file.rs:892): its content enters `echo_hashes` when its chunks are written to
  the socket.  When the connection is lost with them, the next sync's
  `FileUpload` is skipped as an echo and counted, and the sync says it is
  complete.

Recorded among the hazards, without a run of their own; where a property has an
exception for the case, it is named:
a `NoteSyncRename` whose rename fails leaves the old note marked as deleted, so that
its deletion is later taken for an echo (note.rs:511, `Mislaid`);
one whose note cannot be read leaves the new path the echo entry it had, and a later
edit equal to it is not pushed (note.rs:525, the assumption of `QuietSame`);
a note edited between a sync's listing and its answer, whose event is then
consumed by a push on a dead connection, is listed by no later sync
(coordinator.rs:948, `rushed`);
what a sync leaves over that has counted a broadcast is lost with the connection or
with the error of its handler, and no later sync asks for it or lists it
(note.rs:810, `overtaken`);
a file that is written between the hash of its upload (file.rs:870) and the read that
is sent (file.rs:905), and changed back before its events are handled, equals its
echo entry, the hash of before, so that neither an event nor a request sends it again:
the server keeps what was there for a moment (file.rs:892, `TakenForSent`);
a `SettingSyncDelete` suppressed as an echo is not counted (setting.rs:457), and a
setting that is not UTF-8 is listed, asked for and not pushed (setting.rs:276): the
sync waits until another message lets it look at the time (`silent`);
a setting sync that runs out of time returns `Ok`, and its time covers what it
has not received (coordinator.rs:453, `cutOff`);
a rename out of the vault, where notify pairs renames, only untracks the file
(watcher.rs:290), a directory that moves is reported without its files
(watcher.rs:297), and a rename from one kind to another is pushed by the engine of
the new path alone (coordinator.rs:1109): in the three cases the server keeps what
is gone or lacks what came (`unreported`, `carried`);
a file that is sent before the watcher has seen it appear is not known to it, and
when its directory leaves without paired renames the server keeps it (file.rs:874,
`LeftBehind`);
`reconnect_max_retries: 0` ends the program at the first failed attempt
(README.md:79 of the repository says unlimited; `GivesUpRightly` states what the
code does); after an established connection is lost the first attempt is made
without a delay (README.md:208 says the client waits first); a remote change that is
broadcast while the file or setting sync reads the socket is ignored, and one whose
handler fails in the live phase is logged and gone; neither is asked for before the
next connection (coordinator.rs:398, 959, `letGo`); a download
announced with zero chunks writes the empty file and is never counted
(file.rs:794), so that the sync ends only by its time-out.

## 6. What is not modelled

- *Continuous mode for files against a changing server*: uploads that cross
  downloads of the same file.  `VaultWatch` has `push_upload` and `push_delete`
  without downloads, `FileSync` the transfers without watch events.
- *Settings*: messages without a path or an mtime, which the handlers drop; the
  list form of `SettingSyncNeedUpload`; `request_full_sync`, which nothing calls.
- *Chunks whose index is out of range* (protocol.rs:941: the download they complete
  fails with "Download incomplete"), and binary frames that
  cannot be decoded.
- *Folders*: `FolderSync` is constructed and never run.
- *`sync_full`, the queue of `WsClient`, `run_with_reconnect`, `debounce.rs`,
  `echo_cache.rs`, `http.rs`, `progress.rs`*: no caller in the program.
- *`run_push`*: it sends everything and commits nothing.
- *Exclusion patterns and ignored files*: a path is in the vault or outside it,
  in `SettingSync` excluded or not; how a pattern decides that is not modelled.
- *Kinds that are not synced*: `Coordinator` has its constant `Enabled`;
  `VaultWatch` is of a program that syncs all three.
- *`EventKind::Any` with two paths*, which notify's backends do not emit for a
  rename.
- *Directories that become empty* are removed by handlers; this is invisible to
  the properties here.
- *Encodings, hashes, logging, configuration, exit codes*: a message is a record
  and a content is its hash.  Hash collisions are left out.
- *Authentication* is one step that succeeds or fails.  `authenticate` has no
  time-out; the model assumes that an attempt ends.
- *Seconds*: delays are a phase (`sleeping`), time-outs a choice (`TimeOut`).

## 7. What is left

`FileLive`: continuous mode for files on `FileEngine`, with a server that changes
and uploads that cross downloads.

Related questions share a run (as in `NoteLiveSafe`): new properties join the
run whose instance already reaches their cases.
