# A TLA+ model of athas

athas is a code editor: a TypeScript/React front end (`src/features/`) in a
Tauri window, over Rust crates (`crates/`, `src-tauri/`) that run language
servers, debug adapters, terminals, agents and the file watcher. What can go
wrong in it is seldom an algorithm. It is the order of things: a save that is
still in flight while the user types, a watcher event that arrives during a
save, a tab that is closed while a dialog is up, two files that start one
language server, an answer to a permission request that has expired. These modules
describe that part of the code, one action per piece of code that runs without
interruption, and state what must hold whatever the order.

Paths below are relative to the repository.

## Inventory

| Component | State | Operations | Works with | What is hard |
|---|---|---|---|---|
| Saving and reloading (`src/features/editor/stores/buffer.store.ts`, `editor-app.store.ts`, `src/features/file-system/stores/file-watcher.store.ts`) | each buffer's `content`, `savedContent`, `isDirty`; the one autosave timer; `pendingSaves` | typing, save, save all, autosave, format, reload, revert | watcher events, file system, language server (`didSave`), close prompts (read `isDirty`) | everything is captured before an await and applied after it |
| Tabs (`buffer.store.ts`, `buffer-eviction.ts`, `buffer-pane-sync.ts`, `src/features/tabs/components/tab-bar.tsx`, `src/features/panes/`) | list of buffers, active buffer, `pendingClose`, closed-tab history | open, preview, pin, select, close, close batches, reopen, the two tab limits, the unsaved-changes dialog | file reads, saving, the pane store | two stores describe the same tabs; requests, limits and the dialog overlap |
| Language server manager (`crates/lsp/src/manager.rs`, `manager_state.rs`, `client.rs`) | table from (workspace, server) to process, reference count, files | start for file, start for workspace, stop, lookups, shutdown | the front end's commands, the server processes | the table is unlocked while a server starts |
| Language server client (`client.rs`) | pending requests, `is_running`, stdin channel | request, notify; writer and reader threads | the manager, the server | answers racing the end of the server; queues that wait for each other; no timeouts |
| Documents of a language server (`src/features/editor/hooks/use-lsp-integration.ts`, `src/features/editor/lsp/lsp-client.ts`) | refs of the editor component (opened documents, versions, change timer), tracked and failed servers | start, open, change, close, repair, restart | the buffer stores, the manager's commands | a start takes long; the component serves all files of its pane |
| Debugger (`crates/debugger/src/lib.rs`, `src/features/debugger/`) | table of sessions; pending requests of the front end | start, send, stop; writer, reader, exit threads | the adapter process | locks held while waiting, answers before registration |
| Pane layout (`src/features/panes/`) | tree of groups (each with its buffers, order of use and preview), active and full-screen group | split, move, close, collapse, lock, full screen, restore | tabs | the buffer on top of the front pane and the store's active buffer are two facts; ids of groups that are gone |
| Agents (`crates/ai/src/acp/`) | the worker's agent and session, permission sender and channel, terminals | start, stop, prompt, cancel, queries, permission | the agent process, the chat view | one worker for all calls; concurrent permissions on one channel; answers after the fact |
| Terminals (`crates/terminal/`) | table of connections | create, write, resize, close | shells | closing while creating |
| File watcher (`crates/project/src/lib.rs`) | watched paths, last modification times | watch, stop, events | saving and reloading | merged, late and missed events; only the root is watched |
| Window close and project switch | discarded buffers, dialogs | close, switch | dirty flags, saving | loops over awaits |

The remaining parts (Git, GitHub, databases, SSH, settings, extensions and
tooling, search, Vim, rendering) are wrappers, input and output, or algorithms
on text; `PROJECT.json` lists each with the reason it is left out.

For each modelled component the properties that make it correct are:

* **Saving**: the dirty flag may never hide unsaved text. Every close prompt
  relies on it, and it is computed from two other fields that different
  functions write. An edit is eventually stored when autosave is on.
* **Tabs and panes**: the two stores agree, and the buffer the user sees in the
  front pane is the one the store calls active; a file has one tab, unless a
  buffer was given the path of another; no edit is dropped
  without an answer to the dialog; pinned tabs stay.
* **Language servers**: a server process has one owner, is stopped when its
  last file is closed and not before, and can always be stopped.
* **Language server client**: the end of a server settles every call; a call is
  settled once, by the answer to it; the reader never waits for ever.
* **Documents**: the server has the text the user sees; versions rise; a closed
  file is released, and a server without files goes.
* **Agents**: no process is lost; a tool call runs only if the user allowed that
  very request, but for one fallback of the code; the user's answers arrive;
  calls and requests come to an end.
* **Debugger**: the table of sessions follows the processes; an answer meets its
  own request; the panels show the session they claim to show; what is awaited
  is answered; a session that ended is not shown as running; a stop ends.

## Modules

| Module | Role |
|---|---|
| `DocumentSave` | buffers and their files: typing, saves, autosave, watcher, listener, reload, revert |
| `DocumentSave_proofs` | its types, `DirtyWhenUnsaved` and `CleanMeansStored`, proved |
| `PaneLayout` | the panes of a window: what each shows, which is in front; splits, moves and closes |
| `BufferTabs` | the tabs of a window in its panes |
| `SequenceFolds` | what every step of a fold over a sequence keeps holds at its end, proved |
| `BufferTabs_proofs` | the invariant of tabs and panes, and all safety properties of the run, proved |
| `LspServers` | the table of language servers and the processes |
| `LspServers_proofs` | its inductive invariant, and that every entry implements `ServerEntry`, proved |
| `ServerEntry` | abstract: what the files rely on of one entry of that table |
| `RemoteCalls` | abstract: what a caller may rely on when it sends requests to another process |
| `LspClient` | callers, writer, reader and pending table of one server's client; implements `RemoteCalls` |
| `LspClient_proofs` | its invariants and the refinement, proved |
| `LspDocuments` | what a server is told about the files of a pane, from the editor component to the table of servers |
| `LspDocuments_proofs` | all its safety properties, and that its server implements `ServerEntry`, proved |
| `AgentBridge` | the calls to an agent, the worker, the process, the permission requests |
| `AgentBridge_proofs` | its inductive invariants, proved |
| `DebugSessions` | debug adapters with their threads, and the debugger store of the window |
| `DebugSessions_proofs` | its inductive invariants, proved |
| `MC*` | the instances TLC checks, one `.cfg` per question |

### DocumentSave

The window runs on one JavaScript thread, so the code between two awaits is one
action. A call of `saveEditorBufferById`, or of the autosave timer's callback,
is a record in `task[b][slot]` that keeps the text it captured and the place it
has reached:

```
local     begin -> [format] -> write -> mark
remote    begin ------------> write -> mark
untitled  dialog -----------> write -> mark      (then it is local)
timer                          write -> mark
```

| Variable | Code |
|---|---|
| `kind` | path prefix `remote://`, `untitled:` (`isVirtual`), or a local file |
| `watch` | whether the watcher sees the file (`watched_paths`, `watched_directories`) and has its time (`known_files`) |
| `content`, `saved`, `dirty` | `content`, `savedContent`, `isDirty` of the buffer |
| `disk` | the file |
| `timer` | `autoSaveTimeoutId` and the text its closure captured |
| `pending` | keys of `pendingSaves` |
| `notif` | events the watcher has yet to deliver, by who wrote; events of one file merge |
| `reload` | the calls of `reloadBufferFromDisk` in flight, and the text each has read |
| `budget` | the bounds' counters |
| `exposed` | ghost, see below |

`Type` is `handleContentChange`; `Save`, `SaveAll`, `AutoSaveFires` start tasks;
`SaveBegins`, `FormatApplied`, `FormatSkipped`, `DialogAnswered`,
`DialogCancelled`, `WriteFile`, `WriteFails`, `SaveMarks` are the steps between
its awaits; `ChangeUnmet`, `ChangeIgnored` and `ChangeReloads` are the branches
of the `file-changed` listener: the event says "opened" or finds no buffer, a
save is pending, or the buffer is reloaded (the await of `dirname` inside the
listener is part of the event's delivery); `StartReload`, `ReloadReads`,
`ReloadApplies`, `ReloadFails` are `reloadBufferFromDisk`. Nothing in the code
keeps a second reload of a buffer from starting while the first is reading: each
event, and each Revert File, starts one, and their reads may be answered in any
order. `reload[b]` therefore holds several at once (`Reads` bounds how many). A
text is a model value; the formatter is any function on texts. The root of the
project is watched without its subfolders (`watch_project_root`), and no code
asks to watch an open file, so a local buffer's file is watched or not from the
start; the save dialog of an untitled buffer may name any file.

`CleanMeansStored` is the property a user would expect: a clean, settled local
buffer holds what its file holds. The code does not guarantee it outright, and
the ghost variable `exposed` makes the statement exact: it records that a buffer
met one of the races, each named in the comment at the property and each at
one line of the code (the `Expose` conjunct of an action). The run shows that
these are *all* the ways in which the flag can be wrong; taking one `Expose`
away makes TLC produce the corresponding loss of text. One of the races is
between two reloads: the watcher reports a change while the reload of an earlier
change is under way, the second read is answered first and applied, and then
the first replaces the file's text by the older one. The buffer is clean and no
event is left. `DirtyWhenUnsaved` has
no exception: the flag is never clear while `content` and `savedContent`
differ. `AutoSaveReaches` and `StaleResolves` are liveness properties.

### PaneLayout and BufferTabs

`PaneLayout` has the operators of the pane store, and no variables: a layout is
a value, and `splitPane`, `closePane`, `moveBufferToPane`,
`removeBufferFromPanes` and `setActivePane` are functions on it. The split tree
is abstracted to the sequence of its leaves, the bottom pane last, since
directions and sizes change nothing of what the panes show. `Where` is the
`filter` of the code's arrays: it is what `SelectSeq` is, defined by a recursive
function (`Only`) so that it can be proved about.

`BufferTabs` keeps the buffer store and the layout in one record `tabs`, because
every operation updates both in one synchronous piece of code; its operators
(`CloseForce`, `OpenEditor`, `ShowHere`, ...) follow the functions of the stores
in their order. The waits are separate variables: `openReq` (the latest
`handleFileSelect` that is reading its file; a later request makes an earlier
one stale), `reopening` (`reopenClosedTab` reading), `saving`
(`handleSaveAndClose` awaiting `handleSave`, of the buffer that was in front).
The tab bar of each pane closes tabs over the limit in an effect that runs after
every render, since the array it depends on is a new one each time: `LimitTabs`
may run whenever a pane has too many tabs. After a change of the stores it comes
first (`limitDue`), because they are read through `useSyncExternalStore`, whose
renders are synchronous.

`PaneAgrees` says that the panes show exactly the open buffers, that each pane's
list, order of use and preview fit one another, and that the buffer on top of
the front pane stays the active one. The last part names its exceptions, which
are the code's: splitting and closing panes never tell the buffer store. Split
Right on a tab in the background (`tab-bar.tsx:854`) puts a new pane in front
that shows that tab while `activeBufferId` stays with another, and closing a
pane in favour of an empty one does so too. Typing in the new pane then reaches
`handleContentChange` (`editor-app.store.ts:239`), which writes to the active
buffer. Two smaller surprises are in the model as the code has them: clicking a
tab whose buffer is also in an earlier pane ends in that pane
(`pane-activation.ts:20`, `buffer-pane-sync.ts:33`), and emptying the last
editor pane when it is not the one the window began with brings the bottom pane
to the front (`pane.store.ts:163`).

A buffer's path can change. `NewUntitled` opens a buffer whose path is a number
("untitled:Untitled-2"; the number counts the open untitled buffers, so that it
may be that of an open one, which is then shown instead). Its first save
(`SaveUntitled`, `SaveAsAndCloseEnds`) gives it the path of the dialog's answer,
and `Rename` stands for `handleRenamePath` and `handleFileMove`, which give the
first buffer of the old path the new one. All end in `GivePath`
(`updateBufferPath`), which does not ask whether another buffer has the path: a
file may then be open in two tabs, each with its own text. `OneTabPerFile` says
that this is the only way. The ghost `twin` of a buffer records that it was
given a path another open buffer had, and the property excepts those buffers
alone; taking the exception away makes TLC save an untitled buffer over an open
file. An untitled buffer is virtual, so typing never marks it dirty
(`buffer.store.ts:1189`), and it is closed without a question: that is the
code's own choice, and `UnsavedNeedsConsent`, which speaks of the dirty flag, is
silent on it. `SaveUntitled` may end for any open untitled buffer, since it was
in front when its save began and need not be any more. The New File button of an
empty window opens a virtual buffer that is not recognised as untitled
(`untitled-<time>`, without the colon) and whose save does not write; it is not
modelled. Renaming or moving a folder leaves the paths of the open buffers in it
as they were.

There are two limits, as in the code: `StoreMax` (`maxOpenTabs` of the store,
which evicts when something is opened) and `SettingMax` (the setting, which the
tab bar enforces by closing). Buffers are editors, terminals and the new-tab
page; the other content types are opened and closed like a terminal.

### LspServers

The commands run on a thread pool and the table is behind a mutex, so each
critical section is an action, and a start is several: look up
(`StartReuses`, `StartSpawns`), await `initialize` (a record in `starting`),
insert (`FileServerReady`). `start_lsp_for_workspace` spawns first, then asks
for a running server (`WorkspaceServerRedundant`, `WorkspaceServerWanted`, kept
in `checked`), then inserts (`WorkspaceServerReady`), each with the lock taken
anew. Processes exit by themselves or close their output at any time (`Exits`,
`OutputEnds`); `alive` and `running` are the process and the client's
`is_running`. `orphaned` is a ghost: the processes that still ran when the code
dropped their handle, which does not kill them.

### RemoteCalls and LspClient

`RemoteCalls` says what the callers of a remote process may rely on: a call is
issued once, settled at most once and for good, answered only after the other
side has read that very call; the end of the connection may fail any number of
calls together. `LspClient` is the code: callers (`Begin`, `Enlist`, `Send`,
`Settle` are the places between the accesses of shared state in `request` and
`notify`), the writer thread (`WriterTakes`, `WriterWrites`), the reader thread
(`HandleResponse`, `HandleServerRequest`, `SendServerResponse`, `OutputEnds`,
`Drain`) and the server, which is outside the repository and may answer twice or
never, ask, close its output or exit. The two pipes of the operating system and
the channel to the writer are bounded, so each send may block.

`KeepsCallContract` is the refinement: `state` is computed from the call's place
and its outcome, `taken` is what the server has read. `OnlyLateAreStranded` is
what remains true of the drain: `request` tests `is_running` and enters the
table without a common lock, and a request between the two when the reader
drains waits for ever (`late`); no other order strands one.
`ReaderMovesOn` says the same of the circle of full queues (`Jam`): the reader
answers the server's requests on the channel it shares with the callers, and is
stuck only if that channel, the server's stdin and its stdout are all full.

### LspDocuments

One pane, the files of one language, one server. `useLspIntegration` lives as
long as the pane shows one of these files and keeps its refs for all of them.

| Variable | Code |
|---|---|
| `open`, `text`, `shown` | buffers of the store, and the one in front |
| `opened`, `ver`, `timer` | `openedDocumentsRef`, `documentVersionsRef`, `documentChangeTimerRef` |
| `start` | `initLsp` and `restartForFile` in flight, with the text they will open with |
| `tracked`, `failed` | `activeServerFiles`, `failedLanguageServers` of the window's client |
| `srv` | the instance in the manager's table: count and files |
| `doc` | what the server has open (outside the repository) |
| `missed`, `leaked`, `doubled` | ghosts, used by the properties only |

`Select`, `OpenFile`, `Hide` and `Remove` are the ways the pane comes to show
another buffer, each with the effects the component then runs; `Remove` covers
closing (the store stops the server, the hook may close the document and stop it
too, in either order), a replaced preview and an evicted buffer (the store does
nothing). `Lookup`, `Spawned`, `SpawnFails`, `Repair`, `OpenSent`, `OpenReturns`
are a start between its awaits; only a start takes time, every other command is
synchronous and arrives in order.

The properties hold up to the ghosts, and the comments at them list the ways the
code has to miss an edit or to leave something behind, among them:

* the text to open with comes from a ref shared by all files of the pane, so a
  document may be opened with another file's text;
* switching away within the delay of the change timer drops the change;
* a file that is closed in the background and opened again still counts as
  opened, so nothing is started for it;
* closing a file whose document does not count as opened yet does not close it;
* hiding a file and returning starts it once more, the manager counts each
  start, and the server outlives its last file;
* a replaced preview or an evicted buffer stops nothing;
* with two tracked files, the restart command releases one of them and so does
  not restart the server;
* a file that was left behind may be opened again while its server has no
  tracked file and so is not found: the old document stays, and the component
  counts from 1 again. The next change then bears a version the server has
  already, against the comment at `use-lsp-integration.ts:262` ("they do need
  monotonically increasing versions"). `VersionsRise` excepts such files. The
  shortest such behaviour takes four visits of files (19 steps, no fault), one
  more than the run explores; it was the proof of `VersionsRise` that did not go
  through without the exception.

### AgentBridge

The calls of the window run side by side. Each sends a command to the one
worker and awaits its answer; `start_agent` then installs the permission sender
and `stop_agent` clears it, in whatever order the awaiting code goes on.

| Variable | Code |
|---|---|
| `call`, `got`, `queue` | the calls of `AcpAgentBridge`, what they were answered, the command channel |
| `stage` | what the worker awaits within a command |
| `agent`, `status` | the worker's connection and process; `AcpAgentBridge.status` |
| `spawned`, `alive`, `mute` | processes; those that run; those that answer nothing any more |
| `sender`, `held` | `permission_tx`, and the answer whose sender holds its lock |
| `chan`, `line` | the channel of the agent's client, and the handlers at the lock of `permission_rx` |
| `ask` | the permission requests |
| `said`, `crossed` | ghosts: the answers given that choose no refusal; see below |

`AskClose`, `WorkerStops`, `WorkerSpawns`, `SpawnFails`, `Boots`, `BootFails`,
`WorkerSends`, `QueryDone`, `WorkerRefuses` and `FindsExit` are the worker
between its awaits; `Respond` and `Delivers` are `respond_to_permission`;
`AskPermission`, `Receive` and `Expire` are `request_permission`. The protocol
library (external) runs a bounded number of handlers at once and hands on no
message while none is free, so agents that wait for the user hold up answers.

`OnlyAllowedRun` is the property that matters: requests queue on one receiver
and answers come in the user's order, so an answer to an expired or dropped
request must not be taken for another's. It names one exception, which is
the code's: an answer that refuses without naming an option selects one of the
options that refuse, *or else the first option there is*
(`client.rs:577-599`, and `fallback_permission_response`, 201). When the agent
offers only options that allow, such a refusal allows. The window sends one when
no handler for permission requests is set, under the comment "Auto-reject if no
handler for safety - prevents unintended actions"
(`acp-stream-handler.ts:485`). `Offers` is the kinds of options each request
has, any set of them; `Outcome` is what the agent is told; `CanSay` is what the
window can send: a button for each option, or its own Allow and Deny where there
is none, and Deny then ends as a cancel. (An Allow that names no option, where
some are offered, would meet the two `athas.*` fallbacks of
`client.rs:531-551`; the window always names one then.)
`AnswersReachAgent` excepts starts and
stops that overlapped (`crossed`): the code after the answers runs in any order.
`CallsReturn` excepts the awaits without a timeout (`WorkerStuck`:
`session/close`, `set_mode`, `set_config_option`, `list_sessions` to an agent
that fell silent) and one circle (`LockStuck`): after overlapping calls the
channel may be full of answers nobody takes, and `respond_to_permission` waits
for room while it holds the lock that starts and stops need.

### DebugSessions

Two halves meet here. On the side of the crate each session has a process and
two threads that matter (the writer and the reader of the error output only
move text): the reader turns output into events and reports the end of the
output; the exit watcher takes the lock of the child, waits for the exit
*holding it*, then removes the session from the table and reports the end. On
the side of the window the store has one active session and one table of pending
requests. Two channels connect them: events, handled in the order in which the
threads emitted them, and the answers of commands, which travel apart.

| Variable | Code |
|---|---|
| `launch`, `todo` | how far `startDebugging` and `start_session` are; what is left of the handshake |
| `adapter` | the process (outside the repository) |
| `table`, `counter` | `DebugManager.sessions`, `request_counter` |
| `reader`, `watcher`, `stopper` | the places of the two threads and of `stop_session` |
| `wire` | requests the adapter has yet to answer |
| `events` | what the threads emitted and the window has yet to handle |
| `asked`, `returned` | calls of `debug_send_request` before they run, and their answers on the way |
| `active`, `pending` | `activeSession` (id and status), `pendingRequests` |
| `shown` | for each panel, the session its data came from |
| `crossed`, `overtaken`, `exposed`, `wanted` | ghosts, used by the properties only |

`Spawn`, `Insert`, `Watch`, `HandshakeSends`, `HandshakeFails`, `SessionShown` are
`startDebugging` between its awaits (the threads run from `Spawn` on, so a
session may end before it is in the table or shown). `StopDebugging` is the
button, `StopCommand` the command and menu entry; `StopRemoves` and `StopKills`
are `stop_session` before and after it locks the child. `UserAsks`, `InvokeRuns`,
`InvokeFails`, `Registers` and `Resumes` follow a request of the window:
called, run in the crate, and the code after its `await`. The `...Arrives`
actions are the handler of one event each, with the request it makes next.

An adapter's write and the reader's event are one step (`Speaks`), which needs the
reader only and not the adapter: what an adapter had written before it exited is
still in the pipe and may become an event after the exit, also after the exit
watcher has reported the end. A request sent after the exit may be answered in
the model and never in the code, which only adds behaviours.

`AnswersFindRequests` and `ShownOfActive` have a proviso, `~crossed`: the store
does not look at the session of a message, so once something of another session
was handled nothing is promised. `PendingIsAwaited` exempts requests whose answer
was handled before they were registered (`overtaken`): such a request is pending
for ever. `ActiveIsAlive` exempts the three races named at the property. As in
`DocumentSave`, the ghosts make the properties exact: the runs show that there
is no other way.

## Runs

| Run | Shows | Instance |
|---|---|---|
| `DocumentSave_races` | `TypeOK`, `DirtyWhenUnsaved`, `CleanMeansStored` | one buffer of any kind, watched or not, three texts (one the formatter changes), two tasks and two reloads at once, 3 edits, 2 external writes, 1 fault; 515,027 states |
| `DocumentSave_live` | `AutoSaveReaches`, `StaleResolves` | one local buffer, two texts (the formatter turns one into the other), autosave and format, one task and two reloads at once, 2 edits, 2 external writes, no faults; 155,430 states |
| `DocumentSave_autosave` | violation of `AutoSaveReaches` | two local buffers |
| `BufferTabs_tabs` | `TypeOK`, `PaneAgrees`, `OneTabPerFile`, `UnsavedNeedsConsent`, `PinnedStays` | two files, both limits 2, three buffers ever opened, two waits at once, one pin; untitled buffers, renames; two editor panes and the bottom one; 24,019 states |
| `BufferTabs_save` | violation of `SavedBeforeClosing` | limits 3, one editor pane |
| `LspServers_table` | `TypeOK`, `OneOwner`, `CountCoversFiles`, `NoOtherOrphans`, `StopSparesOthers` | three files, one of which can ask for either of two keys, one workspace, three processes, counts to 3 |
| `LspClient_calls` | `TypeOK`, `OnlyLateAreStranded`, `PendingIsAwaited`, `EndSettlesCalls`, `ReaderMovesOn`, `KeepsCallContract` | two requests, one notification, channel and pipes of one message, two answers, two requests of the server |
| `LspDocuments_life` | `TypeOK`, `ServerSeesShown`, `ClosedIsReleased`, `NoIdleServer`, `VersionsRise` | two files, two texts, two starts in flight, three times another file in front, two versions, one failing start, exit or restart |
| `AgentBridge_calls` | `TypeOK`, `NoStrayAgent`, `OnlyAllowedRun`, `AnswersReachAgent`, `CallsReturn`, `AsksSettle` | three calls, two processes, two permission requests, one of which offers only to allow, two answers, two handlers, a channel of one, one failing process; 749,230 states |
| `DebugSessions_one` | `TypeOK`, `TableTracksAdapters`, `PendingIsAwaited`, `ActiveIsAlive`, `StopReturns`, `EndReachesWindow` | one adapter, three requests, one event of its own, one fault, one command of the user; 231,444 states |
| `DebugSessions_two` | `AnswersFindRequests`, `ShownOfActive` | two adapters, two requests each, one event, one command of the user; 379,045 states |
| `DebugSessions_stop` | violation of `StopEndsAdapter` | one adapter, one command |

Deadlock is checked except for `DebugSessions`, `LspClient`, `LspDocuments` and
`AgentBridge`, whose sessions, calls, requests and visits of files are bounded:
when they are spent and the processes are gone, nothing is left to do. That
nobody waits for ever before is what their liveness properties say.

**Why the bounds are enough.** *Saving*: the races need a captured text, a newer
one and a formatted one (three texts), two overlapping saves, two overlapping
reloads (one that has read, one that reads later), and one failure; three edits
let the user leave a text, return to it and leave it again. Buffers share
nothing but the timer, hence one buffer in the passing runs and two where the
timer matters. `MCUnexposed` stops a behaviour when its only buffer is exposed,
where the checked properties promise nothing more of it (`DirtyWhenUnsaved`,
which does not depend on the ghost, is proved without that constraint). *Tabs*:
with both limits at two and three buffers, opening the third evicts and exceeds
the setting, and a batch has tabs on both sides. The code's limits and history
length are larger constants of the same operators. The run's constraint leaves
out combinations that only multiply states. With one pane in use (`MCOnePane`:
buffers and tabs in the order they were opened) all operations on tabs are
explored, except (`MCOneWait`): a "save and close" together with a file read, a
preview or a pinned tab (`Discard` confirms in the same way and is explored with
all of them); the dialog together with a pinned tab or a terminal while a file
is read, and with a terminal beside a preview or a pinned tab; a closed-tab
history behind the dialog or behind a file request; the new-tab page behind the
dialog, or beside a terminal or an unsaved or pinned tab (it closes as soon as
another tab opens); two reads at once beside anything but editors. Untitled
buffers, two tabs of one path, a file request whose file has been opened by
another way meanwhile, and the pane that keeps a buffer for its preview which is
none (what such a request leaves behind) are explored with plain editors only:
two buffers ever opened, no history, one read or one dialog at a time, and two
tabs of one path without a save in flight. With two panes in use, or reordered
tabs (`MCTwoPanes`), every operation on panes is explored with at most two
buffers, clean and unpinned, without untitled buffers, twins, terminal, dialog,
history and reopening, with a file request only beside editors that are no
previews, and with the bottom pane only beside one editor pane and without
previews. What is left out here the proofs cover, which hold for every
combination. Two buffers are one that is seen and one that is not, which is what
the two stores can disagree about. Symmetry is over the two files, which are
used only for equality. *Servers*: three processes are two that compete for a
key and one for another. *Client*: two requests are one that is answered and one
that is confused with it; with queues of one message, two requests of the server
and one notification fill every queue at once (`Jam` is reached). *Documents*:
two files are one in front and one behind; three visits are "there, away, and
back again"; two starts are one overtaken by another. Symmetry is over files,
texts and slots, which are used only for equality; the run has no liveness
property. *Agents*: three calls are a start, a stop or second start that crosses
it, and one more behind them; two requests are the one answered and the one it
must not be taken for, and the first of them offers no option that refuses; a
channel of one (32 in the code) fills. The command channel (32 too) never fills
with three calls and has no bound in the model. *Debugger*: the third request of
a session is the second of a chain (`stackTrace`, `scopes`), after a handshake
of one, which stands for the several the code sends one after another. Two
sessions with two requests have equal numbers for a handshake's and a stack
trace's, which is what can be confused. One fault is one of: an exit, a reader
that gives up while the process lives, a refusal. `MaxQueue` bounds what an
adapter sends ahead; the reports of the threads are never held back by it.
Symmetry in `DebugSessions_two` is over the sessions; the run has no liveness
property.

**Fairness.** In `DocumentSave`: timers go off, promises settle (with either
outcome), watcher events are delivered and pending saves expire. These are what
the JavaScript runtime and the operating system do without the user. Nothing is
assumed of the user: saves, edits and answers to dialogs may never come. In
`LspClient`: callers go on, the two threads run, and the server reads while it
has nothing to write and writes when there is room, as any server that handles
its input in order does; it need not answer or exit. In `AgentBridge`: the
worker and the code after an await go on, and the timers of booting and of
permission requests run out; the user and the agent owe nothing. `LspDocuments`
has safety properties only. In `DebugSessions`: threads of the crate run (a
reader whose process is gone reads the end of its output, a watcher whose
process is gone returns from its wait, locks that are free are taken), and
events are delivered. Nothing is assumed of the user, of an adapter (it need not
answer or exit), or of the answers of commands.

## What the violations show

* **Autosave.** There is one timer for the window. Typing in a second file
  within the delay cancels the first file's save, and it stays unsaved, although
  the setting says "Automatically save files when editing".
* **Save in the unsaved-changes dialog.** `handleSaveAndClose` saves the
  *active* buffer, ignores the outcome and closes the one the dialog is about
  (and with it, for a batch, every other dirty buffer of the batch).
* **Stop Debugging.** The command and menu entry close a terminal and mark the
  session idle; an adapter is not told. The Stop button does ask `stop_session`,
  which takes the session off the table and then waits for the lock that the
  exit watcher holds until the adapter exits by itself: the process runs on, and
  can no longer be sent anything. (`StopReturns` holds all the same: once the
  adapter is gone, the waiting stop ends.)

Other ways in which the code falls short of what its users would expect are in
the models as exceptions the properties name, not as runs of their own. Revert
File leaves a buffer dirty when the file already holds its text
(`updateBufferContent` returns early, `buffer.store.ts:1178`; `ReloadApplies`).
A change by another program to a file in a subfolder of the project is never
reported (`ExternalWrite`). Two files of one language opened together start two
servers; the second displaces the first, which runs on with no handle
(`manager.rs:332`; `FileServerReady`). The lists under `LspDocuments` and
`AgentBridge` above are of this kind.

## Proofs

The proof modules hold for every value of the constants, from the assumptions
`ConstantsAssumption` (in `DocumentSave`, `LspClient`, `LspDocuments`,
`AgentBridge` and `DebugSessions`), `NoneAssumption`, and for the tabs
`PanesAssumption` and `BoundsAssumption` only: any number of buffers, panes,
texts, tasks in flight, files, keys, processes, calls, sessions and requests,
and any bounds. (That `None` is not a number and not a path is part of the last
two: the model writes `None` where the code has `null`.) `LspDocuments` asks for
a bound of two versions at least, so that a change can follow the opening; its
inductive invariants were checked by TLC on the run's instance, and by
simulation at larger bounds, before they were proved.

*DocumentSave.* The invariant is `Inv == TypeOK /\ FileExists /\
DirtyWhenUnsaved`. `TypeOK` is not inductive alone: `ReloadReads` takes the
file's contents as a text, and an untitled buffer has no file. `FileExists` says
that such a buffer has no watcher event, no reload, and no save past its write,
the three ways to a reload or to a path. `DirtyWhenUnsaved` is then preserved
because whoever writes `savedContent` writes the flag from the same text. Each
action has its lemma; the theorems are `TypeCorrect` and `DirtyWhenUnsavedHolds`.

`CleanMeansStored` speaks of buffers with nothing under way, so its invariant
has to say what everything under way owes them. `CleanInv` says of each
unexposed buffer: no save runs during a reload; every save in flight carries the
text the buffer holds; what a save has written is still in the file or the
watcher will report the change; while reloads are in flight, a report is still
to come, or one of them is yet to read or has read the file's present text; and
the saved text of a local buffer is the file's unless a report, a reload or a
write is still to come. When all that is over, content, saved text and file
agree. When one of several reloads is applied, either it did not hold the file's
text, and the one that brings it is still there; or it did, and the others hold
it too or are yet to read, or the step exposes the buffer. The proof is the
claim that the list of races at the property is complete: an action that breaks
a conjunct must be one that exposes the buffer.

*LspServers.* `Inv == TypeOK /\ OneOwner /\ CountCoversFiles /\ NoOtherOrphans`
is inductive as it stands. `OneOwner` carries the rest: a kill takes the process
of one key, and only because no other key, start or orphan has it does
`NoOtherOrphans` survive for the others. `StopSparesOthers` is an action
property and follows from `CountCoversFiles` and `OneOwner`: a stop kills when
the count falls to zero, so at most one file was tracked, and the process served
no other key.

*ServerEntry* is what one entry of the table is to the files that use it: a
start counts a file or enters a new server, a stop takes one count and one file
and the server with the last count, and all else takes the whole server. Both
the table (`TableImplementsEntry`, for each key `k` under `entry <- Seen(k)`)
and the one server of `LspDocuments` (`ServerImplementsEntry`, under `entry <-
srv`) implement it. In the table the step that needs an invariant is a stop:
`CountCoversFiles` says that a server with a tracked file has a count to give
up, so the code's `saturating_sub` never saturates. These two refinements are
proved; TLC agreed on the instances of the runs, which do not list them.

*LspClient.* `WaitInv` joins `TypeOK` to four facts about callers, table and
reader: nothing is settled before it is in the table, an entry has passed the
insertion, a request that waits is in the table unless it is late, and the
reader drains after it has cleared `is_running`. It is inductive, and
`StrandedAreLate` is its case of a reader that is gone. `PendingAwaited` needs
one more fact, that the outcome of an entry is set only by a failed send.
`SentInvariant` looks the other way: a request that was not sent is in no
channel and no pipe, and what the reader reads of an answer the server has read
the request of. From the two follows `ClientRefinesCalls`: the initial states
map to initial states, and every step to a step of `RemoteCalls` or a stutter
(`Drain` to `Fail` of the whole table, a failing `Send` to `Fail` of one call).

*LspDocuments.* `Shape` adds to `TypeOK` that a timer presupposes a file in front
with a version to spare, that a server that is up has a count of at least one,
and that a start is live only while a file is shown. On it stand, each with its
own induction:

* `ClosedInv`: of a file that is neither open nor left behind nothing speaks, no
  start in flight, no tracked file, no document. `ClosedIsReleased` follows.
* `CountInv`: the count of a server is the number of its files until one is
  counted twice. `NoIdleServer` follows with `ClosedInv`: a server that is up
  has a count, so a file, and that file is open or left behind.
* `VersionInv`: a document that counts as open, or will when its start returns,
  has a version no higher than the component's count. `VersionsRise` follows,
  since a change goes to the count plus one and only to a document that counts
  as open.
* `SeenInv`: a document that counts as open has the buffer's text, or a change
  waits, or an edit was missed; and what starts in flight will send or have sent
  is that text too. `ServerSeesShown` follows.

The last two need `LinkInv`: a timer is only set for a document that counts as
open, and without a server there are no documents.

*AgentBridge.* `Typed` adds to `TypeOK` what the worker awaits tells of the head
of the queue (`StageFits`), which cannot change under it. `NoStrayAgent` is
inductive on top of it: a start kills the agent before it spawns. For
`OnlyAllowedRun` the answers on their way, in the channel or waiting for room,
must be answers the user gave or refusals (`AnswersAreGiven`), and `Outcome` of a
refusal allows only where it named no option and all that is offered allows; the
proof holds for any `Offers`. `AnswersReachAgent`
needs two facts: while nothing crossed, at most one start or stop has not
returned (`OneSwitches`), and the agent's sender is installed or the start that
will install it has yet to return (`SenderFollows`).

*DebugSessions.* Three invariants, each on top of the one before. `TableInv`
adds `ThreadsFollow` to `TypeOK` and `TableTracksAdapters`: how far the watcher
and the stop are, given how far the start is; a watcher that has reaped its
process stands past the insertion, so its removal is the last change of the
table for that session. `StoreInv` adds to `ShownOfActive` that every pending
request is of the active session while `~crossed`. `Numbered` looks at all
places where a request may be (on the wire, on the way back, as a queued answer,
as a pending entry): within a session one number is one command wherever it
occurs, and lies below the counter. A new request takes the counter's number,
which is in none of these places; every other step moves a request from one
place to another. `AnswersFindRequests` follows from the two: answer and pending
request are of the active session and bear one number.

`PendingIsAwaited` is inductive on top of these three: the adapter takes a
request from the wire only to queue its answer, the window takes an answer only
to clear the entry of that number, and a registration whose answer is no longer
under way is `overtaken`. `ActiveIsAlive` rests on one lemma, `QuietBegins`: a
session becomes quiet only in the step in which the window handles its last
"ended", and that step makes it idle if it is the active one; it becomes the
active one, or running, afterwards only in the steps that expose it.

*BufferTabs and PaneLayout.* `Inv == StoresOk /\ Requests`, and `StoresOk` has
two parts. `Fine` is about the list of buffers: distinct ids below the next one,
one editor per path except for twins, nothing pinned that is a preview or the
new-tab page. `Sound` is about the two stores: the panes are well formed
(`GoodLay`: distinct buffers in each, an order of use over the same buffers with
the one on top at its head, a front pane that exists and is the most recent),
they show exactly the open buffers, and one of these is active unless none is
left. An operation is a composition of functions on the stores, and passes
through states in which `Sound` fails, for instance when the active buffer is
gone and its successor has not taken its place; those are `Fine` and `Half`, and
the lemma of each function says between which of the two it leads.

The lemma of each action gives more than the invariant: which buffers the step
may take out of the tabs (`Spared`, `Expendable` when something opens,
`Answered` when the dialog closes), and whether it keeps the active buffer on
top (`KeepsTop`). Together they are `StepKeeps`, one lemma over all actions,
from which `UnsavedNeedsConsent`, `PinnedStays` and the second half of
`PaneAgrees` follow; `OneTabPerFile` and the first half are parts of `Inv`.
Giving a buffer a path (`GivePathSound`, `PlacesSound`) keeps everything but the
paths as it is, and makes the buffer a twin exactly when the path was taken. The
invariant needs each part: that a pinned buffer is never a preview is why
opening a file cannot replace a pinned tab; that the active buffer is open is
why the successor of a closed one is found among those that stay.

The buffers and the tabs of a pane are sequences of any length, which the code
filters and loops over. Since the induction theorems cannot be used, both are
proved by a least counterexample. A filter is the value of a function on `0 ..
Len(s)`; `OnlyPicks` shows that such a function exists and that its last value
has the chosen elements in their order. A loop is `FoldLeft`; `SequenceFolds`
shows that what one step keeps the whole loop keeps, and is instantiated for
each loop and what it keeps (closing a batch, closing the tabs over the limit,
removing a buffer from every pane, closing the other panes, adding the buffers
of a closed pane to another). While the proof was made, one definition turned
out to leave its value open: `Batch` was a `CASE` whose guards overlap (`others`
with an anchor that is gone), where the code tests one after the other. It is
now the `IF`s of the code. TLC, which takes the first guard that holds, had not
told the two apart.

Only model-checked: the liveness properties (`AutoSaveReaches`, `StaleResolves`,
`EndSettlesCalls`, `ReaderMovesOn`, `CallsReturn`, `AsksSettle`, `StopReturns`,
`EndReachesWindow`), which rest on fairness. The other 32
properties of the passing runs are theorems.

## Not modelled

In saving: collaboration notes, the settings file's special buffer, the
large-file editor's pre-applied edits, lint on save, undo (an undo is an edit),
and two buffers of one path (`BufferTabs` shows how they come about: each has
its own text and flag, and the listener reloads the first alone) or a path that
changes while a save is in flight. In tabs: session persistence, content types
other than those named, showing an open terminal again. In panes: locked panes,
full screen (an effect clears the id of a pane that is gone), sizes, a split
bottom pane, restoring a layout, and files dropped on a pane, where
`activeBufferId` is read after an await (`pane-container.tsx:352`). In the
server manager: which server a file gets (`KeysOf` is a constant), and the
search order of lookups. What a remote edit means for the dirty flag is left
open, since the code never sets it there. Of the watcher: deletions, two changes
with one modification time, `stop_watching`, the change of watched roots when
projects are switched, the refresh of directories.

In the client: message framing, the results of requests, and the restart of
crashed servers, which hangs on an event `lsp://server-crashed` that no code of
the repository emits (`lsp-client.ts:420`). In the documents: several panes and
windows, files of several languages, stopping all servers, diagnostics.

Of the agents: what a turn streams, an agent's terminals and file accesses, a
failure before the connection exists (`bridge_init.rs:108`), and the window's
side. A permission request need not belong to a prompt in the model, which only
adds behaviours. The window's side has hazards of its own: the stream handler
looks at no session id, so another chat's end or error ends a turn; cancelling
during a start does not keep the prompt from being sent; every listening chat
adopts the session id of a status change; a double click on a permission card
drops the next card unanswered.

In the debugger:
breakpoints (their synchronisation sends requests whose answers change
nothing), launch configurations, stored watch expressions, transcripts, raw
messages; of the variables of several scopes one request is modelled.

## Plan

The order was: loss of text, tabs, processes, then the protocols on top of the
processes. Next:

1. What is left of the panes: locks, full screen, a restored layout, a split
   bottom pane, and the order of dragged tabs (`tab-bar.tsx:569`).
2. The window's side of the agents (turns, cancels, cards), composed with
   `AgentBridge`.
3. An abstract document (text shown, text stored, flag) that `DocumentSave`
   implements while it is unexposed; the close guard on top of it.
4. `LspDocuments` over `LspServers`: both implement `ServerEntry` (done); a
   composition of the two, with several servers, is not planned.
