# Formal models of Rustmux

Rustmux is a terminal multiplexer: one server process per session owns shells
on PTYs, arranges their screens in windows and panes, and serves one attached
client at a time over a Unix socket. This directory models the parts of it whose
correctness depends on the order of events: processes that meet on runtime
files, a writer thread beside an event loop, requests that outlive the state
they were made in, and trees that every command edits. TLC checks the models on
small instances; TLAPS proves the most important results for any number of
processes.

Paths below are relative to the repository root (`src/session.rs` is the
Rust file); `PROJECT.json` maps every definition to its lines.

## 1. The system

### Processes and how they talk

```
 rustmux new/attach/kill/list/…          rustmux save, control requests
        │  files + flock                        │ one request, one reply
        ▼                                       ▼
 NAME.sock  NAME.lock  NAME.pid  NAME.last   NAME.save   NAME.control
        │ Hello/Attached, frames                │
        ▼                                       ▼
 session server (one thread, one event loop) ── writer thread ── NAME.toml
        │ PTY reads/writes
        ▼
 shells
```

A *command process* (`src/main.rs`, `src/session/supervisor.rs`) creates, finds,
lists, renames, kills or deletes a session. Nothing coordinates command
processes but the file system: which inode a path names, who holds a `flock`
on it, and whether a socket still has a listener. The *server* is forked by the
command that creates the session and runs `terminal::serve_inner`, a
single-threaded `poll` loop over the client connection, the PTYs, the save and
control sockets. The only other threads are the snapshot writer, the picker's
worker and the signal handlers' pipe.

### Inventory

For each component: the state it keeps, its operations, whom it talks to, what is
hard about it, and what makes it correct.

**Session runtime** (`session.rs`, `session/supervisor.rs`, `main.rs`).
State: the files of a name, their flocks, the pid and connection records.
Operations: new (attached, detached), attach, attach --create, kill, kill all,
list, delete, rename of a saved session, disconnect. Hard: every system call may
interleave with another process; a process may be killed after each of them; paths
are unlinked by name; files are opened before they are locked. Correct when a name
has one live owner that only gives itself up, when a live server can always be found
through its pid record, and when the success of kill and of delete means what it says.

**Attachment** (`session/client.rs`, `session/handshake.rs`,
`session/protocol.rs`, `session/frontend.rs`, `terminal.rs` attach).
State: handshake phase, bounded output queue, deferred client input, resize.
Operations: Hello/Attached, Input, Resize, Output, Detach, Renamed, Exit; the bridge
between the outer terminal and the socket. Hard: backpressure in both directions,
a detach or a signal with output still queued, deadlines over partial frames.
Correct when bytes keep their order, memory stays bounded, a slow reader blocks
nobody for ever, and a client that disappears leaves the session running.

**Snapshot service and persistence** (`session/snapshot.rs`, `persistence.rs`).
State: up to four client connections, one pending and one running save, the writer
thread, the last error; a TOML file replaced by rename. Operations: tick (poll
writer, replies, accept, read, autosave, start), finish, drop, save, load. Hard: the event
loop, the writer, requesters with deadlines and the disk proceed independently.
Correct when an acknowledged save survives any crash, the file is never torn, and a
shutdown keeps the last workspace.

**Live rename** (`session/rename.rs`, `session.rs` rename_saved). State: all files
of two names. Hard: seven renames and two directory syncs with a reverse rollback,
against probes that take no workspace lock. Correct when no name is overwritten, and
a failure restores the old name or says that it could not.

**Script control** (`control.rs`, `control/cli.rs`, `terminal/control.rs`).
State: four clients, 64 KiB requests, 16 MiB replies, two-second deadlines. Operations:
every script command on panes, windows and sessions. Hard: identities in a request may
be stale when it runs; a command must refuse or complete, never half-apply.

**Windows** (`window.rs`, `terminal.rs` window commands). State: the list of
windows, a floating window, active and last-active ids, names. Operations: new, close,
select, move, join and break panes, transfer, floating toggle. Correct when every
pane is in exactly one window, focus is on a window that exists, and panes are
released exactly once.

**Pane layout** (`layout.rs`, `layout/snapshot.rs`, `pane_set.rs`,
`closed_pane.rs`). State: a binary split tree with shares, focus, zoom, and one
hidden pane that a close can be undone from. Operations: split, close, hide, undo,
focus, directional focus, move, swap, resize, drag, zoom, outer resize. Hard: minima
of whole subtrees at every size, an undo after the tree has changed, PTY sizes that
must follow each edit. Correct when panes and separators share the canvas without
overlap, no pane loses its last cell, and each PTY has the size of its pane.

**Pane and PTY** (`pane.rs`, `pty.rs`, `pane_output.rs`, `pane_view.rs`). State: one
child process, its screen, input and output buffers, exit status. Hard: reads and
writes that are partial, exits with output unread, resizes in between.

**Screen** (`screen.rs`, `screen/*`, `scrollback.rs`, `parser.rs`, `style.rs`,
`semantic.rs`, `hyperlink.rs`). State: the grid, the alternate grid, cursor, modes,
margins, tab stops, history and an incremental parser. Operations: one per control sequence;
resize with reflow. Correct when cursor, margins and wide cells stay consistent
through any sequence.

**Graphics** (`graphics/*`). State: images, placements, chunked and shared-memory
transfers, quotas, replies of the outer terminal. Hard: transfers interrupted by other
commands, quota eviction while referenced.

**User interface** (`chrome.rs`, `render.rs`, `prompt.rs`, `history_view.rs`,
`shortcut_help.rs`, `session/picker.rs`, `pointer.rs`, `terminal/hover.rs`,
`theme.rs`). State: what is selected, typed and highlighted; the last frame. Hard: the
picker's worker answers late, history is searched while it grows.

**Transfers and clipboard** (`clipboard.rs`, `rich_clipboard*`, `file_transfer.rs`,
`drag_source.rs`, `drop_target.rs`, `notification.rs`, `terminal_ipc.rs`,
`terminal_device.rs`, `terminal_colors.rs`). State: one request at a time between a pane
and the outer terminal, with a deadline. Hard: a late answer meets the next request.

**Configuration** (`config.rs`, `config/*`, `cli.rs`, `project.rs`). State: the
effective configuration and its diagnostics. Operations: load, override, reload. Correct
when a failed reload changes nothing.

### What is hard to test

`PROJECT.json` lists every hazard at its line, with the properties that cover it.
The classes are: two commands between a check and its use of a path; a server that
dies between two unlinks; a record read before its writer has replaced it; a
signal before its handler; an acknowledgement racing its deadline; a power failure
between a rename and a directory sync; four places shared by four kinds of waiting; a long
sequence of edits that leaves a pane without a cell.

## 2. The modules

Abstract specifications: `NameOwner` (refined by `SessionRuntime`), `DurableSnapshot`
(by `SnapshotService`), `PaneList` (by `PaneLayout`), `PaneOwners` (by `Workspace`).
`SessionRuntime_proofs`, `Workspace_proofs` and `PaneLayout_proofs` hold their proofs;
`SnapshotService`, `ControlService`, `DragSource` and `DropTarget` hold their own. Every other module is one component; where two meet, one of them models the other
by what it may do at that boundary (section 7 says which).

| part | modules |
|---|---|
| sessions and their files | `SessionRuntime`, `NameOwner`, `LiveRename` |
| saving and restoring | `SnapshotService`, `DurableSnapshot`, `SavedWorkspace` |
| clients | `Attachment`, `SessionWire`, `ControlService`, `Picker` |
| windows and panes | `Workspace`, `PaneOwners`, `PaneLayout`, `PaneList`, `PaneProcess`, `CommandOutput` |
| the terminal in a pane | `TermParser`, `TermModes`, `TermScreen` |
| pictures | `ImageFraming`, `ImageTransfer`, `ImageStore`, `ImageOverlay` |
| drawing | `PaneView`, `FrameOutput`, `WindowBar`, `FooterHints` |
| input | `HostInput`, `KeyBindings`, `PromptEditor`, `ShortcutHelp`, `HistoryView` |
| exchanges with the outer terminal | `IpcFramer`, `HostIpc`, `ProgramIpc`, `HostProbes`, `RichClipboard`, `FileTransfer`, `DragSource`, `DropTarget` |
| configuration | `ConfigReload`, `KeyBindings` |

`MCScenes` puts the components that are checked together on small instances side by
side: a behaviour is about one of them, its *scene*, and the variables of that component
are the first of `v1` … `v23`. It adds no behaviour; a property of `MCScenes` is the
conjunction of what the components state, each for its scenes. The services of a session
have a specification of their own in it (`ServicesSpec`). The other modules are
checked as they are.

The plan was to model by importance: the files of a session, saving, panes and windows,
then what a client and a program exchange with the server, then what is drawn and typed.
What is left of it: the drawing of pictures pixel by pixel, tab stops, and resize frames
(section 11).

## 3. Session runtime: `SessionRuntime`

One session name. `Clients` are command processes, `Servers` the forked
servers; a server stands for its process id, its socket inode and its listener.
`Inodes` are the identities of `.lock` and `.pid` files and are reused as soon as
no path and no descriptor refers to one, which is how the file system behaves and
what the inode comparisons in the code are there for.

| state | code |
|---|---|
| `sock`, `lockFile`, `pidFile`, `lastOf`, `saved` | what NAME.sock, .lock, .pid, .last and NAME.toml are |
| `workspace`, `excl`, `shared` | flock holders of NAME.workspace and of each inode |
| `pidRec` | contents of a pid record; truncation and writing are two steps |
| `listener`, `backlog`, `peer`, `greeted` | the socket: who keeps it open, queued connections, the accepted one, the reply on its way |
| `spc`, `sfd`, `armed`, `sig` | control of `run_server`/`serve_inner`, its pid descriptor, signal handlers, a recorded SIGTERM |
| `cpc`, `op`, `fd`, `tgt` | control of a command and its locals |

Every action is one step between two system calls another process can observe;
the comment on an action names the function. Errors are the second disjuncts:
each `Exit` is the `?` of that line and releases what the kernel would release.
`Leave` ends a command at any point (timeout, signal, error), `Crash` a server.

`NameOwner` is the promise, without files: a name has at most one owner, a live
owner gives up the name only itself, a dead one is removed before the next. It is
refined with `owner <- sock`, `holders` the servers that own the endpoint (`Owning`),
and `up` those whose listener is open. A dead owner leaves the path behind
(`Vanish`); only then may `RemoveStale` take it.

## 4. Saving: `SnapshotService`

The workspace is a version number; a save is the number that was captured. The event loop
is a program counter over the phases of `tick` (`Poll`, `Send`, `Accept`, `Read`,
`Start`) and of `finish` (`Checkpoint`, `Wait`, `StartNext`, `Flush`), so that writer,
requesters and disk interleave between any two of them. `at` places every connection in
one of the service's collections; this is the coalescing: a capture replaces
the pending one and inherits its clients.

The disk is three variables: `visible`, the version in NAME.toml; `stored`, the
version a power failure would leave there (the directory's last sync, or the
kernel's own write-back of it); and `synced`, whether the data of the temporary file and of
NAME.toml is on the disk. Writing clears it for the temporary file, `sync_all` sets it, and
the rename carries it over to NAME.toml; a power failure may tear a NAME.toml whose data was
not synced, and then nothing of what was saved is left. That a file which was not synced is
never renamed is therefore nothing the model supposes: a writer that renames early loses what
it acknowledged (`WorkerPersistUnsynced`). The kernel may write file data back at any time of
its own accord; the model does without, which only makes more files torn.

`DurableSnapshot` is the promise: what survives a crash is a workspace the session
had, it never gets older, and never older than one acknowledged with OK.

## 5. One window's panes: `PaneLayout`

A split tree is two functions on paths, from the leaves to pane identities and from
the inner nodes to an axis and a share; rows and columns are dimensions 1 and 2.
`Minimum`, `Rects` and `Content` are `Node::minimum`, `place` with `split_rects`, and
`content_geometry`; the rest of the operators are the edits of `layout.rs`. `layout`
is the window's tree, canvas, focus and zoom; `pty` the sizes last given to the PTYs;
`dragging` a separator movement whose PTY resize is still due; `closed` the undo slot
with the trees before and after its close.

Every handler computes a new layout and ends in `Becomes`, which is
`synchronize_sizes`: either every pane has a cell and the PTYs follow, or the error ends the
session (`status = "failed"`). Only some handlers test for cells first (`Fits`), and
which of them do is what the properties are about. Identities count up in the code and
are model values here: one that no tree mentions stands for a new one, which keeps the
state space finite and permits symmetry. Floating windows and moves between windows
belong to `Workspace`; the last pane's exit ends the model.

`PaneList` is the promise without geometry: an ordered list of panes with a focus; one
enters or leaves at a time, positions are exchanged in pairs, the focus of a removed pane
goes to its neighbour. `PaneLayout` is shown to implement it with `order <- Order(layout)`.

## 6. Windows: `Workspace`

`windows` is the collection of `window.rs`: ordinary windows in display order, the
position of the active one, the record for "last window", and the floating window with its
visibility. Of a window only the panes in layout order and the active one are kept. The
operators (`Selected`, `Inserted`, `Without`, `Reordered`, `Joined`, `Broken`, ...) are
the methods of `Windows`; the actions are the key and script handlers that call them, the
exits the event loop collects, and undo. `request` is `close_requested`: a confirmed close
waits until the frame being written is out, while scripts and exits go on and keys wait.
A pane that moves gets another identity in its new layout, so a request for the
old one finds nothing (`Forgotten`).

What geometry decides is left open here: a split may have no room (it is then no step), and an
undo puts its pane anywhere in its window, where `PaneLayout` says which place it is. The
neighbor that `tab_close_focus` prefers can change at every reload, so each close may use either.
Temporary editor panes, which scripts refuse to move, are ordinary ones; names, and the
exhaustion of 64-bit identities, are left out.

`PaneOwners` is the promise without order and focus: which window owns each shell; one starts,
moves, is hidden or shown again at a time; shells end one by one or with their whole window.
`Workspace` is shown to implement it.

`LastIsElsewhere` holds of the steps taken while the floating window is hidden. When it is
shown, `close` compares the record with the floating window and not with the new ordinary
one (`src/window.rs:333-337`), so the record can name the selected window itself, and the
last-window key only hides the floating one; `windows.md:480-483` says it never records the
fallback.

## 7. The other components

**`LiveRename`.** The seven artifacts of two names, moved one call at a time under both
workspace locks, with any call and any call of the rollback failing. Beside it: a server of
the other name that is unlinking, the snapshot writer, a client between its lease and its
connection, crashes, kill.

**`SessionWire`, `Attachment`.** `SessionWire` is the connection byte by byte: frames cut
anywhere, strangers, what is retained with a peer between handshake and loop.
`Attachment` takes whole frames and goes on: queues on both sides, the input
staged in the loop and for the child, name notices, detach, broken connections, one
attachment after another.

**`ControlService`.** One `tick` is accept, serve each client, end. A follower holds a
cursor of server, pane, generation and position; a byte of output is its position, so that
a gap or a foreign byte shows in what was written.

**`Picker`.** The session manager, its worker thread with one place each way, other
processes that create and remove sessions, and the loop that acts on a choice.

**`PaneProcess`.** One pane with its child, a background job that may keep the terminal
open, the kernel's two queues, the undo slot and respawn. The loop's order (read, exits,
frame, remove) is kept; the environment moves between any two steps.

**`CommandOutput`, `TermParser`, `TermModes`, `TermScreen`.** Three readers of the same
output and the grid. A byte is a class of bytes, a command what it does; a screen is a
function of rows, so reflow, erasing and scrolling are operators, as in the code.

**`ImageFraming`, `ImageTransfer`, `ImageStore`, `ImageOverlay`.** A picture's way: out of the
stream, put together from chunks, stored under quotas, sent outside as differences.
Each takes the former one's output as any input that one can give.

**`PaneView`, `FrameOutput`, `WindowBar`, `FooterHints`, `ShortcutHelp`.** What is shown is computed
and compared, cell by cell, with what the outer terminal would then show, or with what a
click there runs.

**`HostInput`, `KeyBindings`, `PromptEditor`, `HistoryView`.** One decoder serves all modes
while bindings are replaced; editors and the history take its keys.

**`IpcFramer`, `HostIpc`, `ProgramIpc`, `HostProbes`.** `IpcFramer` is the shared framer, as
functions of a framer and a byte; `HostIpc` uses it on the keyboard's stream, `ProgramIpc`
on a program's; `HostProbes` has the four filters in a row that wait for answers.

**`RichClipboard`, `FileTransfer`, `DragSource`, `DropTarget`.** Routers between panes and the
outer terminal, each with a queue to both sides and the histories by which the properties
see who was told what.

The queues of drags and drops hold bytes, and discard a packet that would exceed `MAX_PENDING`
(`outer`, `inner`). `can_receive` keeps half of a queue free, but only before a read; one read may
bring more events than this holds, and a step of the router may add several packets. The models
therefore ask for room at every packet (`HasRoom`) and never before a step: `Enough`
only bounds the state space. Bytes become packets: what carries a list, a name or data
(`Bulky`) fills a queue, `MaxPending` of them, and is discarded beyond; what is one short line (the
ends of drags, gestures and registrations, refusals) always fits. That is what the reserve is for:
128 KiB are free before a read; an end is queued after the drag's own packets were taken out; a read
of 64 KiB holds some two thousand events at most, whose ends come to less than 115 KiB, and a
program's observer holds 24 KiB of commands. Where nobody reads for long the ends of other
causes (prompts that open and close, focus, timeouts) could add up beyond it, one short packet
a cause; this is left out. An event of several parts that loses one of them counts as lost (its program
gets no complete event). `told` remembers, for the properties only, whether the packet of a
placed drop found room: the end of a drag or drop must be told in any case, that the
program knows of the drop only then; that a placed drop may be lost is in section 10.
A chunked answer of the terminal outside cancels the drag or gesture (`EFBIG`).

**`ConfigReload`, `SavedWorkspace`.** A worker that watches a file and a loop that applies it at
a boundary; capture and restore of trees and windows, and files edited by hand.

## 8. What the runs check

| run | instance | shows |
|---|---|---|
| `session_attach_create` | 2 commands attaching or attaching with creation, 2 servers, 3 inodes | type, `LeaseReachable`, `LastIsCurrent` |
| `session_kill_delete` | the same with new, kill, list, delete | `EndpointOwned`, `KilledServerIsGone`, `DeleteSparesLive`, refinement of `NameOwner` |
| `snapshot_saving` | 2 requesters, 2 places, one change, autosave | `AckIsDurable`, `FinalCheckpoint`, refinement of `DurableSnapshot` |
| `window_panes` | up to 3 panes on canvases of 6x7 and 6x9 cells | `Tiling`, `SizesFollow`, `ContentKept`, refinement of `PaneList` |
| `workspace` | 4 shells, up to 3 windows of at most 2 panes, and a floating one | `OneOwner`, `WindowLimit`, `LastLives`, `FocusKept`, `LastIsElsewhere`, `ClosesWhatWasAsked`, refinement of `PaneOwners` |
| `services` | 10 scenes: renames, an attachment and its wire, scripts and followers, drags and drops, saved trees and windows | five properties, one for each kind of promise |
| `terminal` | 18 scenes: parser, modes, grid, command output, pictures, frames, clipboard and file relays, one pane's process, its history, configuration | seven properties |
| `views` | 10 scenes: session manager, bindings, bars, help, input, prompts, packets, probes | four properties |
| `progress` | 5 scenes under fairness: endpoint, saves, hang-up, configuration, exits | `EventsAreNoticed`, `NobodyIsKept` |
| `siblings_expand` | up to 3 panes on 3x11 cells | *violated*, section 10 |
| `move_while_floating` | `workspace` with 3 shells | *violated*, section 10 |
| `close_survives_exit` | one pane, one respawn | *violated*, section 10 |

The properties of the four runs with scenes are conjunctions written out at the end of
`MCScenes.tla`; each conjunct is stated and explained in its component's module.

**Bounds.** Two commands and two servers suffice for every pairwise race:
each hazard listed is between a command (or a server that dies) and one other process.
Every command restarts, so that a third life of a name is reached with two
commands. Two servers are one that leaves and one that replaces it. Three inodes are a
path's inode, the inode of a former file somebody still has open, and a fresh one.
Servers are forked once each; an `unborn` server is needed to create, so behaviours end
when both are dead: deadlock is not checked in those runs (`Leave` and
the commands that fail go on). For saving, `MaxVersion = 1` distinguishes an older from a
newer workspace, two requesters on two places meet in every pair of phases. Three panes have
every shape a tree needs: a leaf beside a subtree on the same or the other axis, a parent
that is not the root. On 6x9 cells both axes can be split and three panes fit side by side only
after a resize; 6x7 is where some of these trees no longer fit. A resize or drag moves one cell
at a time, longer ones are sequences of these. Three windows are the fewest in which a
move around the edge differs from an exchange and the record of the last window can name one
that is neither active nor closing; the fourth shell reaches the limit by an undo, or
is the floating one above three windows. Six window identities are enough for these, the floating
window and the ones a waiting close or a hidden pane may remember.

The scenes use the smallest constants at which each of their mutants is found: two owners
(programs, panes, names) where one may be confused with another, one where only its own order
matters; queues of one or two, so that "full" happens; quotas that the second upload
exceeds; grids of 2x3 to 3x3 cells, on which a wide character can be cut at either edge; streams of
three to five tokens, each token being a whole unit of the grammar or one cut short. A bound on
what a program may do (`MaxCommands`, `MaxTokens`, `MaxWires`, …) is a constant with that comment in
its module; a behaviour that has used it up stops, hence no deadlock check there. In `DropTarget` and
`DragSource` a queue holds `MaxPending` packets with data (one, in one scene two), and discards
more. `Bounded` cuts
off, in three scenes, a program that never reads. Symmetry is used only in runs without
liveness, and only over identities that are compared for equality.

**Fairness.** A command never blocks: all its waits have timeouts in the code, so a
command that is not an open attachment takes its next step (weak fairness). The server's
steps are weakly fair between accepts. A recorded signal is looked at in every
iteration before the loop can take another turn, so stopping for a signal is strongly fair;
nothing is assumed of users, crashes or the arrival of requests. In saving, the
loop's tick is reached again and again (poll has a timeout) and the two-second
deadlines of requests and replies are strong fairness of the step that drops them. An
attachment's bridge, its timeouts, the server's loop and a child that reads are weakly fair. The
watcher of a configuration file and the loop's sample are threads that always go on; applying is
strongly fair because a boundary between inputs comes again and again. The loop of a pane's
server turns, and a client takes its frames. These are stated in the components (`Fairness`,
`FairSpec`) and repeated in `MCScenes` for their scenes, for only one of the two requesters: the other may stop anywhere.

## 9. What is proved

`SessionRuntime_proofs` proves, for any sets of clients, servers and inodes:
`TypeCorrect`, `EndpointIsOwned`, `LeaseIsReachable`, and `EndpointImplemented`, the
refinement of `NameOwner`. `EndpointOwned` is not inductive: that no one unlinks a live
socket depends on who may be between the refused probe and the unlink, which depends on
who holds the workspace lock, and on a dead server never having its listener inherited
again. `IInv` is the conjunction of: the type; `WorkspaceInv`, what is done under the
workspace lock is done by its holder; `HandleInv`, the creator's target and descriptors;
`ListenerInv`, who can hold a listener at each point of creation and of a server's life;
`StaleInv`, a path about to be unlinked as stale belongs to no live server; `LeaseInv`,
the locked record is the one NAME.pid names; and `EndpointOwned`. The step lemma
`ClientPreserves` has one case per command step and `ServerPreserves` one per server
step; steps that only release something are covered by three frame lemmas (`ExitStep`,
`DieStep`, `FramedStep`).

`NameInv` is a second inductive invariant of the same module, which rests on the first
(`NameInvariance`). Its parts follow the name where the endpoint alone does not decide:
`ConnInv`, a connection is in one queue, of the server that its client addresses, until it is
greeted; `RecordInv`, whoever is about to record a connection in NAME.last was greeted by the
owner of NAME.sock; `LastInv`, a server that has left its creator behind finds no
other server in NAME.last; `KillInv`, a client that waits after its signal knows a forked
server, which has let go of its endpoint before the client reports success; `EraseInv`, the
name is still free when the snapshot is removed. Since actions of
clients and servers change the same connections, what each step may do to them is stated once,
in `ClientEffect` and `ServerEffect`, and the preservation lemmas (`ClientKeepsName`,
`ServerKeepsName`) argue from these. From `NameInv` follow `LastIsAlwaysCurrent`, `KilledIsGone`
and, as a property of steps, `DeletionSparesLive`.

`SnapshotService` proves `SavingTypeCorrect`, `AcknowledgedIsDurable`, `SavingImplementsDurable`
and `FinalCheckpointKept` for any finite set of requesters, any limits and versions. `SInv`
relates each connection to the save it waits in: a pending or running save is at
least as new as every request of its clients, a positive reply is no newer than
`stored`, the writer's file is ordered between `stored` and `content`, and only a file whose data is
on the disk is renamed (`WriterInv`). `FinishInv` adds what the phases of the
end know: from the last capture on the newest save, queued, running or stored, is of
the workspace as it is, and none is left when the loop over the writers ends.

`Workspace_proofs` proves everything that the run of `Workspace` checks, for any shells,
identities and limits: `EveryShellHasOnePlace`, `WindowsAreLimited`, `LastWindowLives`, the step
properties `LastIsNotTheActiveOne`, `FocusIsKept` and `CloseIsWhatWasAsked`, and
`WorkspaceImplementsOwners`. `OneOwner` says less than a step needs, because a pane that is joined
to another window is in both for a moment. So `WInv` has two independent parts: `Whole`, the
windows without regard to who shares panes (identities are unique, the floating window has one
pane, the focus and the record of the last window are on windows that exist, each window's
focus on one of its panes), and `Apart`, no two windows share a pane. The proof is in three
layers. Lemmas about sequences say what inserting, removing, exchanging and rotating do, without
induction. One lemma per operation of the collection (`SelectedStep`, `ClosedWindow`,
`PaneJoins`, `PaneBreaks`, ...) says that it keeps `Whole`, what it does to the focus and the
record, and how the relation `Owns`, of panes and windows, changes: not at all, by one pane that
arrives or leaves, or by a window that empties. One lemma per handler combines these to
`Proper`, from which all step properties and the refinement follow (`EveryStep`,
`OwnersStep`). That a new window finds an unused identity is a counting argument
(`NewIdIsSpare`), the only use of the limit in `WorkspaceAssumption`.

`PaneLayout_proofs` proves everything that the run of `PaneLayout` checks: `TypeCorrect`,
`AlwaysTiled`, `SizesSynchronized`, `CellsKept` and `ListRefinement`, for any canvases, any
number of panes and trees of any depth. `Tiling` alone is not inductive, and speaks of rectangles
where the code changes trees. `IInv` has four parts. `Whole` is about the layout: the tree is
closed and finite (`Grown`), its leaves are distinct and its shares are fractions (`Marked`), its
minimum fits its canvas (`Fitting`), some sequence lists its leaves from the first subtree to the
last (`Ordered`). `Remembered` says that a close found a whole layout and kept the trees
before and after. `Shown` and `SizesFollow` are about the PTYs.

1. The provers have no induction over trees. A tree of the model is a set of paths with a greatest
   length, so what is computed from the leaves up (`Minimum`) or from the root down (`Rects`) is
   followed by `Induction` on a set of lengths. `MinimumIsLeast`: whatever satisfies the
   inequalities of `Node::minimum` is at least `Minimum`; this compares the minima of two
   different trees without following both at once.
2. `RectsFit`: in a tree whose minimum fits its canvas `split_rects` gives each node a
   rectangle no smaller than its minimum, whatever the shares, since the clamp has room.
   `Halves` and `Nested` then give the tiling (`PartsTile`).
3. Each edit of the tree keeps `Whole`. `SplitFits`: the rectangle of four cells that
   `split_active` asks for is enough for the minimum of the grown tree. `RemovalFits`: a
   removal never raises the minimum; the nodes of the smaller tree are those of the larger one,
   with the sibling's moved up (`Up`, `Down`, `RemovalMap`). Shares and
   exchanges keep the shape (`SameNeeds`, `SameRects`).
4. `Order` is defined by counting the leaves that come before each one. `OrderIs`: it is
   what any sequence that enumerates the leaves in order says. A split replaces one entry of that
   sequence by two, a removal deletes one (`SplitOrder`, `RemovalOrder`), and with `Before` kept
   by `Up` this gives the insertions and deletions of `PaneList`. The undo restores the list
   exactly when the tree is the one of the close (`RestoredWhole`, `InsertRemoved`).
5. One lemma per handler concludes `IInv'` and `Good`, from which the step property
   and the refinement follow (`AnyStep`).

`ControlService` proves `FollowersAreWhole` and `CallersAreServed` for any commands, panes and
limits (`Parameters`: no command both changes something and follows, and "none" is no
pane's name), and `MCScenes` concludes `ScriptsAlwaysAnswered`, what the run `services` checks,
for its two instances. What a follower writes is decided by its cursor, a request and an answer
that are on their way past each other, so `IInv` follows a request through them. `Placed`: a
command is in the backlog or among the clients, once, and in neither while it has an answer
or has not asked. `Turns`: the clients of a tick that are left to serve are still there, once
each. `Answers`: a request that waits has not been executed, and an answer on its way, in the
client's reply or already with the command, is `AnswerTrue`: a caller's success has been
applied once, a follower's chunk starts at its cursor plus what it says was dropped and, when
it says that it is complete, ends where the output of its process ended (`IsTheEnd`, which
respawns and restarts keep because they change the generation or the server). `Followed`: what
was written is the run before the cursor. `Budgeted`: the answers that wait and what the tick may
still add stay within the limit together; the sum over the clients follows the sequence
(`HeldReplaced`, `HeldRemoved`, `HeldAppended`, each by induction on a prefix). `Serves` has
nine outcomes, but only two effects: the client goes (`LeavingKeeps`) or stays in its place
with another reply (`StayingKeeps`), and `ServingKeeps` says what both need.

`DropTarget` proves `DropsAreToldOver` and `DragSource` proves `GesturesAreToldOver` for any
programs, registrations and queues (`Parameters`: no program is called "nobody"), and `MCScenes`
concludes `DragsAreAlwaysToldOver`, the invariant of the run `services`. Both hold for any room
`MaxPending` of the queues, none included: packets with data may be discarded at any time, and
what is discarded with them is no word of an end (section 7). That a program which
has read everything knows how its drag stands is not inductive: what it will know depends on
the packets that wait, and each end takes packets out of the middle of two queues. `IInv` is
`Sound` of the router with what the programs saw and the terminal waits for. For a drop: what
waits of a drag is of the one there is, with no end behind it and a drop as its last
(`Current`, `Ordered`, `Placed`); an end carries no wire, so forgetting a wire never takes it
(`Lasting`); whoever saw a drag has it or finds its end in the queue (`Heard`); a registration
that the terminal has or will read is the one advertised or is withdrawn behind it (`Listed`,
`Known`); and a drop that the terminal waits for is the router's or is called off behind it
(`Answered`). For a gesture the register may move on while it is reported, so `Followed`
asks for an end behind every report that is not of the gesture there is, and `Recalled` for
the packet that calls it off. `KeptInOrder` says what `retain` does to a queue: the places it
keeps, all of them, in their order; it follows from cardinalities, one step of the index
at a time. Each helper of the router has a lemma that it keeps `Sound` (`CancelKeeps`,
`UnadvertiseKeeps`, `SwitchKeeps`, `EventKeeps`, ...), for any router and not only the one of the
state, so that an action that calls several of them cites one after the other.

The assumptions are those named in the modules (`ConstantsAssumption`, `ServiceAssumption`,
`WorkspaceAssumption`, `LayoutAssumption`): disjoint identities, a positive number of places and
of panes, canvases with a row and a column (`Layout::new` refuses others), and, for
`Workspace`, more window identities than a session can refer to at once, which the code has
since they are 64-bit counters; and `TwinsAreSome`, that the two panes, callers or programs of
the scenes are not what says that there is none.

Only model-checked: the liveness properties (TLAPS has no rule for `ENABLED`), and the other components
in `MCScenes`, several of which define parsers, layouts and text by recursion. `SiblingsExpand`
is false (section 10): `CellsKept` excepts closes for that reason, and `AlwaysTiled` says
that what a sibling loses is a cell inside its border, never its place in the canvas.
## 10. Findings and observations

With a run of their own:

* `siblings_expand`: on 11 columns, split, shrink the first pane to two columns, split the
  second, shrink the middle pane to one; when the first shell exits, the middle pane comes to
  the edge with 9 * 1/5 = 1 column, which the border takes, and the session ends. In wider
  terminals the same happens whenever the vacated space is not enough to give a pane of one
  cell a second one.
* `move_while_floating`: `window move -w NUMBER` while the floating window is visible looks
  the floating window's identity up among the ordinary ones (`src/window.rs:300`), and the
  `expect` ends the server.
* `close_survives_exit`: the shell exits between the last look at it and its confirmed close, and
  `stop_foreground` reports "shell already exited" (`src/pty.rs:229`), which leaves the event loop as
  `NotConnected`. For a session with a name `TerminalSession::attach` (`src/terminal.rs:480`) takes this
  for a client that has gone: the user is thrown out, the close is not carried out, and the panes
  go on. A session without a name ends, with every other pane.

Met while modelling, each seen in a run of the component that is not kept:

* Sessions. `kill` may signal the former process of a reused record (`src/session.rs:225`, against
  `docs/reference/session-cli.md:191-193`); SIGTERM between the pid record and the handlers
  leaves the endpoint (`src/session/supervisor.rs:327`). A kill that races a rename can report
  success while the server lives on; a client may display a session under the lease of
  another one (`src/session.rs:404`); one attached under the old name after the rename is told of
  it only while attached; a crash in the middle of a rename mixes two names.
* Attachment. Detaching drops input the child has not read (`src/terminal.rs:4537`, against the
  comment at 2641). A client that detaches with output queued and disappears keeps the
  server (`src/terminal.rs:4772`). A Hello of another length gets no `Rejected`
  (`src/session/protocol.rs:379`, against `docs/reference/session-handshake.md:11-13`); messages
  retained with the handshake wait until the socket is readable again.
* Panes. A drag moves a separator to one cell, which the border takes from a pane at the edge
  (`src/pane_set.rs:142`; the keyboard resize checks this at 119). A live process that closed its
  terminal ends the server after a second, as documented. Captured command output keeps the
  last byte of `ESC ( B` (`src/semantic.rs`).
* Windows. The record of the last window can name the selected one after a close under the
  floating window (section 6). When only an editor window is left a save fails; when an editor is
  selected the first window is restored as active; a pane split inside an editor window is
  not saved; after a restore "last window" is the one created last.
* Grid. Growth with mode 47 or 1047 on loses the hidden primary text
  (`src/screen/reflow.rs:103`, against `docs/reference/alternate-screen.md:10`); with these modes
  the cursor can leave the margins of origin mode (`src/screen.rs:952`). Erasing from the home
  position keeps pictures that a full clear drops.
* Pictures. A chunk left over from an aborted upload swallows the first chunk of the next one.
  A picture behind text keeps incomplete placeholders of the same pane from ever being drawn
  (`src/graphics/outer.rs:570`). A virtual picture with transparent margins is drawn twice on retry.
* Relays. After `finish` was sent, discarding a file transfer tells nobody. At a detach, a program
  with a full queue never hears of the end of a drop; a drop ignored under a menu may stay
  unanswered. A file observer drops broken packets silently.
* Drops. `Router::inner` discards what exceeds `MAX_PENDING` (`src/drop_target.rs:226`), and the room is
  asked for before a read, not before an event. Some dozen motion events in one read, each of
  which repeats the cached list of types (up to 16 KiB), fill the queue of 256 KiB; the packet of a
  drop behind them is discarded although the drop is placed. The program never learns what it may
  fetch, and the drop ends by its timeout of 30 seconds (against
  `docs/reference/drop-target.md:83-86`: "polling pauses at 128 KiB to reserve room for bounded
  batches and cancellation", "Whole packets wait for room in the host or child input queue").
  `ToldOfTheEnd` therefore promises the knowledge of a drop only where its packet found room.
* Scripts. A command that timed out may run later; a mutation may be done although its reply was
  replaced by the budget's error.
* Input. A release on the footer row is dropped, so a program never sees the button go up
  (`src/terminal.rs:1367`, against `docs/reference/windows.md:460`). Escape as an exit key breaks
  paste markers and arrows (`src/terminal.rs:1643`, against `windows.md:196`). After the entry key
  an unknown Kitty key is passed on as its legacy byte; the release of a command key reaches the
  child. A declared binding can be dead (`src/config.rs:465`, against `windows.md:213`); a default
  mode without bindings traps the keyboard; Help shows `q` where the prefix is needed. An ESC inside
  an unfinished CSI is delivered twice (`src/terminal_ipc.rs:161`, against the test at
  `src/rich_clipboard.rs:902`). A late answer to the second probe is typed
  (`src/terminal.rs`, `!shm_probe_started`, against `docs/reference/kitty-graphics.md:525-526`). In the
  history a paste slower than 30 ms runs as keys (`src/history_view.rs:514`). A paste that ends in
  ESC swallows the ESC of its end marker, in prompts and in Help.
* Bars and help. Clicks on a grouped hint count every key as one column (`src/chrome.rs:794`, against
  `windows.md:424-425`); the pager of Help is hit at the columns of its long form
  (`src/shortcut_help.rs:542`); on three rows a hidden command row can be clicked. The error line is
  printed in the program's character set (against `docs/reference/session-snapshots.md:110`). An
  error in the session manager's footer hides the confirmation (`src/session/picker.rs:1038`, against
  `docs/reference/saved-session-delete.md:4`).
* Configuration. After a layout was refused, growing the terminal does not try it again.
* Locks. The momentary shared lock of a pid probe can make a starting server fail
  (`src/session.rs:217`), that of a listing an attach (`src/session.rs:410`); the error in the footer
  is cleared by a later save (`src/session/snapshot.rs:240`).

Some scenes leave such a case out, so that the property can hold of the rest: key texts of one
column (`FooterHints`), arrows in the pager (`ShortcutHelp`), no Escape among the exit keys and releases
inside the content (`HostInput`), no line-drawing set at an error line (`PaneView`), no ESC inside a
CSI (`HostIpc`).

## 11. Not modelled

Decoding, scaling and sampling of pictures, themes, pointer shapes, colour queries and
notifications (data without control); the grammar of the command line, of configuration files and of
script replies; the texts of footers, help and errors. Of components that are modelled: tab
stops and `resize_preserving_tail` of the grid, resize frames and the history view's hold on input
in `Attachment`, names and the 64-bit limit of identities in `Workspace`. `PROJECT.json` says for each
part what is left out. A `flock` is modelled as advisory, per open descriptor, released by the
kernel with its holder; `connect` as succeeding while a listener is open; a crash of the machine
as losing unsynced directory changes only.
