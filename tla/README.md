# OpenMat: TLA+ models of its services, graphics model and web client

OpenMat is a numerical-computing environment: a Rust language stack (parser to
interpreter), a server that offers it over local WebSockets, and a TypeScript
workbench.  This directory models the parts where the difficulty lies in
*order*: threads that share atomics, locks, channels and a file system;
messages that cross; connections that are lost and made again; long sequences
of requests against one retained structure.  Paths below are relative to
`src/`.

## 1. Inventory

| Component | State | Operations | What is hard, what must hold |
|---|---|---|---|
| Kernel session (`crates/openmat-kernel/src/lib.rs`, `protocol_session.rs`) | status and cancellation token (atomics shared with every `KernelControl`), negotiated protocol, workspace revision | bootstrap, execute, inspect, listWorkspace, setVariableElement, shutdown, interrupt | interrupts run on another thread between any two accesses; stale interrupts must not reach later executions; edits are optimistic and the revision saturates at 2^53 - 1 |
| Kernel connection (`crates/openmat-server/src/websocket.rs`) | bounded command channel, unbounded event channel, stopping flag, `ActiveSession` | read a frame, answer interrupts, drain events, stop; worker loop, orderly stop | disconnect at any point; full channel; failed writes; exactly one engine shutdown; stop must end; answers in order |
| Simulation service (`crates/openmat-server/src/simulation_websocket.rs`) | one `Job`: cancel flag, bounded event channel, worker; sequence numbers | run, cancel, drain, drop; worker: prepare, sample, batch, terminal event | cancel races with completion; worker panics; the queue is full while its consumer drops it; limits |
| Graphics object model (`crates/openmat-graphics-model/src/session.rs`; applied in `apps/web/src/plot/graphics-v1.ts`) | an arena of reusable slots with generations, the tree of objects, current Figure, Axes and layout, revisions | some fifty requests: figure, axes, subplot, tiles, plots, properties, clear, close | handles outlive their objects; three "current" references; every request decides itself what it reports as changed; the delta must rebuild the snapshot |
| Graphics registry and hub (`graphics.rs`, `graphics_runtime.rs`) | session map and entries, tokens, buffer leases, the journal of events | register, discover, rotate, attach, unregister; publish, limits, close | locks taken one after the other; a stale attachment; two drains of one queue of deltas |
| Graphics connection (`graphics_websocket.rs`) and client (`apps/web/src/plot/graphics-client.ts`) | attachment, event cursor, transfers; mirrors, pending snapshots, phase | initialize, poll, snapshot, resync, limits, close, buffers | responses, events and discoveries travel separately; failed transfers; reconnection |
| Workspace service (`workspace.rs`, `openmat-runtime/src/filesystem.rs`) | generations of the Current Folder, tickets, the file system | list, read, write, create, move, delete, upload, download | check-then-replace on files shared by several connections; the kernel's `cd` between two looks; failures half way |
| Runtime engine (`runtime_engine.rs`) | interpreter state, module activation, cancellation bridge | the `ExecutionEngine` trait | partial effects of failed programs; a bridge thread per execution |
| Module linker (`module_linker.rs`, `file_source.rs`) | none (pure over a file set) | link | dependency order, cycles, ambiguity |
| LSP connection, wire protocol, server process | per-connection documents; none; none | requests; encode, decode; accept | sequential |
| Web connection recovery (`use-connection-recovery.ts`, `App.tsx`, the kernel transport and workspace client) | generation, phase, retry timer, current socket, pending requests | connect, retry, fail, disconnect | late callbacks of an old generation or an old socket; a close the browser refuses |
| Web document session (`documents/`) | open document and its file, autosave timer, queue of saves, stored session | restore, edit, save, autosave, page hide, exit with or without Don't Save, revalidate | saves that finish late; a restore that races with opening a file |
| Web simulation client | current run | run, cancel | sequence filtering |
| Simulation engine (`simulation/crates/openmat-sim`) | solver state | advance | a step commits once, after every candidate was validated |
| Compiler, interpreter, builtins, objects, plotting, SLX import, desktop shell | their data | sequential functions | numerical and language semantics; no shared state |

Interactions: the connection thread owns the socket, the `KernelSessionControl`
and the sending end of the command channel; the worker owns the `KernelSession`
and the engine.  They meet in the two channels, the `stopping` flag, the status
and the token.  A kernel connection registers its graphics hub in a registry
that graphics connections read; the graphics session is shared by the worker,
which executes programs on it, and by the graphics connection, whose window
changes limits and closes Figures.  Workspace connections share one file system
and one Current Folder, which the kernel's `cd` changes.  The simulation service is a second pair of
threads of the same shape, with the bounded channel in the other direction.

`PROJECT.json` lists every component with its sources, and the hazards of this
code at their lines with the properties that cover them.

## 2. Modules

| Module | Models |
|---|---|
| `KernelSession` | the request path of `Kernel`/`KernelSession` and the interrupt path of `KernelControl` |
| `SequentialSession` | abstract: what a kernel connection promises its client |
| `KernelServer` | connection thread and worker of `/kernel`; EXTENDS `KernelSession`, implements `SequentialSession` |
| `SimulationJob` | connection thread and worker of `/simulation/v1` to `/v9` |
| `GraphicsScene` | the retained hierarchy of `GraphicsSession`, its transactions and deltas, and a client's mirror |
| `GraphicsRegistry` | the session registry, attachments, buffer leases and transfers |
| `GraphicsFeed` | the way of a revision from execution or renderer request through journal, socket and client |
| `SharedStore` | abstract: what the workspace service promises about shared files |
| `Workspace` | handlers of several connections over one file system; implements `SharedStore` |
| `ClientConnection` | one channel of the web client with its recovery |
| `DocumentSession` | the web client's session writer and restore |
| `KernelSessionProofs`, `KernelServerProofs`, `SimulationJobProofs`, `GraphicsRegistryProofs`, `GraphicsFeedProofs`, `WorkspaceProofs`, `ClientConnectionProofs`, `DocumentSessionProofs` | theorems and proofs about the module of that name (section 5) |
| `MC*` | constants and symmetry for TLC |

Definitions named after a fault (`RegisterOverwrites`, `WriteCheckOnce` and the
like) stand before the definition they alter.  They are used by no
specification: replacing the original by one of them must break the property
`PROJECT.json` names, which shows that the property sees that code.

### KernelSession

The sequential thread is `kpc`; one request is the sequence `Handle`,
(`ResetCancellation`), `SetBusy`, the return of the engine
(`ExecuteReturns`, `QueryReturns`, `EditReturns`), for an execution
`JudgeInterrupted` and `MarkInterrupted`, then `SetIdle`; or `Handle`,
`Shutdown`; or a refusal in `Handle`.  Each step contains at most one access to
the status or the token that the other thread can tell from its neighbours.
`JudgeInterrupted` reads the token and then the status in one step: the control
thread writes them in that order, so splitting the reads gives no new outcome.
The control thread is `ipc`: `InterruptLoad`, `InterruptCancel`,
`InterruptStore`.  The four protocol versions have the same control flow; they
differ in which requests decode (`Decodes`) and in the revision, which only v3
maintains.  The engine is the `ExecutionEngine` trait as its callers see it: a
program ends by itself (`"execute"`) or only when it notices the token
(`"loop"`); it may fail, also after it changed the workspace.  Requests that
fail validation are represented by `"initialize"`, which is always refused
after the bootstrap; an interrupt sent on the sequential path is not modelled,
because the server never does so.

History variables: `version` numbers the workspace contents, `seen` the
revision-version pairs a client was shown, `shutdowns` the engine shutdowns, and
`cause` how an interrupt call met the current execution (`"issued"` while it
was active, `"overlap"` when the call was between its load and its stores as the
execution began).

### KernelServer

Actions follow the loops of the code: `Receive`, `CheckStopping`,
`WorkerBootstrap`, `WorkerHandle`, the kernel's own steps, `FinishRequest`,
`FinishCheckStopping`, `OrderlyStop` on the worker; `ReadXxx`, `DrainEvent`,
`DrainedAll`, and the steps of `ActiveSession::stop` (`StopCheck`, `StopFlag`,
`StopInterrupt`, `SendStop`, `Join`) on the connection thread.  A failing
`write_frames` delivers any proper prefix of its frames (`Cut`).  A session that
is created but dropped before it is stored is `session = "lost"`.  The engine is
assumed to have a graphics session, so that a registration exists.  A panic of
the engine is not modelled.

### SimulationJob

A frame is the number of its sample; a run is described by the samples to its
stop time and the values per frame.  `enqueue` is two steps (load the flag, try
to send) that repeat while the channel is full.  The end of the 30 ms batch
window is a choice in `Advance`.  A worker may panic while it compiles or
advances (`Panic`), the case `serve` handles by making up a terminal message.
`advance_with_cancel` returns no frame only when the run is finished, which the
loop has excluded, so that branch has no counterpart.  Requests that leave the
job alone (catalog, check, import, parameters, a run while one is active) appear
as `ReadNothing`.

### GraphicsScene

`scene` is `GraphicsSession`.  `execute` clones the session, applies a request
to the clone and commits it whole or drops it, so every request is an operator
from scene to scene; `ok` is FALSE where the code returns an error and the
scene is then not committed.  `Ensure...` are the code's functions of those
names, and a request takes the Figure or Axes they yield.  `Execute` adds
`Finalize` (revisions) and `Deliver` (the delta, applied by one attached
client).  `owner` remembers the object each handle was issued for.  Kept of an
object's data is what the tree depends on; `look` stands for the rest, so a
limits, camera, grid, view or style change is the same step.  Scatter, surface
and patch are `Plot`; a chart group has one primitive.  A list of handles in
one `set` is a list of one.

Observed while modelling and not stated as a violation: `nexttile` follows the
current layout even when another Figure is current, and `cla` resets the
position of a subplot.

### GraphicsRegistry and GraphicsFeed

In `GraphicsRegistry` every step is one critical section of the map lock, an
entry's lock or a hub's lock; a Drop that takes several is several steps.  A
token is its entry and its generation.  In `GraphicsFeed` the content of a
Figure is its revision; the kernel socket (discovery) and the two directions of
the graphics socket are separate queues.  The deltas a publication keeps are given
by their places in increasing order (`InOrder`), the reply to initialize names
the Figures that were open when it was made, and a request other than initialize
is handled only after the poll at the head of its turn of the loop.  Whether a
delta that continues the mirror applies is a choice in `AcceptDelta`, since what
a delta contains belongs to `GraphicsScene`, which shows that some do not: the
client then gives the connection up (`Sever`), as it does for a delta that
deletes the root.  A mutation whose drained deltas cannot all be converted has
committed and reports failure (`MutationFails`); a limits request may be refused
although it is current, when the Figure has no Axes for it.  `joined`, a history
variable, is the place in the journal where the present connection began.  Who
may attach is the subject of the first module, what an attached client sees of the second, what a delta contains
of `GraphicsScene`.

### Workspace and SharedStore

A handler is cut wherever another thread can come between two system calls:
resolve, read and compare, write the temporary file, compare again, link or
rename, remove.  Every such step may fail, which leaves the handler and removes
its temporary file (`Abandon`); that removal itself is assumed to succeed.  When
the link of an upload's commit succeeds and the removal that follows does not,
the file is there and only the answer is an error, a difference no property
sees.  A content is its own revision, as `content_revision` is a hash.
`SharedStore` knows a look and one later effect per request.  The refinement
mapping sends `files` to `store` and a handler to the request it has looked for;
`raced` says whether a place it names changed since.  What sharing costs is
written in the abstract module: a write and a move that were overtaken between
look and rename overtake in turn; every other request is decided by the file
system once more.

### ClientConnection and DocumentSession

Attempt `g` creates socket `g`, whose listeners outlive it.  The kernel
transport and the workspace client differ in what their listeners compare, and
`channel` selects one.  `Reply` has the three outcomes of the code: the request is
pending, it is not (an unknown `replyTo`), or nobody listens to that socket any
more; `BadFrame` stands for every other frame the client rejects.  Both of these
rejections end in `FailConnection`, which lets go of the socket and closes it
with a code of the 10xx range.  The client's own comment
(`graphics-client.ts:32-34`) and the WebSocket API say that a browser refuses such
a code: `refused` collects the sockets that so stay open.  After an `error` event
the same close is never attempted, because the browser has set `readyState` to
CLOSED before it fires the event and the handler tests it.  The kernel server
ends a connection whose session identifier is taken, as it is while a refused
socket is open (`Taken`).

`DocumentSession` follows one document of which the previous session left an
unsaved draft; `disk` is its file, the store is what is durable, and a reload is
the start of the module.  `Flush` is the exit: with nothing left to save, or with
Don't Save, whose snapshot holds the file's text in place of the draft
(`DiscardSnapshot`).  Save All of the exit dialog is `SaveDocument`, which only a
verified document allows, before it.  `displaced` remembers that the answer of an
`openWorkspaceFile` that had seen no draft was put into the editor.

## 3. Runs

| Run | Question | Bounds, and why they are enough | States |
|---|---|---|---|
| `kernel_session` | can an interrupt be stale, be refused while the engine runs, or fail to end a program? does an edit commit only on contents its author saw? | five requests of every kind, interrupt calls without bound, protocols v0 and v3, revision ceiling 2.  A stale effect needs one execution to aim at and one to hit; two revisions lie below saturation and requests remain after it | 191,473 |
| `kernel_connection` | engine lifecycle, orderly exit, event order, refinement of `SequentialSession`, stopping ends, accepted requests are answered | two requests, a full command channel, two interrupts, a second bootstrap, write errors and a disconnect anywhere; terminating programs | 524,803 |
| `simulation_run` | run protocol, completeness, truth, termination | two runs (a flag can leak into the second), queue of 2, lengths on both sides of the sample limit, widths on both sides of a full batch, value limit 5 met by width 2 | 649,406 |
| `graphics_scene` | do hierarchy, handles and mirrors stay consistent over any sequence of requests? | four live objects and four ever created: a chart with its primitive, two Axes in one Figure, or two Figures with one each; slots of two generations, so that one is reused and then retired; three revisions of a Figure; two tiles; two places that overlap | 43,778 |
| `graphics_registry` | one renderer, exact leases and buffers, findable sessions | two kernel connections under one identifier, two graphics connections, each opened once, so that the second is a competitor or the reconnection of the first, two token generations, one buffer, which is enough to be leased and dropped at once | 599,323 |
| `graphics_feed` | journal, order of response and delta, mirrors never go back | two Figures, three kernel transactions, two user requests, a conversion that fails (in a publication or after a mutation), a lost connection; rejected deltas without bound | 4,146,904 |
| `graphics_viewer` | is what was published shown in the end? | four transactions, a failed publication, a lost connection, rejected deltas without bound; the window only watches (section 4) | 400,793 |
| `workspace` | no partial file, no leftovers, one use per ticket, resolvable and pinned generations, refinement of `SharedStore` | two connections, two folders with two names, three requests of any kind, three generations | 358,855 |
| `client_connection` | is connected usable, which sockets are left open, does it recover? | both channels, six generations, two faults, a frame that is rejected, a manual retry: a stray error and a refused close need one fault and two generations, and generations remain after them | 643,324 |
| `document_session` | does the store keep drafts, edits and the exit snapshot? | two edits, four writes of the session, two faults, three workspace generations, one opened file; exits with and without Don't Save | 3,501,933 |
| `stop_hangs`, `delta_rejected` | disagreements between code and documentation, section 4 | the smallest instance that shows each | |

Bounds on requests, faults, generations and transactions bound the environment
only; what the program keeps (queues, counters, limits) is bounded by the
program's own constants, scaled down.  Runs without `CHECK_DEADLOCK` concern
systems that may rest: a client that sends nothing more, a bound used up.
Symmetry is used for connections, sessions, names and contents, and only in runs
without liveness.

**Fairness.**  `FairSpec` of `KernelServer` and `SimulationJob` is weak fairness
of each thread: the operating system schedules both.  For the connection thread
it includes `ReadNothing`, because the kernel socket is nonblocking and the
simulation socket has a read timeout, so a silent client does not block the
loop.  Nothing is assumed of the client.  A simulation step and a terminating
program are assumed to return; a program that only a cancellation ends is under
no such assumption.  `KernelFairSpec` is fair to the steps inside a request and
inside an interrupt call, never to a new request or interrupt.  `GraphicsFeed`:
the worker publishes what it took, the graphics thread serves and polls (its
socket has a read timeout), messages on an open socket arrive.
`ClientConnection`: timers fire, effects run, the browser reports the end of
every socket, and an attempt the network does not fail is answered; faults are
bounded, so this says "when faults end".

**What the passing runs show.**

- `NoStaleInterrupt`: an interrupt call that has returned never marks a later
  execution, although it leaves the token set and perhaps the status changed.
- `RunningIsInterruptible`, `LoopInterruptible`: while the engine runs an
  interrupt is accepted, and one that reaches the token ends the program.
- `EditSeesCurrent`: no edit overwrites a change its author has not seen, also
  when the revision no longer moves.
- `EngineLifecycle`, `OrderlyExit`: one shutdown at most, no entry afterwards,
  and none forgotten except when a second bootstrap frame ends the worker.
- `ServerConsistent`: types, busy and idle alternate for the client, and a batch
  has a busy frame in first place only (which is why `Delivered` need only look at
  the first frame, where the code filters the batch).
- `ServesSequentially`: the connection refines `SequentialSession`.  `pending`
  is the accepted requests without a reply on the socket.
- `StopCompletes`, `AcceptedAnswered`: with terminating programs.
- `SimulationConsistent`, `FinishedIsComplete`, `ReportsTruth`, `RunEnds`,
  `DropCompletes`: a run is answered once, its events are numbered in order,
  "finished" means every sample was delivered, a made-up failure stands for a
  real panic, "cancelled" for a request, and neither a cancel nor a full queue
  can hang the drop.
- `SceneConsistent`: parents and children, arena and free list, current objects,
  Figure numbers and revisions fit together after every sequence of requests.
- `HandlesStayDead`: a handle names the object it was issued for or nothing.
- `MirrorIsSnapshot`: a client that applied every delta sees what a snapshot
  would show.  Exception: a plot that replaces the content of its Axes deletes
  their colorbar and leaves `colorbar_visible` set; `colorbar off` then clears
  the flag and reports no change (`session.rs:1947`), so mirrors keep it.
- `OneRenderer`, `LeaseAccounting`, `RetainedExactly`, `RegistryConsistent`,
  `AtMostOneStaleRequest`: the registry through rotations, reconnections, failed
  transfers and half-done drops.
- `FeedConsistent`, `ResponseBeforeDelta`, `MirrorNeverGoesBack`,
  `PublishedIsMirrored`, `EventuallyMirrored`: each revision is journaled once,
  the response precedes its delta, a mirror only moves forward, and a window
  that watches ends up with what was published, whether its connection was lost
  or given up over a delta it rejected.  Exception: a Figure whose closing was
  published before the present connection joined (`EndedBefore`).
- `WorkspaceConsistent`, `ToldIsResolvable`, `PinnedStaysPinned`,
  `ImplementsSharedStore`: no half-done file, ticket or request, whatever fails;
  a document stays attached to its folder across `cd`.
- `ConnectionConsistent`: a socket that is open or being made is the one the
  client holds, or one whose close the browser refused (`OnlyRefusedLeft`).
  `ConnectedIsUsable`, `Recovers`: shown as connected means a usable channel, and
  a channel recovers; the kernel's does if no close was refused.
- `SessionConsistent`: the draft of the previous session leaves the store only by
  a save for which the user chose Don't Save, or after a file displaced it in
  the editor.  `ClosedIsStored`, `QuietIsStored`, `StoreNeverGoesBack`: the exit
  snapshot, the quiet session and the order of the writes.

## 4. Findings

- **A disconnect can leave `stop` waiting forever** (`stop_hangs`).  The worker
  checks the stopping flag, and then resets the token and stores `Busy`.  The
  flag and the interrupt of `stop` may both fall between; the interrupt is
  refused or forgotten.  A program that does not end by itself then keeps the
  worker, and `join` the connection thread.
- **Deleting an object with children breaks the graphics connection**
  (`delta_rejected`).  `finalize_change` puts a deletion for every deleted
  object into the delta, parents first.  The web client (and `SceneState` of the
  Rust mirror) removes a subtree with its root and rejects a deletion of an
  object it does not have.  The delta of a `clf` after a `plot`, of a `subplot`
  over plotted Axes, or of a plot over a bar chart therefore ends in
  `#protocolFault`; the client reconnects and takes a new snapshot.

The following are behaviours of the code that the models contain and that the
properties state as exceptions or do not claim:

- An interrupt call in flight when an execution ends can cancel the next one
  (`handle_interrupt` loads the status first); `NoStaleInterrupt` shows that this
  overlap is the only way.
- A session whose thread cannot be spawned, or whose startup frame cannot be
  written, stays in the graphics registry; a second bootstrap frame ends a
  worker without `orderly_stop`.
- A mutation of a window whose deltas cannot be converted is reported as failed
  although it was committed.
- A Figure closed while the client is away stays on the screen: `#acceptInitialize`
  adds what the server names and removes nothing, and the journal is relayed from
  the initialize on.  It is the exception `EndedBefore` of `PublishedIsMirrored`;
  without it TLC finds a Figure left over in 25 steps, the connection being given
  up over a rejected delta.  `docs/design/plot-engine-v1.md:74-75` calls
  "reconnect snapshot recovery" authoritative.
- A graphics client that was refused a request stays in its error phase and
  asks for no further snapshot; closing a Figure from the window moves the
  connection's cursor past events it has not relayed; a client that initializes
  during the creating execution misses deltas that publication suppresses.
  `graphics_viewer` therefore has a window that only watches, and its properties
  speak of Figures whose last change was journaled.
- Two savers of one revision can both pass the second check of `write_file`, and
  a file that appears after `move_entry` looked is replaced: the `Overtakes` of
  `SharedStore`.  `read` takes the generation of its reply and the file from two
  snapshots of the Current Folder.
- A stray error event of an old socket makes the workspace client drop the
  socket of the next attempt (`Undisturbed`).
- A rejected frame leaves its socket open.  `#failConnection` of the kernel
  transport and `#fail` of the workspace client set `#socket` to null and then
  call `close(1002)`, `close(1003)` or `close(1009)`.  `graphics-client.ts:32-34`
  states that browsers permit 1000 and 3000-4999 only and throw at the rest, and
  uses 4002 and 4008 for this reason; the transports' tests use a socket that
  accepts every code (`websocket-kernel-transport.test.ts:895`).  It is the
  exception `refused` of `ConnectionConsistent`.  Without it TLC finds an orphan
  in seven steps and without a faulty server: the error event of a disconnected
  socket rejects the request of the next attempt, whose answer is then an unknown
  `replyTo`.  While such a socket of the kernel is open its session stays
  registered and the server refuses the next attempts as duplicates, hence the
  premise of `Recovers`.
- A file opened before the restore ends takes the place of its recovered draft,
  and the next save removes the draft from the store: open documents win
  (`use-document-session-persistence.ts:141`), although `apps/web/README.md:71-73`
  says that dirty drafts are reapplied.  It is the exception `displaced` of
  `SessionConsistent`; without it TLC finds a lost draft in seven steps.
- A newest autosave that failed is repeated only at the next change
  (`dropped`); an edit during `openWorkspaceFile` is overwritten; a revalidation
  disposed by an edit is not repeated.

## 5. Proofs

The theorems hold for every value of the constants that satisfies the named
assumptions of the modules: any number of connections, kernels, renderers,
buffers, Figures, folders, requests, runs, saves and generations, any queue capacity and
any limit.  Most assumptions only give the constants their types.  The others
say that

- the marker `None` is not one of the things it stands beside
  (`NoneAssumption`, `NoRequestAssumption`, `NoDocumentAssumption`);
- an absent place, a folder and a half-written file differ from each other and
  from texts (`WorkspaceAssumption`);
- a limit or capacity the program fixes is not zero (`QueueAssumption`,
  `LimitAssumption`, `RegistryBounds`, `CapacityAssumption`), and the first
  workspace generation exists (`SessionAssumption`);
- the Figures a session ever has are finitely many (`FeedFigures`): the client
  lists the Figures it asks for.

TLC evaluates each of them in the run of its module.

Every component has one inductive invariant, checked by TLC before it was
proved, one lemma per action (or per action and conjunct), and a theorem per
property.

**`KernelSessionProofs`**: `TypeCorrect`, `StaleInterruptsHarmless`,
`AlwaysInterruptible`, `EditsAreNotLost`.  The inductive invariant `KernelInv`
adds to the type invariant and `RunningIsInterruptible`:

- `InterruptTrace`.  `NoStaleInterrupt` speaks of the moment of judgement only;
  to be inductive it must say for every earlier point of an execution where a
  set token, an `Interrupted` status or a call in flight can come from.  The
  two facts that carry it are that the reset precedes the engine and that the
  `Busy` store covers an old `Interrupted`.
- `RevisionTrace`.  Below the ceiling the current revision identifies the
  current contents; an accepted edit keeps naming the current revision until
  it commits, because the thread handles one request at a time.  At the ceiling
  the first fact fails and the refusal in `EditRefused` takes over.

**`KernelServerProofs`**: `ShutDownOnce` (`EngineLifecycle`), `ExitIsOrderly`
(`OrderlyExit`) and `ServerIsConsistent` (`ServerConsistent`).  For the first two
the danger is an interrupt call in flight that overwrites
`Dead`, the status on which both `orderly_stop` and `handle_request` rely.
`ServerInv` excludes it by two arguments.  An interrupt of the *client* cannot
be in flight when a client's shutdown is handled, because `shutdownQueued`
keeps the connection from reading (`ShutdownPath`).  The interrupt of *stop*
can, but it is issued after the stopping flag is up, so the request it found
running is the worker's last (`InterruptPath`); the shutdown that follows ends
the worker without another look at the status (`Down`).  `WorkerControl` and
`SessionControl` relate the program counters of the two threads and the kernel.
The proof has a lemma per action and reuses the per-action lemmas of
`KernelSessionProofs` for the shared state.

For the third, `StreamInv` follows a signal from the kernel to the socket.  The
messages of the request in hand are without a signal, or begin with busy and end
with idle (`BatchInv`).  Every event in the channel names the signal it must come
after and the one it leaves (`Before`, `Afterwards`), consecutive events agree, and
the last agrees with what the worker has said so far (`EventsInv`: `Said` is busy
exactly from the announcement of an execution to its batch).  What was written
alternates, and while the connection goes on it ends where the first event in the
channel begins (`WrittenInv`); an interrupt's frames, written in between, are no
signals, and a write that fails leaves a prefix.

**`SimulationJobProofs`**: `SimulationIsConsistent`, `SimulationReportsTruth`,
`FinishedRunIsComplete`.  The properties speak of what the client was sent; what
is still to come lies in the worker's batch, its held message and the bounded
channel.  `SimInv` therefore describes the whole stream while a job is relayed
(`StreamInv`): the connection's `acknowledged`, `sequence` and `terminal` are a
summary of what was sent for this run (`SummaryInv`); the channel holds at most
one terminal message, and it is the last (`QueueInv`); the held message and the
worker's place agree (`HeldInv`, `VerdictInv`); while the job is relayed the
cancel flag is up only after a cancel of this run was answered (`CancelInv`); and
the samples sent, queued and held are consecutive, up to the
worker's position (`FramesInv`).  Completeness follows when the last of
these meets the end of the run.  The properties are stated by positions in the
sequence of messages rather than by filtered sequences, so that they can be
proved: see below.

**`GraphicsRegistryProofs`**: `RegistryIsConsistent`, `RegistryOneRenderer`,
`RegistryLeases`, `RegistryRetains`, `RegistryStaleRequests`.  `RegistryInv` has
a part per table: the map and the live entries (`LifecycleInv`, with a session
half unregistered as a state of its own), the attachments (`AttachmentInv`: the
entry's active client is the attached connection's, and an attachment's token is
never newer than the entry's), the transfers (`TransferInv`: a connection
has leased what it is sending, and a detached one holds nothing), the entries
connections have looked up (`EntryInv`), and the way out of a connection that was
served once while stale: it never becomes live again and reaches the next check
before another read (`StaleInv`).
`LeaseAccounting` is inductive only together with `OneRenderer`: the count of a
buffer would be more than one with two renderers.

**`GraphicsFeedProofs`**: `FeedIsConsistent`, `ResponseComesFirst`,
`WindowNeverGoesBack` and `ViewerIsMirrored`.  `FeedInv` follows a revision on
its way.  A change is in one place only, the session's queue, the batch an
execution took or the journal, and behind the revision of its Figure
(`JournalInv`): from this a mutation finds exactly one delta from the expected
base among those it drained.  What is on the wire does not run ahead of the
session; a snapshot is not older than what is shown, than the snapshots before it
or than the deltas before it; and no delta precedes its response (`WireInv`).
A window could otherwise go back by a snapshot that was overtaken, which no
clause on the mirror alone excludes.

`ViewerIsMirrored` has the hypothesis `Viewing`: no mutation from a window.  It
cannot be dropped, as TLC shows with user requests added to `graphics_viewer`: a
close from the window moves the connection's cursor past events it has not
relayed, and a refused request ends the asking for snapshots (section 4).
Connections may be lost or given up over a rejected delta any number of times,
publications may fail, deltas arrive early, late or repeated, and requests be
under way at any time.  Under it `ViewInv` is inductive together with `FeedInv`.
A connection begins with its initialize, the view is the first message it brings,
and no snapshot is asked for until the client has read it (`JoinInv`).  A closed
Figure stays closed and its last event is figureClosed (`EndInv`); the client only
asks, and whoever waits for a resynchronization has its request or its answer
under way (`AskInv`).  `ReachInv` then says of every event the connection has
taken from the journal that a shown Figure's end is still on the wire (`Ends`) or
lies before `joined`, and that its change was applied, is on the wire, or will be
made up for by a snapshot that is asked for, under way, or promised by a view not
yet read (`Comes`), with the same for every snapshot not yet read.  In a quiet
feed only "was applied" is left.  `SeverView` shows that the end of a connection,
which empties both directions of the socket, keeps all of it.

**`WorkspaceProofs`**: `WorkspaceIsConsistent`, `ToldStaysResolvable`,
`RequestsStayPinned` and `WorkspaceImplementsStore`.  `WorkspaceInv`
consists of `RootInv` (what a generation was, is and is remembered as),
`FilesInv`, `TicketInv`, `HandlerInv` (for every handler at every place what it
has resolved, and in which folder) and `RaceInv` (a request not overtaken still
applies).  The fact behind the folders is `Keeps`: no step takes a remembered
root away or changes it.  A step of a handler is shown to keep the invariant
together with what it does to the files (`StoreStep`): nothing, one write of its
own place, or an end without effect.  The refinement uses the same
classification: a step that looks is `Store!Look` (`LookRefines`), one that
changes a file is `Store!Perform` of the request the mapping shows
(`PerformRefines`), one that gives up is `Store!Fail` (`FailRefines`), and all
others stutter.

**`ClientConnectionProofs`**: `ConnectionIsConsistent` and
`ConnectedChannelIsUsable`.  `ConnectionInv` adds to them what the recovery hook
can be in (`RecInv`: connected is the phase of the attempt under way, whose
socket has opened) and that the client's socket and its pending request are
of that attempt or none (`SocketInv`).  Late events of older sockets are then
told from those of the current one by what each listener compares.  Whatever the
client lets go of while the socket is open enters `refused` in the same step,
except in `disconnect`, which closes with 1000, and after an error, which has
ended the socket; that is the content of `OnlyRefusedLeft`.

**`DocumentSessionProofs`**: `SessionIsConsistent`, `ClosedWindowIsStored`,
`QuietSessionIsStored`, `StoreMovesForward`.  `SessionInv` orders the saves: the
queue is numbered upwards from the store (`OrderInv`), the exit save is in the
queue or was the last write (`ExitInv`), the newest save is of the documents as
they are unless a change has set the timer since (`FreshInv`), and unless a
file displaced the draft every save but that of a discarding exit, and the open
document, hold it (`DraftInv`).

**Model-checked only.**

- Liveness and fairness: `LoopInterruptible`, `StopCompletes`,
  `AcceptedAnswered`, `RunEnds`, `DropCompletes`, `EventuallyMirrored`, `Recovers`.
- `ServesSequentially`, whose mapping picks the replies out of what was written
  with `SelectSeq`.  That operator is defined by recursion over its argument, so
  what it returns is a matter of induction over data, which these provers do not
  do.
- `GraphicsScene` (`SceneConsistent`, `HandlesStayDead`, `MirrorIsSnapshot`).  A
  deletion frees the slots of a subtree, and that these are the slots of valid
  handles is a fact about the recursive functions that walk the tree, again by
  induction.

## 6. Not modelled

Everything `PROJECT.json` marks `not_modelled`.  The language stack (parser to
bytecode, interpreter, builtins, arrays, objects), the simulation engine, SLX
import and the rendering pipeline are most of the repository's lines.  They are
sequential functions over unbounded data (numbers, arrays, syntax trees,
pixels): they share no state with anything, and their correctness is that of
each function on its inputs, which small finite instances do not reach.  The
models therefore cover a small share of the lines and most of the places where
order matters.

In the modelled components: message encoding is kept as far as the type of a
message and the request it answers.  In `websocket.rs` the handshake is left
out.  In `session.rs` data buffers and their collection (their leases are in
`GraphicsRegistry`), legends, shading and lighting, automatic limits and ticks,
and property validation.  In `workspace.rs` the search path, the read-only
browser, symbolic links and trees of folders.  In the web client the requests
that follow a connection, buffer downloads and Designer sources.

## 7. Plan

1. `NoStaleInterrupt` for `KernelServer`.
2. `ModuleLinker`: the linking order against a reference definition over all
   small file graphs; `CancellationBridge` of the runtime engine.
3. `SimulationClient` composed with `SimulationJob` over a connection that may
   be lost.
