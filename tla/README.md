# A TLA+ model of Ariadne

Ariadne is a terminal multiplexer: a daemon owns workspaces, windows, panes and
the processes in them; frontends connect over a local socket, see the state and
send commands. This directory holds a model of the parts of the daemon and of its
text frontend whose correctness depends on the order of events, checked by TLC on small
instances and proved, where a result matters for every size, by TLAPS. `PROJECT.json` maps
every definition to the lines of code it stands for.

## Inventory

| Component | State | Operations | What is hard about it |
| --- | --- | --- | --- |
| Core (`internal/core`) | workspaces, windows, layout trees, panes, the stash, labels, attentions, tools, terminal states, focus of frontends | about forty commands, run by one executor goroutine | long sequences of legal commands; hints and focuses that name objects which are gone; a validator that rolls commands back; weights and limits at their edges |
| Event stream (`core.go`, `apply_event.go`, `subscription.go`) | revision, one bounded queue per frontend, the frontend's copy | Subscribe, publish, unsubscribe, ApplyEvent | atomicity of snapshot and subscription; overflow; events whose payload must be enough to follow the state |
| Persistence (`internal/statefile`, `daemon/server.go`) | Store (latest snapshot, dirty, timer), the file | Schedule, Flush, Close, writeAtomic, Load, persistLoop | several goroutines schedule snapshots; failing writes; crashes; shutdown against commands in flight |
| Daemon lifetime (`daemon/server.go`, `platform/unixsocket`) | listener, stopping flags, command gate | Open, Serve, daemon_stop, Close | the order in which listener, observers, store and Core are closed; a replacement daemon |
| Terminal lifecycle (`daemon/terminal.go`, managerLoop) | terminal state of a pane, sessions of the PTY manager | new, run, restart, stop, kill, dismiss, delete; exit, retained and removed events | events of an old session arrive after a restart; a cancelled request between two steps |
| Built-in plugins (`internal/plugin`) | active flag, label gate, terminal queue and its byte budget, consecutive errors | Initialize, HandleEvent, HandleTerminalEvent, label writes, Close | callbacks that panic or hang, are given up and go on; queue overflow; cleanup |
| External plugins (`internal/plugin/external`) | registry, sessions, invocation contexts, the RPC peer's tables and queues, grants | install, enable, start, stop, invoke, interact, API calls | cancellation against late responses, failure against stop, checks that are stale when a request is executed |
| Protocol and client (`internal/protocol`, `internal/client`, `daemon/plugin.go`) | one connection, its subscription, its plugin calls and editors | sync, commands, event forwarding, plugin calls, dialogues, detach | order of response and events, a gate held while a user thinks, a client that goes away in between |
| Text frontend (`internal/frontend/tui`) | its copy of the state, window, focus, preview, zoom; dialogues and editors; queues of input, gestures | keys, prompts, commands, mouse, events, answers | answers and events that overtake each other; questions that come during questions; input that waits for a busy emulator |
| CUI, Windows frontend, platform, configuration, start-up | none shared | | sequential code, I/O and parsing |

How they interact: a client's request passes the command gate of the daemon, takes
the terminal lock if it concerns a process, and becomes one or more Core commands.
Core publishes an event for every change; the frontends, the built-in plugins, the
external plugins and `persistLoop` are subscribers. `persistLoop` hands a snapshot to the
Store for each event. The PTY manager reports exits and output to `managerLoop`, which
issues Core commands and feeds the plugins. A plugin that a client has invoked may call the
API of the daemon, and ask the frontend of that client for a dialogue, an editor or a
navigation, while the call lasts.

The properties that make each component correct are stated in the modules; the
hazards they are meant for are listed, each at its line, in `PROJECT.json`.

## Modules

Core and what follows it:

* `IdentifierLists`: operators on lists of distinct identifiers.
* `CoreState`: the structure of Core and its commands. Core runs a command to
  completion in one goroutine, so a command is one action. A layout tree is seen as
  the sequence of its leaves: the structural commands use only the first leaf and
  the place of a leaf. A restore hint that depends on the shape of the tree is a
  nondeterministic choice among the leaves it can be. `Commit` is the validator that
  the daemon installs, `Reload` a restart from the state file.
* `LayoutNodes`: the nodes of a layout tree, the placing of a pane beside another one, the empty hint.
* `LayoutTrees`: what is done with trees, as recursive operators: insertion beside a leaf,
  removal with the collapse of a split, weights with their halving, hints, validation.
* `CoreObjects`: the commands on trees, labels, attentions and tools, with the event of
  each and one frontend's copy to which `ApplyEvent` applies it at once. The operations on trees are
  parameters of which `LayoutLaws` says what the commands rely on; `MCCoreObjects` gives them as those of
  `LayoutTrees` (`Insert` as `TreeInsert`), so that TLC evaluates the laws for every tree of at most three panes. `Structure`
  instantiates `CoreState` with the leaves of the trees: every command of the detailed module
  is the command of the abstract one, or changes no leaf (`StructureRefined`).
* `MCCoreObjects`: each behaviour uses one family of commands (moves, stash, weights,
  labels, attentions, tools) beside the creation and closing of panes and windows. Commands of
  different families change different parts of the state, except where a pane or window
  that one of them refers to goes away, which every family contains.
* `EventStream`: extends `CoreState` with the revision, the queues and the
  frontends' copies. A queue that is found full is first marked by `Deliver`, then
  removed by `Evict`, before the executor does anything else, as `publish` does it
  in one turn; the frontend can read in between. `Accepted`, the validation of
  snapshots, is a parameter, which `MCEventStream` gives as the validation of `CoreState`,
  read from a snapshot: what is proved holds for every validation.
* `Persistence`: the daemons that follow each other on one file. The state is the
  set of mutations it contains. It has `persistLoop`, the run loop of the Store, the
  two callers of `flushState`, the command gate, the listener, crashes, power loss
  and the next daemon.

Plugins and terminals:

* `PluginHost`: one built-in plugin. Plugins are independent, so one is enough.
* `TerminalLifecycle`: the terminals of the panes. An operation of `terminal.go` is a
  sequence of steps under `terminalMu`, one for each place where a process, a cancelled
  request or the admission of another operation can come in between; what nothing can
  interleave with is one action. `HandleEvent` is a turn of `managerLoop`. The PTY
  manager is a library: its sessions, and the events it publishes, are modelled from the
  calls made and the events handled here.
* `ExternalPlugins`: one external plugin, from its entry in the registry to the sessions
  that follow each other. `op` is the management operation that holds `opMu`, step by
  step; `session[g].peer` is how far `Peer.Fail`, which runs once and in whatever goroutine
  calls it first, has got with generation `g`; `session[g].process` is the process and the
  goroutine that waits for it. The gate is held by the API calls in `api` and by the
  dialogues that commands wait for. Only the process itself is external.
* `RpcPeer`: one peer: the reader, the writer, the handlers, the callers, and the
  plugin at the other end. `calls[c]` is how far a call has got, `stage[r]` a message of the
  plugin: a request, a dialogue, or a notification (`Notes`), which has no response. Each message has
  a size, which is charged to the byte budget before it is counted and queued (`Admit`). The steps of
  `Fail`, of `Call` and of `read` are separate actions wherever a lock is released or a channel is used in
  between. A plugin is polite as long as it keeps the protocol and a window on its own messages and
  their bytes: `open` holds those of which it cannot know that they were handled, `confirms` the
  notifications that a response tells it of. It is free to stop being polite at any step.
* `MCRpcPeer`: the calls of the host beside a request and a dialogue (`part = "calls"`), or all messages of
  the plugin beside no call (`part = "messages"`).
* `PluginAPI`: extends `CoreState` with one request of a plugin, its grants and its
  invocation context. `Admit` is the check when the request arrives, `ApplyCommand` and
  `ApplyOther` the check and the execution in the executor's turn; frontends, editors and
  restarts of terminals come in between. `relay` is whether `relayEvents` follows the events of Core: it
  ends at the first event that `ApplyEvent` rejects, and fails the peer (`Relay`, `FailPeer`).
* `MCPluginAPI`: Core alone with any commands (`part = "core"`), or a plugin with one request
  beside the commands of others (`part = "plugin"`).
* `Connection`: the connections of frontends. `stage[r]` is how far the handler of a request
  has got, `inbox` and `down` are the frames in either direction, in order. `Subscribe`,
  `Store`, `Attach` and `AnswerSync` are the steps of a synchronisation, `CallStep` those of a
  plugin call that keeps the command gate, `CloseStep` those of the end of a connection.
* `MCConnection`: two clients with at most three requests, in the combinations that can meet:
  an editor with its end, two dialogues, two commands, and `daemon_stop` during each call.

The text frontend, in three modules that share no variable, since its loop handles
one message at a time and these handlers touch different state:

* `FrontendView`: what is shown and focused. `present` is Core's state, `snapshot` the copy
  of the frontend, between them the states whose events have not arrived; `ApplyEvent` is the
  loop's case for an event with `relayout` and `syncViews`, `EndLoop` its return when the event is rejected
  (`running`); a command is one action, since the loop waits for its answer. `placements` are the panes
  of the last layout, which `preferredFocus` falls back on when the window has none. The screen has room for
  at least one line of content; the state in which it has not is left out.
* `FrontendDialogues`: dialogues, clipboard questions, navigations, plugin editors and prompts.
  `asked` remembers who has asked, so that a request nobody holds any more is seen as lost.
* `PaneInput`: the queue of a pane's input while its emulator is busy, paste frames and the
  gesture of the mouse.
* `MCFrontend`: the three together; a behaviour moves in one of them.

Theorems are in `CoreStateProofs` (with those of `EventStream` and `PluginAPI`), `StateProofs` (of
`Persistence` and `CoreObjects`),
`PluginHostProofs`, `TerminalProofs`, `RpcPeerProofs`, `ExternalProofs`, `ConnectionProofs` and
`FrontendProofs` (below).

How they compose. `EventStream`, `PluginAPI` and, by refinement, `CoreObjects` are built on the
commands of `CoreState`. `Persistence`, `PluginHost`, `TerminalLifecycle`, `Connection` and
`FrontendView` abstract Core to what they need of it: mutations, the labels of one plugin, the
terminal and the error label of a pane, revisions, the places of panes. `RpcPeer` is the channel
that `ExternalPlugins` reduces to a peer that works or fails. Each module states the type of its
variables (`TypeOK`, `StreamTypeOK`, ...); TLC has confirmed them, but no run spends its time on them.

## Runs

| Run | Module | What it shows | Bounds |
| --- | --- | --- | --- |
| `core_plugin` | MCPluginAPI | hierarchy, focus on screen, recoverable stash, identifiers never reused; a request changes only what its grants cover when it is executed; what a plugin sees does not change unannounced while the relay follows | Core: 2 workspaces, 2 windows, 2 panes, 1 frontend, 2 names. Plugin: the same objects at first and one more of each, 1 request, 1 command or restart of others, every scope |
| `plugin_events` | PluginAPI | a disagreement with the protocol document: a new window is not announced | as the plugin part, without frontends, 2 scopes |
| `core_objects` | MCCoreObjects | the state and a copy stay acceptable, indexes are exact, copies follow, shares and places are kept, no blind overwrite of a tool state, the trees refine `CoreState` | 3 panes (at most 2 of them stashed at a time), 2 splits, weights up to 3 (up to 7 for the shares alone), 2 sources and 2 values, 2 attentions, 1 tool and 2 clients |
| `stream` | MCEventStream | a copy follows Core exactly and never silently misses an event; what was accepted is accepted after a restart | 2 workspaces, 2 windows, 2 panes, 5 mutations, queue of 2 |
| `persistence` | Persistence | nothing is left unsaved at rest or after Close; Close ends; every mutation reaches the disk | 2 mutations, 2 daemons, 1 failing write, queue of 1 |
| `plugin_host` | PluginHost | exact byte budget; callbacks that were given up do no harm; cleanup in the end | 2 callback goroutines, terminal queue of 2 with budget 3, 2 consecutive errors |
| `terminals` | TerminalLifecycle | processes and panes belong together; what a pane shows is what its process is; no event stops the daemon | 2 panes (absent or failed at first), 2 sessions, a client and a plugin, 1 fault of 4 kinds, processes that succeed or fail |
| `terminals_live` | TerminalLifecycle | operations end, exits are shown, sessions of closed panes are released | 1 pane, 2 sessions, a client and a plugin, 1 cancelled request or failing kill |
| `external_plugins` | ExternalPlugins | sessions leave nothing to their successors; no withdrawn grant used; a registry that can be loaded; operations and failures end | 2 generations, 2 package names, 1 dialogue, any number of failing saves |
| `rpc_peer` | MCRpcPeer | a polite plugin is never stopped for its messages; counts, bytes and answers are exact | 2 calls beside 1 request and 1 dialogue, or 6 messages (3 requests, 2 notifications, 1 dialogue, of sizes 1 and 3) beside no call; queues of 4, 7 bytes, a window of 2 messages and 3 bytes, 2 host messages in the budget, 1 remembered cancellation, 2 handler errors |
| `connection` | MCConnection | copies of clients in step, nothing left of a closed connection, stops and dialogues end | 2 clients, 3 requests in seven combinations |
| `frontend` | MCFrontend | keys go to the screen, a settled view, answers to their questions, ordered input, released buttons, dialogues that settle | 3 panes, 2 windows, 2 commands and 1 of others; 2 dialogues, 2 clipboard questions, 1 navigation; 3 inputs, queue of 2, 2 panes |

Why the bounds are enough. The identifiers of `CoreState` are bounded by their limits
because they are never used again; with two windows and two or three panes every pair of
commands interferes in every way the code distinguishes (same window or another,
first leaf or a later one, target still there or not). One frontend suffices for
focus: repairs treat the frontends independently. Three panes give every shape in which a
removal collapses a split into its parent, and `Resizes` contains weights whose sum passes
the limit of 3 that stands for 2^32-1; `SharesKept` takes all lists of weights up to the limit 7, the
limit included. A third stashed pane would have a hint that reads a tree as the second does. A queue of one or two events
overflows after two or three mutations. For the races on the Store two snapshots are
enough, an older and a newer one. Two sessions let a pane be restarted while events of
its previous session are queued, two panes let events of one cross an operation on the
other; a pane restored as failed reaches `run` and `restart` without a session. Two
operations are enough, because `terminalMu` admits one and the other is what waits. Two
generations of an external plugin are an old session and its successor; a third would meet
the second as the second meets the first, since a start waits for the end of the previous
session. Dialogues touch nothing but their own slots, so one is enough; a package is replaced
by one other. For the label gate a holder and a second callback
are enough, for the budget one event that fits and one that does not. A remembered
cancellation is forgotten as soon as there is a second one, so `CanceledLimit` is 1. The budgets of
`rpc_peer` are the smallest that `RpcAssumption` allows; with a queue of 3 or 6 bytes
`PoliteNeverStopped` fails. Between
the admission of a plugin's request and its execution one command of others is enough to make
its check stale. On a connection the handlers run one at a time, so that what meets is one
plugin call that has left the handler, one request behind it and the end of the connection or of
the daemon. `FrontendView` has also been checked, on its own, with 3 commands and 1 of others and with 2 and
2, and `PaneInput` with 4 inputs.

CHECK_DEADLOCK is FALSE where the system really stops: when the last daemon has
exited, when the host is closed and its plugin cleaned up, when a plugin's request has been
answered, when the connections are closed, and where the bounds of commands and inputs end a
behaviour of the frontend or of `CoreObjects`. `TerminalLifecycle` says
in `Stopped`, `ExternalPlugins` in `Closed`, `RpcPeer` in `Closed` where it stops, and every
other state without a successor would be reported.

The state machine of `plugin_host` has a bound on the number of callback goroutines
(`Callbacks`); only while the host closes can it be reached, and then the loop is
still free to see that its context is over.

## Fairness

`FairPersistenceSpec` is weakly fair for each goroutine of a daemon: the Go scheduler
runs what can run, a timer fires, a lock that is free is given to the one waiting
writer. Nothing is assumed of clients, of failing writes, of signals or of the start of
a daemon. `FairPluginSpec` is weakly fair for the plugin's loop and strongly fair for
its two ways out of `select`, because Go chooses at random among ready channels. A
callback is never assumed to return; a started terminal event is queued.
`FairTerminalSpec` is weakly fair for the steps of an operation that has `terminalMu`, and
strongly fair for taking it, for operations and for `managerLoop`: a `sync.Mutex` hands
itself over to a goroutine that has waited for a millisecond. The manager retains
what has exited. Nothing is assumed of processes, of clients or of cancelled requests.
`FairExternalSpec` is weakly fair for the goroutines of the manager and of a session, for
the end of an API call (each has the deadline `api_ms`) and for the exit of a process that
has been killed. Users are never assumed to answer, nor plugins to do anything; that
`initialize` and `shutdown` end is due to their own deadlines.
`ConnectionFairness` is weakly fair for `InternalStep` as a whole: goroutines, handlers, the
reader of a client and the deadline of a plugin command (`ExpireRun`). It says only that the
system does not rest while a step of its own is possible; no such step can be repeated for ever,
so every one is taken. Users who answer, cancel or disconnect, plugins and editors are not in it.
`DialogueFairness` is weakly fair for the cases of the frontend's loop: `select` chooses at random
among ready channels, the ticker that polls a dialogue never stops, and the call that opens an
editor ends by its deadline. The answers of users are not in it.

## Known exceptions

Where the code does less than a property could ask, the property says so, and the exception
is listed here. The first four were found as counterexamples of TLC.

1. `window_created` (apply_event.go:25) leaves the window out of its workspace's list,
   so the validation at the end of `ApplyEvent` rejects the event for everyone who
   projects it. `ProjectionFaithful` excepts queues that hold such an event. The loop of the text frontend
   returns the error (run.go:335-338) and the frontend ends; `relayEvents` fails the peer of every external
   plugin (events.go:126-130), where docs/plugin-protocol-v1.md:194 announces every change of what
   a plugin may see. The run `plugin_events` shows the latter. `ChangesAreAnnounced` says that no
   other command ends the relay; `SettledView` is about a frontend that has applied every event, and so about one whose loop has not ended.
2. `persistLoop` (server.go:327) takes a snapshot and schedules it in two steps; the
   newer snapshot that `daemon_stop` schedules in between is overwritten, and the
   response promises durability (terminal.go:415). Close repairs it unless the process dies first.
3. The cleanup of a disabled plugin (host.go:225) does not take its label gate: one
   write in flight may land after it. `CleanedUp` says how far this goes.
4. `DaemonStop` (terminal.go:402) counts the active terminals and sets `stopping` while
   operations admitted earlier wait for `terminalMu`, and plugins pass no gate: such a
   start succeeds after the check, and the daemon ends its process without `--force`.

Core. `NothingUnsaved` is checked with `WaitForExit`: `Close` flushes long after the listener is
closed (server.go:577), and a replacement started in between can be overwritten. The weight
2^32-1 wraps when it has to be halved to make room (model.go, `splitWeightsForInsertion`): its child
then counts as one of weight 1, which no test covers. A split in the direction of its parent keeps the
ratio of the shares, as core_test.go:149 expects ([3 1] becomes [3 3 2]), while 実装計画.md:84 says that
it gives all siblings equal shares; `SharesKept` states the rule of the code and the test. A tool
instance that is closed and created again starts at generation 1, and the copy of a frontend may show a generation that lags behind. The hint of a stashed pane is the first leaf of its
sibling, so that it comes back elsewhere when its sibling is a split.

Terminals. `LabelsTruthful` excepts labels that a cancelled restart or a refused run has removed
(terminal.go:88); `StartsSettle` a failure of a start that Core refused to record because the state
would grow beyond its limit, which leaves the pane starting (terminal.go:161); a refused exit stops
the daemon (server.go:424) and is another value of `down` than the one `SessionsOwned` excludes.

Plugins. `OneCallbackAtATime` ends when the host closes, since a callback cancelled
then is not waited for (host.go:379). `RegistryResolvable` does not hold after a save in which only the
sync of the directory failed (registry.go:115): the file has been replaced although `Manage`
reports an error and removes the new package. A dialogue that ends just before its frontend
detaches is still notified after it (interactions.go:51): `SlotsReleased` speaks of the slot,
not of the notification. A frontend.interact that comes as a notification keeps its slot until the
frontend detaches (rpc.go:382). A notification whose handler fails stops the peer (rpc.go:382-386): the model
counts that as the host's failure, not as the plugin's. The bytes of a message are released only after its
response has been queued, so that the plugin may have the response while they are still
charged: `RpcAssumption` leaves room for one message of the largest size more than the window, and a plugin that
fills the budget of 16 MiB with messages of 8 MiB can be stopped by it. The deferred releases
of the count, the bytes and the identifier are one step of the model, at the last of them; a plugin that uses
an identifier again before that is stopped, and the model counts it as impolite. An event about a tool
is judged by the pane of the command, while the state of the tool is shown when all its panes are
(plugin-protocol-v1.md:194).

Connections. A connection that closes between `Store` and `Attach` leaves its link in the table
of the daemon. A plugin command may be captured just after its frontend has detached; the end of the
command releases it. A cancellation passes the command gate like any request and is refused once
`daemon_stop` has begun, which then waits up to `interaction_ms`. A navigation that was withdrawn may
still be applied, and the result of a dialogue may follow the detachment. The limits on calls,
bytes and dialogues of a connection, and duplicate identifiers, are not modelled.

Text frontend. Commands issued while a stashed pane is previewed keep the preview on the screen
while the focus moves under it, so `KeysOnScreen` is about the time without a preview. When the last pane leaves
the window that is shown, `preferredFocus` takes the panes of the previous layout (run.go:698-703), and the
focus may be a pane of another window until the next relayout: nothing is shown, a split is refused
by `canSplit`, and a command on the focused pane, such as a move, applies to that pane. `SettledView`
allows such a focus in a window without panes, as long as the pane exists. Escape in a
prompt, while a plugin's editor runs, cancels the editor and leaves the prompt open. Clipboard questions that
wait during a plugin's dialogue are resumed by the next prompt, not by the cancellation. An event
older than the answer of editor.open ends the preview and so the editor; an editor's pane that is
created and closed between two polls is never seen, and its dialogue ends with its deadline. A
navigation that waits for its revision holds up the later ones. A release of a mouse button that
the full queue refuses, or whose view is detached, is lost; the second of two pressed buttons is not
released with the first. The start of a paste that arrives in fragments more than 50 ms apart is
typed as keys.

## Proofs

`CoreStateProofs` proves for all values of the constants that satisfy
`CoreAssumption`: `TypeCorrect`, `HierarchyHolds`, `FocusStaysOnScreen`,
`IdentifiersAreFresh`, each from `InvariantHolds`, which says that `IInv` is an invariant
of `Spec`.

Why an inductive invariant is needed: `Hierarchy` says that a window is listed by
exactly one workspace and a pane is a leaf of exactly one layout. That a command keeps
it depends on more than it says: the lists have no duplicates (`OrderInv`,
`WindowInv`, `LayoutInv`), everything that exists was allocated below the counters, what
does not exist has neither leaves nor hints, and, the heart of the matter, a pane that is
stashed alone comes from a window that is not stashed (`StashInv`), which the guard of
`stashWindow` and that of `stashPane` establish for each other. `FocusOnScreen` is part
of it because `restoreWindow` trusts the workspace a frontend looks at.

`IdentifiersAreFresh` follows from it and from three facts about a step: the counters do not fall (`CountersGrow`),
what exists was given (`ExistingGiven`), and what is spent, given and gone, is never given again.

The proof has one lemma per command (`CreateWorkspaceStep` ... `ReloadStep`) with one
step per part of the invariant, frame lemmas for the parts a command does not touch, and
the lemmas about `IdentifierLists`: what removal and insertion do to the set of a
list and to its being free of duplicates. `Commit` is not used: the hierarchy holds even
without the validator. Distinct names need it: `createWindow` and `renameWindow` compare a name with
visible windows only, so that a command may produce names that the validator then rejects.
`RestartIsAccepted` says what the two give together, `RestartAccepts` whenever `Validated`; the file
may leave the transient panes out because `LayoutInv` keeps them in the stash. The steps of
`CoreObjects` are steps of `CoreState` on the leaves by `TreesImplementLists` (below), and those of
`EventStream` by `StreamImplementsCore`: publishing, evicting, reading and applying are steps of
Core or stuttering.

The same module proves `NothingMissedSilently` of `EventStream`: `NoSilentGap` for any number of frontends,
any capacity of the queues, any commands and any validation of snapshots. The property alone is not
inductive: a new subscription must find an empty queue, so the queue of a frontend that does not
subscribe is empty, and a copy must have a revision for `ApplyEvent` to set. `GapInv` adds both.
There is one lemma per action; `MutatePublishes` says that every command publishes exactly one
event, `EventRevision` that it carries the next revision, `ProjectRevision` that applying it gives the
copy that revision. The revision check of `ApplyEvent` is not used: the events arrive in order.

`CopiesStayFaithful` proves `ProjectionFaithful` in three parts. `Updated` takes exactly what the command
changed: the event of a command applied to the snapshot before it is the snapshot after it, and
`Valid` accepts that (one lemma per kind of command; after `window_created` the window is in no
workspace's list and not stashed, so that `EveryWindowPlaced` rejects it: the exception of the property). From this, `FaithInv`: from the copy of a
subscriber to Core there is a chain of snapshots, each leading to the next by the event between them (`Link`,
`Leads`). And `Projected`, the recursion the property is stated with, follows such a chain: the
first place where it would leave it has none before it.

`StashStaysRecoverable` proves `StashRecoverable`: what `restorePaneDestination` proposes for a stashed pane
passes every check of `restorePane`, while any window is visible: the hint is taken only when its window and
its target are there, and otherwise the first workspace that lists a window has one to fall back on.

Of `PluginAPI` it proves `PluginsStayWithinGrants`, for any sets of grants, any request and any number of
commands, editors and restarts of others between its admission and its execution. The heart is
`DoWithinReach`: what a command changes (`Changed`, a comparison of two states) is what the request names
and what the broker finds by looking at the layout in the turn that executes it (`Reached`). It has
one step per kind of command and rests on `IInv`: new identifiers are not those of anything that exists, and
a window that is hidden or shown changes only panes whose window it is. `RequestInv` adds that the request
keeps the needs and the terminal it was admitted with. The model assumes room for the two workspaces,
windows and panes it starts with (`APIAssumption`).

`StateProofs`, of `Persistence`: `NothingUnsaved`, for any number of mutations, failing writes and daemons. The
newest state is in one of a chain of places, an event that is pending, the snapshot that
`persistLoop` holds, the Store, its writer or the file; `Newest` and `RunInv` say in which,
`CloseInv` that from the Schedule of `Close` on it is in the Store or written with a sync. This
needs who may hold the gate (`GateInv`), how far a stop has got (`StopInv`), for whom the writer
writes (`WriterInv`), and, with `WaitForExit`, that no other daemon writes the file (`AloneInv`).
Without `WaitForExit` only the control part holds.

`StateProofs`, of `CoreObjects`: `StateAccepted`, `CopyFaithful`, `UpdatesSeeLatest` and
`StructureRefined`, for any number of panes, splits, labels, attentions, tools and clients. The
assumption is `LayoutLaws`: on the leaves the operations on a tree are those on lists, and no split
identifier appears but an allocated one. It is about recursive operators and so not proved, but checked by TLC
for every tree of three panes with two splits. None of the properties is inductive: `ObjectsInv` adds that
the hint of a stashed pane names a split below the counter and never the pane itself, so that a
restore may use the split again exactly when no tree has it (`SplitsStayApart`); that labels and
attentions are distinct by their keys and point at what exists (`LabelInv`, `Indexed`); that a tool lives as
long as a pane shows it (`ToolInv`); that the copy agrees field by field (`CopyInv`) and lags behind only in
generations (`CopyLag`); and that what a client has read is the state of its generation (`DraftInv`).
One lemma per kind of event says what `ApplyEvent` changes of a snapshot (`PaneCreatedFields`, ...) and one
per command that this is what the command has changed (`MovePaneCopy`, ...): a forgotten bump of a counter, or
a tree of the source window left as it was, would show here. At most one attention has to be evicted at a
time, and there is one that goes before all others (`EvictedFacts`). `TreesImplementLists` has one lemma per
command (`MovePaneRefined`, `RestoreHintedRefined`, ...); the hint that `paneStashHint` finds in a tree is
one of the `Neighbours` of `CoreState`, and the place where a hinted pane comes back is `HintedPlacement`.

`PluginHostProofs`: `BudgetExact` and `GivenUpHarmless`, for any number of callbacks, events and
writes. The charged bytes are a sum over the queue, so that the proof needs what `Append` and `Tail` do to a
sum. `CallbackInv` is what makes callbacks exclude each other: a callback that is running is the
one the loop waits for, or the loop is on its way out; `CleanupInv` that nobody enters the label gate
once the plugin is disabled, so that only its holder may still write.

`TerminalProofs`: `SessionsOwned` and `ExitsTruthful`, for any panes, sessions, operations and faults.
`OwnerInv` and `GhostInv` look at the same relation from the two sides: a live process has its pane or an
operation about to give it one; an active pane has its process or an exit in the queue. Both need
what the holder of `terminalMu` knows (`StepInv`), that the events of a session come in order and once
(`QueueInv`), and that no two panes name the same session (`TermInv`).

`RpcPeerProofs`: `PoliteNeverStopped` and `BooksExact`, for any calls, messages, sizes and
capacities that satisfy `RpcAssumption`. The heart is `AskInv`: a polite plugin knows a call as soon as the writer has sent it, so
that its answer finds the call in the table of pending or of cancelled calls; and `RequestInv`, which bounds the
requests in progress by what the plugin may have open, so that neither a queue, nor the count, nor the byte
budget is exceeded: what is charged is open, or a dialogue, or the one message that is handled and not released
(`OpenInv`). The bytes of a set of messages are the number of pairs of a message and a place in it, so
that adding, removing and comparing them are facts about cardinalities (`BytesOfUnion`, `BytesChange`).

`ExternalProofs`: `SessionsApart`, `RegistryResolvable` and `GrantsCurrent`, for any number of sessions,
packages and dialogues. `SessionInv` says who may still act: an active session, or one with a process, is
that of `Manager.sessions` or the one the operation in progress is stopping, so that a session that waits for
its gate finds no successor and removes its labels (`LockGateStep`). `OperationInv` says that
`Manager.sessions` is empty from stop to start, and with it that grants change when nobody has the old ones;
`RegistryInv` how far registry.json may be ahead of the records, and that the package a Manage removes
is not the one the new entry names.

`ConnectionProofs`: `ProjectionInStep` and `NothingLeftBehind`, for any clients, requests and
mutations. `StreamInv` says that the events of a subscription go on, without a gap, from what the client
will have when it has read its frames, or from the snapshot that `sync` has still to answer with
(`Reaches`, `Follows`), and that they end at Core's revision; five lemmas (`SendEvent`,
`SendSnapshot`, `ReadProjection`, ...) say what one frame more or less does to that. `EditorInv` names
for every editor who will clean it up: the call that starts it, Close before it takes the
subscription, Detach while it collects, or the call that has claimed it. It rests on `CallInv`: a call
that still runs for a closing connection had a subscription, so that Close does not skip Detach. That
the link is checked again in `KeepEditor` is not needed once the ended context is.

`FrontendProofs`: the three parts of the frontend, which share no variable, each by its own invariant.
`ViewInv` proves `KeysOnScreen` and `SettledView`. Both are inductive with what events and panes
may be: every state on its way knows only panes that Core has created, the last one is Core's
own, and what is on the screen is in the layout of the window (`Placing`). `DialogueInv` proves `AnswersMatched`: its parts say that nothing is twice in a queue
(`QueuesApart`), that what is active is asked by its editor or on the screen and nowhere else (`Places`), and
that `asked` is what was answered and what waits (`Books`). `InputInv` proves `InputInOrder` and `ButtonsReleased`:
the numbers in the flow of a pane grow, stay below what was typed, a paste that is collected having the
last one, and a pane that is owed a release and has lost nothing is that of a pressed gesture.

Two arguments recur. What a step does to a queue is stated once, for sequences of any set (`PutLast`,
`TakeHead`, `TakeFirst`, `Spliced`), and cited by the actions. Sums over a queue and the first element that
satisfies a condition are recursive functions or choices; since induction is out of the provers' reach, they
are reasoned about by a least counterexample (`LeastNumber`), which exists in every set of natural numbers.

Every inductive invariant has been checked by TLC on the constants of the run of its module. The proofs
led to eight changes of the models. `FrontendDialogues` derived who had asked from the places where
requests are, so that a lost one was not seen; it is now remembered in `asked`. `FrontendView` and
`PaneInput` assume what their first states are taken from, and that panes are numbered from 1.
`Connection` names the operations its requests may have, and `ProjectionInStep` says also what a client
has that has read everything. `PluginAPI` assumes room for what it starts with. `EventStream` states `Projected` as a
recursive function and what an event updates by one operator (`Updated`); `StashRecoverable` names the guards of
`restorePane` (`CanRestore`) where it was ENABLED before.
`CoreObjects` has the operations on trees as parameters and states what it needs of them, and `IndexesExact`
speaks of each attention, not only of each key.

Only model-checked: `ChangesAreAnnounced` (what a plugin is shown is a list filtered by recursion), `LayoutLaws`
and `LayoutKept` (trees are recursive, and induction over them is beyond the provers), and all
liveness properties, which are beyond TLAPS.

## Not modelled

Rendering, key tables, copy mode, the terminal emulator and its binding, the CUI and the C#
program, configuration parsing, the streams of terminals to their clients and the platform layer:
presentation, I/O or sequential code. The encoding of the state file is abstracted to what `Decode`
accepts, requests and events to what they change. `Listen` appears by its outcome: two
daemons that start at the same moment may both take a stale socket over (listener.go:153), which
depends on the file system and has no property here. Of Core, limits on the size of
names, values and the whole state; of the terminals, listing and attachments; of the external
plugins, views, manifests and the queues of observed events.

## Plan

1. Done: `CoreState` with its proofs, `EventStream`, `Persistence`, `PluginHost`,
   `TerminalLifecycle`, `ExternalPlugins`; `RpcPeer`, `PluginAPI`, `LayoutTrees` and
   `CoreObjects` with their refinement, `Connection`, and the text frontend.
2. Proofs, done: `CoreState`, `EventStream`, `Persistence`, `PluginHost`, `TerminalLifecycle`, `RpcPeer`,
   `ExternalPlugins`, `PluginAPI`, `Connection`, the text frontend, and `CoreObjects` with its refinement
   of `CoreState`. Left: the laws of layouts for trees of any size, with a prover that has induction.
