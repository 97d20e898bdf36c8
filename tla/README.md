# A TLA+ verification of plaklet

plaklet is a single-shot executor: a driver starts it, writes one `ExecPayload` to
its stdin, and reads a stream of `ExecReply` objects from its stdout. The process
runs one operation (backup, check, restore, sync, create, rm, test, inventory) on
kloset stores and connectors and exits. This directory holds TLA+ models of it, the
TLC configurations that check them, and TLAPS proofs of the main results.
`PROJECT.json` ties every definition to the lines it models, every run to its
properties, and every property to a mutation of the code that breaks it.

Run from this directory:

    tlc -workers 2 -config MCRm.cfg MCRm      # any run of the table below
    tlapm RmProofs.tla                        # any *Proofs module

## Inventory

| Part | State | Operations | Hard behaviour | What makes it correct |
|---|---|---|---|---|
| executor (`plaklet.go`, `protocol.go`) | position in `Main`, `stateStop`, the wait group, stdout under `sendMu`, the context | `Main`, `StateSampler`, `CancelOnSignal`, `dispatch`, `terminalError` | four goroutines write or feed one stream; shutdown order; signals at any time | stdout is a well-formed reply stream; no false success; every returned operation is answered; a caught signal ends the run |
| event listener, live State (`listener.go`, `state.go`) | `State`, the bus channel, `done` | `Run`, `handleEvent`, `updateState`, `State`, `Wait` | events of concurrent workers in any order; the cap of `RecentPaths` | counters and recent paths are those of the event history |
| sample buffers (`resources.go`, `network.go`, `latency.go`) | samples, stride, tick | `sample`, `record`, `decimate` | off-by-one at the limit, alignment after repeated decimation | bounded, one resolution, spanning the whole run |
| rm (`rm.go`) | channels `rmq` and `removed`, two wait groups, the error counter, the report | `rm`, `parseSnapshotIDs` | worker pool, channel closing order, slices of loop variables | each id decided once, truthful report, no panic, no deadlock |
| inventory (`inventory.go`) | channels `entries` and `done`, a cancellable context | `listInventory`, `streamEntries` | rendezvous with an external provider that may ignore its context | complete and ordered, or failed for the right reason; always ends |
| store operations (`create`, `backup`, `check`, `restore`, `sync`, `test`), connectors (`kloset.go`) | open connectors and snapshots, deferred closes, error counts; the stores on disk | the operations, `mkstorage`, `openrepo`, `ensureClose` | failure at any step, errors inside a loop, killed processes and retries | closes in order, nothing leaks that there is code to close, a success covers what was asked |
| several plaklets on one store (`sync.go`, `backup.go`, `rm.go`) | the stores, and each process's view of them, taken when it opened them | sync, commit, rm | stale listings; a removal or a copy meanwhile; kills and restarts | a clean sync covers its selection; a snapshot is copied twice only after a race |
| snapshot selection (`locate.go`, `restore.go`) | none: task config to filters | `locateOptions`, `indexedList`, the windows | two namespaces of keys, malformed values, lists with holes, 64-bit windows | the selection is what was asked |
| plugin registry (`pkgplugin.go`, `plugin/registry.go`, `kloset.go`) | the plugin registry, kloset's storage registry | load and unload hooks, `mkstorage`, `mkimporter`, ... | packages that share a protocol or a name, repeated loading | a connector runs the executable it was configured for |
| plugin processes (`plugin/plugin.go`, `plugin/*.go`, `ensureClose`) | processes, pipes, the close delay | `Connect`, init, close | a plugin that dies or hangs at any time; a close after a cancellation | no process left behind; closed before it is cut off; every close ends |
| prune, maintenance | none | both return `ErrUnsupported` | none | results in `Main` |
| reports, logging | none | none | none | not modelled: data shapes and output |

The parts interact as follows. `Main` starts the listener, then the sampler and the
signal handler, and calls the operation through `dispatch`. The operation emits events on
kloset's bus, which the listener folds into the State; the sampler reads copies of it
and feeds the sample buffers; the verdict on a restore reads it once the bus is
drained. Operations, the sampler and the signal handler all write replies through the
same `send`. Stores are the only state that outlives a process.

## Modules

| Module | Models | Correspondence |
|---|---|---|
| `ReplyStream` | the promise made to the driver (src/README.md, "Protocol") | abstract: one variable, the replies on stdout |
| `State` | `updateState`, `RecentPaths`, `processed` | pure operators; an event `file.ok` is `[type \|-> "entry", kind \|-> "file", outcome \|-> "ok", ...]`; sizes are signed and their sums unsigned, modulo `Word` |
| `Listener` | the listener on its own, with the history of events | `handleEvent` and `State()` are one action each: both hold `l.mu` |
| `Main` | `Main`, `StateSampler`, `CancelOnSignal`, the listener goroutine | `pc`, `lpc`, `spc`, `cpc` are the positions of the four goroutines. A reply is one step because `send` holds `sendMu`. The operation emits events, sends messages and returns one of `Results(op)` |
| `Samplers` | the three buffers and when each takes a reading | `emit` is one action that offers a reading to all three |
| `Rm` | `rm` | the caller, `MaxConcurrency` workers and the reporter. `heap` holds the loop variables of the workers, because the report keeps slices of them until it is marshalled |
| `Inventory` | `listInventory`, `streamEntries` | the caller inside `List` and the sending goroutine; the provider is external |
| `Operations` | create, backup, check, restore, sync, test over persistent stores | the code of an operation is a sequence of steps (`BackupCode`, ...). `defers` is Go's defer stack, `inner` holds the closes of one loop iteration and `repos` the repositories still open |
| `RemoveEach` | what `rm` promises, without its pool | abstract: ids are taken one at a time. `Rm` has the refinement mapping: an id is pending until a worker's delete has decided on it |
| `InventoryRun` | an inventory run end to end | extends `Inventory` and instantiates `Main` around it, in place of the free choice `Main` makes for an operation; both write the same `replies` |
| `SharedStores` | syncs, backups and rms of several processes on two stores | one step per access to a store; `seen` and `arrived` are history variables. kloset's locks are left out: a maintenance lock makes calls fail (`ops_test.go:95-101`, `241-246`), and every call may fail here |
| `Locate` | `locateOptions`, what restore adds, and kloset's matching (external) | a configuration is five maps, one for each conversion its values go through; integers wrap in the range `-Half..Half - 1` |
| `Registry` | hooks, both registries, connector resolution | a key is the concatenation the code makes; of two registrations under one key the first wins (`registry.go:95-101`) |
| `PluginConn` | the plugins of one operation, from spawn to exit | `n` counts the deferred closes; the pipe and the plugin are external |
| `RmProofs`, `SamplersProofs`, `MainProofs`, `InventoryProofs`, `OperationsProofs`, `ListenerProofs`, `ConnectorProofs`, `SnapshotProofs` | | theorems |
| `MC*` | | constants for TLC |

`Main` is composed with `State` (the listener's fold) and refines `ReplyStream`. `Rm`,
`Inventory` and `Operations` open up what `Main` treats as one dispatched operation;
`InventoryRun` puts one of them back in and refines `Main`. `Locate`, `Registry`
and `PluginConn` open up steps of `Operations` (locating, acquiring, closing), and
`SharedStores` repeats its sync step by step against other processes.

External code is modelled from its use. Calls into kloset and the connectors succeed
or fail freely. A failed commit or synchronization may or may not have written the
snapshot, because the state refresher runs inside it. A failed `DeleteSnapshot` may or may not have
deleted the snapshot, and on an id that is not there it may do either. kloset's emitters and its
bus are modelled from what `listener.go:39-42` and `plaklet.go:139-141` say of them. `store.Create` refuses a location that has a store
(`ops_test.go:174`). A plugin answers, hangs or dies freely, and exits when it has read the
end of its input: closing a connection waits for that. A provider that ends
early returns an error. Signals kill the process before `signal.Notify` and are dropped
when the channel is full.

## Runs

| Run | Checks | Bounds |
|---|---|---|
| `rm_pool` | `Accounted`, `ReportMatchesStore`, `NoSendOnClosedChannel`, `StoreOutlivesPool`, `Termination`, `RefinesRemoveEach` | 2 workers, lists of up to 3 ids out of 2 and a malformed one: duplicates, a full queue, and a worker that takes two ids all occur |
| `sample_buffers` | `EvenlySpaced`, `SpansRun` | capacity 4, 12 ticks and the final sample: two decimations, with readings missing anywhere |
| `event_listener` | `RecentPathsMatchHistory`, `LivePathsShown`, `FoldMatchesHistory`, `ReadoutRuns` | either 5 path events of 3 paths with a cap of 2, in any order, or 3 events out of 26 covering every event family, with 2 reads of the State in between; a word of 4 and a negative size, so that sums wrap |
| `executor` | `NoFalseSuccess`, `ExitMeansAnswered`, `RefinesReplyStream`, `Answered`, `SignalEndsRun` | bus of 1, 2 events, 1 tick and the final sample, 1 message, 2 signals, one operation of each kind of result |
| `store_jobs` | `ClosedBeforeWhatItNeeds`, `NothingLeaks`, `SuccessIsTotal`, `NoRetransfer` | 2 locations, 2 passphrases, 2 snapshots, 2 jobs from any stores earlier jobs may have left |
| `inventory_run` | `StreamIsPrefix`, `SuccessIsComplete`, `EncodeErrorWins`, `DriverImportsWhole`, `ImplementsMain`, `RunAnswered` | 3 entries, any of them unencodable: entries before, between and after bad ones, and one in flight when List returns; 1 tick and the final sample, 1 signal |
| `shared_stores` | `SyncCovers`, `RetransferOnlyIfRaced` | 2 syncs and any number of commits and removals over 2 snapshots; the processes restart without a bound |
| `snapshot_selection` | `SelectionIsWhatWasAsked`, `RestoresTheOneAsked` | 2 operations over stores of up to 3 snapshots; 8-bit integers and seconds of 10 units, so that windows of 12 seconds fit and those of 13 do not |
| `plugin_connections` | `NoOrphan`, `CloseBeforeCut`, `ClosesEnd`, `CancelEnds` | 3 connectors, one more than any operation opens |
| `plugin_resolution` | `ConnectsAsConfigured`, `StorageNewSound` | 4 packages: two versions of one, another with the same protocol, an inventory with two protocols |
| `created_store_opens` | `CreatedStoreOpens` is violated | see Findings |
| `documented_keys` | `DocumentedKeysSelect` is violated | see Findings |

`rm_pool`, `sample_buffers` and `executor` also check the type invariants their proofs start from.

The refinements say more than the invariants beside them. `RefinesRemoveEach`: under
every interleaving of the pool the store and the answer change as in a sequential
rm. `ImplementsMain` is `Main`'s whole specification, fairness included: what was
checked and proved of `Main` for an arbitrary operation holds with the real
inventory in its place, and the assumption that a cancelled operation returns is
discharged from the assumptions on the provider.

`store_jobs` uses symmetry in locations and snapshot ids, which the model only
compares. Two jobs are enough for a retry or a create followed by a use, because the initial
states are all the disks that earlier jobs can leave. `shared_stores` uses symmetry in
processes and ids; its invariants are proved for any number of both. `snapshot_selection` scales the
integers down; the code only adds, multiplies and compares them, so wrapping occurs at
the same multiples.

### Fairness

- `Rm`: each goroutine runs when it can, and `DeleteSnapshot` returns.
- `Main`: `Main`, the listener, the sampler's shutdown and the signal handler run when they can;
  an operation pushes the event it has when the bus has room. It is assumed to
  return only once its context is cancelled: an operation may run for ever.
  So `Answered` starts where the operation has returned, and `SignalEndsRun`
  says that the cancellation reaches it. Ticks and signals are not assumed to happen.
- `InventoryRun`: that of `Main` without the assumption on the operation. Instead, the
  caller and the goroutine of `streamEntries` run when they can, and a provider pushes
  while somebody receives and returns when it has nothing left. It is not assumed to react to
  the cancellation of its context; the drain loop exists for that provider.
- `PluginConn`: the operation runs when it can, the close delay passes, and a plugin
  exits after the end of its input. A signal is not assumed to arrive, and a hung
  plugin is not assumed to answer. A plugin that ignores the end of its input would
  block the close, with or without the delay; that is outside the model.

`Samplers`, `Listener`, `Operations`, `SharedStores`, `Locate` and `Registry` have no liveness properties. Deadlock is
checked in every run; states in which the process has ended stutter explicitly.

## Findings

1. `created_store_opens`: `create` with `no_encryption` and a passphrase field makes an
   unencrypted store, and every later operation on the same connector dereferences the
   nil `Encryption` in `openrepo` and panics (`create.go:51`, `kloset.go:124-125`). The
   driver gets no terminal reply.
2. `documented_keys`: src/README.md:62-63 documents the keys `snapshot` and `tags`;
   `locateOptions` reads `snapshot_id` and `labels.N`. A sync that names a snapshot by
   the documented key copies all of them.
3. `sample_buffers`, `EvenlySpaced`: the comments at `state.go:129-132`, `139-142`, `158-160` and
   `resources.go:16-17` say that samples are not uniformly spaced because older history is
   decimated. `decimate` halves the whole buffer and doubles the stride of what follows, so
   samples are always one stride of readings apart. Gaps in time differ only where a reading
   failed or was not taken, and at the final sample: placing samples by `At`, as the
   comments ask, is right all the same.
4. `snapshot_selection`, `RestoresTheOneAsked`: src/README.md:63-64 says that `restore` "requires
   exactly one match". The code exports the newest of several (`restore.go:40-42`).
5. `snapshot_selection`, `RestoresTheOneAsked`: `restore.go:14-16` says "an explicit `snapshot_id`
   in the task config, otherwise the latest match". With a single `locate.filter.ids.0` that is a prefix of
   several ids the code fails instead (`restore.go:40`, `51-53`).
6. `event_listener`, `LivePathsShown`: `state.go:149-150` says "in-progress paths first, then the
   most recently settled ones". A path in progress that the cap has pushed out does not come
   back when others settle, and settled paths are shown in its place (`listener.go:313-349`).

In findings 3 to 6 the property states what the code does and the run confirms it, against the text
quoted.

Four limits of what the code promises appear as conditions of the properties:

- `SelectionIsWhatWasAsked` is restricted to windows that fit. `before` and `after` accept
  any `uint64` of seconds, and beyond some 292 years the conversion to nanoseconds
  wraps silently (`locate.go:108-114`): a large `after` lands in the future and
  selects nothing.
- `StorageNewSound` says what storage.New runs, not that it finds every loaded protocol:
  unregistering goes by protocol (`pkgplugin.go:54`), so that unloading one of two packages
  with the same storage protocol takes it away from the other.
- `NothingLeaks` is about connectors, snapshots and caches. Of the repositories, `test` closes its own
  (`test.go:38`); `backup.go:41`, `check.go:27`, `restore.go:34`, `sync.go:28`, `39` and `rm.go:59` have no
  close for theirs, which stay open until the process exits, beyond the close of the store under
  them. The property says that exactly these are left. What `Repository.Close` would still do for
  them is kloset's.
- `ReadoutRuns` holds from the first file that is done. Until then the readout is the total
  of the scan summary, so that it drops when the first file is done.

## Proofs

All proofs hold for every value of the constants, under the named assumptions:

- `MaxConcurrency`, `BusCap`, `maxRecentPaths` and `N` positive; `MaxSamples` even and positive
  as in `state.go:124-126`;
- a malformed id is no id; the set of snapshot ids is finite; a passphrase is neither empty nor
  one of the two words that stand for no store and for an unencrypted one;
- entry events have the kinds and outcomes that `updateState` has cases for; sizes are integers, the
  word is positive, and the files of a scan summary are natural numbers;
- there is one package for each name and version, and neither contains the `:` that separates the
  parts of a key: with one, two different plugins could have the same key;
- the snapshots a store starts with are finitely many, of different commit times, none after the
  clock of the first operation: of two with the same time neither is the newest;
- the keys of a list in a configuration are finitely many numbers, and a time is
  a number or malformed.

`InventoryRun` also assumes that the bound on the messages of `Main` leaves room for all
entries: a bound of the model, not of the code.

- **`RmProofs`.** `TypeCorrect`, `AccountedFor`, `ChannelSafe`, `StoreClosedLast`,
  `ReportTruthful`, `Refinement`. `Accounted` speaks of the totals of the returned
  report only. The inductive
  invariant follows each id: what was fed is in the queue or in a loop variable
  (`Queued`); every loop variable is reported, counted as an error, in the reporter's
  hand or held by a busy worker (`Counted`, with the cardinality of the busy
  workers); and the phase of the caller fixes which goroutines exist (`Control`). The
  agreement with the store needs a second invariant, that a removed snapshot is in the
  report or on its way there, or else one of the errors counted (`GoneUnlisted`: there are no
  more of these than errors), and that what is on its way is removed. `Refinement` is
  `RefinesRemoveEach`: the mapping counts occurrences of an id in the list, in the queue, in
  the workers' hands and in the report, and each step of the pool moves one occurrence
  from one count to the next. A delete moves it from pending to removed; the others
  move it within the one or the other.
- **`SamplersProofs`.** `Spacing`, `Coverage`, `TypeCorrect`. A buffer and the readings it
  was offered are related by `Faithful`: sample *i* is reading 1 + (*i* - 1) * stride,
  and the number of readings is fixed by the length, the stride and the tick. An even capacity is
  what keeps the newest sample through a decimation.
- **`MainProofs`.** `TypeCorrect`, `Refinement`, `SuccessIsTrue`, `ExitAnswers`. For the
  refinement of `ReplyStream` the invariant says that the sampler and the signal handler are
  gone after `wg.Wait` (`Joined`), and that no report or terminal reply was written before
  the step of `Main` that writes it (`Unanswered`). `SuccessIsTrue` is `NoFalseSuccess`: an
  entry error that was emitted is counted in the State, in the bus or being pushed
  (`Followed`), the listener has emptied the bus when the verdict is taken (`Drained`),
  and the verdict stands until it is sent (`Judged`).
- **`InventoryProofs`.** `NoHoles`, `NoShortSuccess`, `CauseReported`, `TypeCorrect`; and of
  the whole run `RunsInventory`, `ImportsWhole`, `RunsMain`. Every entry the provider pushed is in the
  stream, in the goroutine's hand or behind the encoding error that was reported
  (`Placed`, `Reported`), with the points of the two goroutines tied to the state of the
  channels (`Phases`). A run is a behaviour of `Inventory` and of `Main`: for the latter,
  the inventory is called when `Main` dispatches it (`Called`), it is silent
  once it has returned (`Quiet`), and the driver has received its stream
  (`Received`). `RunsMain` is the safety part of `ImplementsMain`, and carries the
  theorems of `MainProofs` over to the run.
- **`OperationsProofs`.** `TypeCorrect`, `ClosedInOrder`, `NothingIsLeaked`, `SuccessCoversAll`,
  `NothingTransferredTwice`, for any locations, passphrases, snapshots and jobs. The code left
  to run is always a suffix of the operation's code (`Control`), so the number of steps
  left is the program counter, and two tables say for every operation what it holds
  at each point outside and inside its loop (`Held`, `HeldInside`). `Frames` says that the open resources are
  those of the two stacks of deferred closes, that these have no duplicates, and that
  each resource lies above the ones it needs. `Repositories` gives, by the same count of steps, the
  repositories open at each point. `Achieved` says, milestone by milestone,
  what the steps behind the present one have established: the store created, the
  snapshot committed, the stores opened under their passphrase, every snapshot taken from the
  loop so far checked, restored or copied unless an error was counted.
- **`ListenerProofs`.** `FoldIsHistory`, with its parts `CountsAreHistory` and `ReadingsAreLatest`;
  `ReadoutIsCount`; `RecentPathsAreHistory`, `LivePathsAreShown`. `ReadoutIsCount` holds of States that
  were handed out long ago: what was done among the first events of the history does not change
  when it grows. The recursive function behind a sum over a set is shown to exist (`SumExists`) and not
  to depend on which element is taken first (`SumAgrees`, `SumTakes`), by taking a counterexample
  of least cardinality, since the induction theorems cannot be instantiated; an event
  then adds its size to one of the sums, which wrap at the word. For the recent paths the
  invariant (`PathsInv`) gives the list a list of falling positions of the history, *m* of paths
  that are in progress and the rest of paths that are settled, each without a gap down to where
  the cap cut it (`Falls`). Starting a path puts a position in front, an end takes one out of the
  first part and puts a newer one at the head of the second, and the cap takes positions off
  the end. The first part is exactly the positions that have fitted under the cap since they came
  (`Fitted`): once `maxRecentPaths` later ones were in progress together, a position is gone for good.
- **`ConnectorProofs`.** `ConnectedAsConfigured`, `StorageNewIsSound`, for any packages loaded and
  unloaded in any order. The registry has exactly the keys of the loaded packages, each for a plugin of
  one of them (`Registered`); a key determines name, version, type and protocol, but
  for the types whose protocol is left out of it, which is a lemma about concatenations; and
  kloset's registry refers to packages by name and version (`Referred`). `ConnTypeCorrect`, `NoOrphans`, `ClosedBeforeCut`,
  for any number of connectors. The connectors up to `n` and the one being opened are
  pending, those above are unopened or gone (`Counted`, `Unopened`), and the point before the cut
  is reached only with the Close handled, the plugin dead or the delay over (`MayCut`). The
  last is an action property.
- **`SnapshotProofs`.** `SelectedAsAsked`, `RestoredAsAsked`, for any stores, configurations and
  width of the integers. A list of a configuration is shown to have the elements at
  the indices before its first hole, a conversion that does not overflow to be the multiple it stands for, and the
  newest snapshot to be the one no other is later than. The invariant adds that the clock is
  past every commit, that commit times differ, and that a job has a configuration
  (`StoreInv`, `JobInv`, `Later`). `SharedTypeCorrect`, `SyncsCover`, `RetransfersAreRaces`, for any sets of
  processes and snapshots. Each process is `Consistent` by itself: what it selected is still
  to do, in its hand, or was `seen` in the target unless its report counts an error; and what is
  in the target now was `present` or has `arrived`. A step of another process preserves this
  because it only adds to `seen` and `arrived` what it adds to the target.

Every safety property that a passing run checks is a theorem. Only model-checked are the liveness
properties `Termination`, `Answered`, `SignalEndsRun`, `RunAnswered`, `ClosesEnd` and `CancelEnds`, and
the fairness part of `ImplementsMain`: fairness is out of the prover's reach.

The theorems of `MainProofs` hold of an inventory run by `RunsMain`, an argument made outside of the
prover, which does not instantiate theorems.

## Plan

The parts listed above are modelled and their safety is proved. What might be added: `Rm` and
the store operations put into `Main` the way `InventoryRun` does with the inventory.

## Not modelled

Report contents other than error counts, wire formats and field copies (`wireEntry`,
`ExecReply`), log lines, measured values, and `State.Equal`, which only tests call.
Retention periods and `group_by`, which `locateOptions` parses for a prune that is not implemented:
`prune` and `maintenance` return errors and nothing else, and
`defaultPruneGroupByDataset` has no caller. Fetching and unpacking packages, and the gRPC protocol
of the plugins, are external. A second call of `Main` in one process, which would find the
registries and the signal notification of the first, is not part of a single-shot
executor. `LogError` has no caller outside the tests, so no action sends that reply.
