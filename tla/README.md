# TLA+ models of caikit's local training jobs

These modules model the local job manager in
`src/caikit/core/model_management/`, and the `@dataobject` decorator of
`src/caikit/core/data_model/dataobject.py` with the data objects that use it. `LocalModelTrainer` registers training
jobs and `LocalModelTrainFuture` runs each one in a worker thread or process.
The models are checked with TLC. `PROJECT.json` maps each definition to the
source lines it models and lists the runs, their mutants, the findings and the
hazards.

## 1. Inventory

### Components

| Component | Source | State | Operations |
|---|---|---|---|
| Worker (`DestroyableThread` / `DestroyableProcess`, not under `src/`; modelled from spec §4.1) | imported by `local_background_base.py` | alive or not, `canceled`, `threw`, `ran` | `start`, `is_alive`, `join`, `destroy` |
| `LocalModelFuture` / `LocalModelTrainFuture` | `local_background_base.py:61-193`, `local_model_trainer.py:61-102` | `_worker`, `_completion_time`, `_submission_time`, `save_path`, `_use_subprocess` | `__init__` (builds and starts the worker), `get_info`, `cancel`, `wait`, `run` (in the worker: train, save, stamp the completion time), `load` |
| `LocalModelTrainer` (registry) | `local_model_trainer.py:104-219`, `local_background_base.py:195-271` | `_futures` (id → future), `_futures_lock`, `_retention_duration` | `train`, `get_model_future`, `_purge_old_futures`, `__init__` (parses the retention duration) |
| `_SpawnProcessModelWrapper` | `local_model_trainer.py:222-265` | the wrapped model | pickling to bytes and loading back; forwarding `save` and `run` |
| Runtime entry point | `src/caikit/runtime/__main__.py` | `_grpc_server`, `_http_server` | `main`, the SIGINT/SIGTERM handler `interrupt` |
| `dataobject` decorator | `src/caikit/core/data_model/dataobject.py` | the `decorator` closure's kwargs, `_AUTO_GEN_PROTO_CLASSES`, the global `enums` module, each package's `protobufs` module | `dataobject(...)`, `decorator(cls)`, `_get_all_enums`, `_make_data_model_class`, `render_dataobject_protos` |
| Background inference messages | `src/caikit/interfaces/runtime/data_model/background_inference_management.py` | none | three `@dataobject(RUNTIME_PACKAGE)` declarations |

### How they interact

A client thread calls `train`. `train` purges expired entries, checks without
the lock that the external id is not held by a running job, and builds a
future. The future's constructor starts its worker at once. `train` then
takes the lock, checks the id again and registers the future.
`get_model_future` purges and then reads `_futures`. Callers that hold a
future call `get_info`, `cancel`, `wait` and `load` on it without any lock.

The worker runs `run()`: train, save if a save path was given, then set
`_completion_time`. In a subprocess that last write lands in the child's copy
of the future. `get_info` derives the status from the worker's flags in a
fixed order: canceled, then alive, then threw, then ran, else QUEUED.

The one lock serialises the mutations of `_futures`. Everything else is
lock-free: the purge scan, the pre-check, lookups, `get_info`, and the
`wait` read-then-store.

### What is hard

- Interleaving: concurrent `train` calls with one external id, and purges
  racing `train`.
- Atomicity: `get_info` reads four flags one at a time, and `wait` reads and
  then stores `_completion_time`.
- Ordering: the completion time is stamped before the worker stops being
  alive.
- Partial failure: `train` raises a collision after the worker has already
  started.
- Cancellation: a destroyed worker can stay alive for a while after
  `destroy()` returns.
- Time-based retention.
- Import-time protocol of `@dataobject`: a decorator closure shares its
  kwargs between applications, and enums are registered and read back by
  short name in one global module.

### What makes each component correct

- **Future**:
  - after `cancel()` returns, status is always CANCELED;
  - reads never go backwards along QUEUED → RUNNING → terminal;
  - the completion time is written once;
  - after `wait()` returns, every status read is terminal.
- **Registry**:
  - `train` never replaces a running job;
  - purge removes only expired, terminal entries, and never an entry with no
    completion time;
  - every started training is reachable through the registry;
  - expired terminal jobs disappear from lookups.
- **Retention parser**: accepts exactly the `<d>d<h>h<m>m<s>s` grammar.
- **Runtime main**: after SIGINT or SIGTERM, no server is left running.
- **`@dataobject`**: the class it returns is the one declared: generated
  from the given schema, or from the class, with every nested enum attribute
  the enum declared at that level.

## 2. Plan

1. `LocalModelFuture` (done): the shared state of futures and workers, and
   one action per statement group of `__init__`, `run`, `cancel` and `wait`.
   It has no `Next` of its own. The modules below compose it with their
   callers.
2. `LocalModelTrainer` (done): the registry with concurrent clients. It
   EXTENDS `LocalModelFuture`. `get_info` and `wait` are atomic here; none
   of its properties reads the completion time a `wait` stores, so that
   simplification hides nothing they check (`FutureObservers` splits it).
3. `FutureObservers` (done): `get_info` read flag by flag, `wait` split
   into read and store, and `load()` after its `wait()`, with several
   readers. It EXTENDS `LocalModelFuture`.
4. `RetentionDuration` (done): the retention parser as a RECURSIVE matcher,
   checked against the grammar of spec §4.4.
5. `RuntimeMain` (done): the signal handler racing `main`.
6. Done since: statuses told apart in the lifecycle property (cancel after
   completion); the purge scan split over entries, so "dictionary changed
   size during iteration" is an outcome; save paths shared by jobs, for
   stale files under `load()`.
7. Dropped: an abstract registry of spec §3/§4.3 (ids set once, purge of
   expired entries) with the trainer as its refinement. With `wait()` split
   into its read and its store, as the code has it, the trainer does not
   implement it: two waiters overwrite the completion time
   (`observers_concurrent_wait`). Checked only with an atomic `wait`, the
   refinement showed nothing about the code.
8. Done since: the two ways purge removes a running job checked as the one
   property they violate (`trainer_purge_live`); `DataObject`, the
   `@dataobject` decorator, over the background inference data objects and
   classes of every other kind.
9. Next: a run of its own for each finding that now shares a run with
   another (see section 4), and a passing run of `DataObject` over classes
   without shadowed enum names, if a run can be spared.

## 3. Modules and correspondence to the code

- **`LocalModelFuture.tla`**.
  - `worker[f]` holds the phase of `run()`
    (`none`/`train`/`save`/`stamp`/`return`/`exited`) and the flags
    `canceled`, `threw` and `ran`. A worker is alive in the four middle
    phases.
  - `completion_time[f]` is `_completion_time`. `save_path[f]` is the save
    path given, a member of `Paths`, or `None`; two jobs may share one.
    `disk` is the set of paths a worker's `save()` has written a model to. `exit_time` is a history variable that
    records when the worker stopped.
  - `GetInfoOrder` is the check order of `get_info`. `Status` evaluates it
    atomically.
  - Actions: `Construct` (`__init__`); `WorkerTrain`, `WorkerSave`,
    `WorkerStamp` and `WorkerReturn` (the statements of `run`); `WorkerRaise`
    (train or save raises); `WorkerDestroyed` (a destroyed worker stops at a
    checkpoint); `Cancel` (`destroy()`, which sets `canceled` as spec §4.1
    says); `Wait` (join, then `or now()`); `Tick`.
  - `WorkerStamp` leaves the parent's completion time alone when
    `UseSubprocess` is set.
- **`LocalModelTrainer.tla`**.
  - `futures` is `_futures`. `client[c]` is the frame of the call client `c`
    is in.
  - Each lock-protected block is a single action, because no lock-holding
    block releases midway. These are `PurgePop` and `TrainInsert`.
  - The lock-free reads are actions of their own: `PurgeScan` (take `now`,
    begin the iteration), `PurgeIter` (one `next()` of the set
    comprehension: raise RuntimeError if the entry count changed since the
    iteration began, else visit one entry), `TrainPrecheck` and
    `LookupRead`.
  - A generated uuid is the future object itself, so it never collides. An
    external id is a model value in `ExternalIds`.
- **`FutureObservers.tla`**.
  - `GetInfoCheck` reads one flag per step. `WaitJoin` evaluates the
    right-hand side of the `or` and `WaitStore` stores it.
  - `reported` is a history variable: the latest-placed status any finished
    `get_info` call has returned (a terminal status replaces another).
    `joined` (history) is the set of futures on which some `wait()` has
    returned from `join()`. Each `get_info` call records, when it starts,
    `reported` (its `floor`), whether `cancel()` had already returned and
    whether its future is in `joined`.
  - `LoadStart` is `load()` calling `wait()`; the wait's join and store
    follow. `LoadRead` is the rest of `load()`: on the subprocess backend it
    returns the model iff its save path is in `disk` (written by this job
    or by another with the same path), else raises; on the thread backend it is
    `get_or_throw()` on the worker's flags.
- **`RetentionDuration.tla`**.
  - `config` is `config.get("retention_duration")`, `retention` is
    `_retention_duration`, `state` says whether `__init__` returned or raised.
  - `MatchFrom` is `_timedelta_expr.match(...).groupdict()`: a RECURSIVE
    operator that, group by group, takes the longest run of the group's
    number characters and the unit letter after it, and requires the end of
    the string after the last group (`$`). `Whole` and `Centi` are `float()`
    of a captured number in hundredths; `Parse` is the `timedelta` sum or one
    of the two errors. `Construct` is `__init__`'s parsing.
  - `Grammar` is the reference: every sentence of spec §4.4 up to `MaxLen`
    characters, generated from its components, with its value.
- **`RuntimeMain.tla`**.
  - `pc` is where `main` is; `server[s]` is `absent` until main assigns the
    variable the handler closes over, then the server's state; `handlers` is
    what `signal.signal` has installed.
  - `MainStep` is one atomic stretch of `main` between the points where
    CPython runs a signal handler; `Interrupt` is `interrupt()`, or the
    default action for a signal with no handler yet.
- **`DataObject.tla`** (`dataobject.py`).
  - A class is a model value with a declaration `Decl[c]`: kind
    (dataclass, Enum, plain class, `DataBase` subclass), parent package,
    name and descriptor tree (enums and nested messages in descriptor
    order). A schema is a model value with the tree `jtd_to_proto` builds.
    A generated protobufs class is its index in `autogen`
    (`_AUTO_GEN_PROTO_CLASSES`); a generated enum is
    `<<index, path of nested message names, name>>`.
  - `deco[d]` is one closure returned by `dataobject(...)`: the `schema`
    still in its kwargs, and (history) the one it was called with.
    `enums` is the global enums module by short name; `protomod[p][n]` the
    attribute `n` of module `p.protobufs`; `log` (history) each decoration.
  - `MakeDecorator` is `dataobject(...)` returning the closure; `Bare` is
    `@dataobject` without a call; `Apply` applies a closure, with
    `kwargs.pop("schema")` on the closure's dict. `Decorate` is the whole
    of `decorator(cls)`: the `DataBase` check, the schema / dataclass or
    Enum / `TypeError` branch, the append to `_AUTO_GEN_PROTO_CLASSES`, the
    enum imports, the wrapper (message or enum branch) and the attach to the
    protobufs module.
  - `AllEnums` is `_get_all_enums` and `WrapperAttrs` is
    `_make_data_model_class`, both RECURSIVE over the tree; `ImportAll` is
    the import loop. `enums.import_enum` is not under `src/`; it is modelled
    as binding the short name, which `getattr(enums, name)` at line 254
    relies on.
  - `MCDataObject` declares the three classes of
    `background_inference_management.py` (`BackgroundInferenceDecls`) and
    one class of every other kind, among them `Palette`, with an enum
    `Color` and a nested message `Inner` with its own `Color`.
  - `DataObjectBase` is not under `src/`. It is assumed, as caikit's
    metaclass does, to make its subclasses dataclasses without deriving
    them from `DataBase`. Were it otherwise, line 87 of `dataobject.py`
    would raise ValueError for all three classes; `DecoratedAsDeclared`
    holds of such a class either way.
- The MC modules define symmetry sets. The cfg files give the constants.

## 4. Runs

| Run | Expect | Checks | Shows |
|---|---|---|---|
| trainer_types | pass | TypeOK | two clients training under one external id or none and looking up ids, one future that may save, retention 0, clock 0..1: every trainer action fires, purges expire, pop and restart on a concurrent change, and `_futures` only maps ids to futures |
| trainer_orphan_worker | violation | NoOrphanWorker | the losing `train` raises after its worker started; the training is unreachable |
| trainer_purge_live | violation | PurgeOnlyTerminal | purge removes a job that is still running: the stamp before exit lets purge remove a RUNNING job (TLC's trace), and a stale purge scan pops the new running future of a reused external id (confirmed with the stamp made atomic with the exit) |
| trainer_lookup_answer | violation | LookupAnswersRegistry | `get_model_future` raises RuntimeError when a concurrent `train` inserts while its purge iterates (TLC's trace); a job that raised is never stamped, so lookups return it forever (second finding on this run) |
| observers_cancel | pass | TypeOK, CancelIsFinal, TerminalAfterWait | two readers, one future, clock 0..2: cancel wins even over a worker still shutting down; a `get_info` begun after a `wait()` returned from `join()` reports a terminal status, whether the job completed, raised or was canceled |
| observers_lifecycle | violation | ReportsFollowLifecycle | `cancel()` on an ERRORED job turns it CANCELED (TLC's trace); `get_info` can also return QUEUED after RUNNING for a job canceled mid-read (second finding) |
| observers_concurrent_wait | violation | CompletionTimeStable | two concurrent `wait()`s store different completion times |
| observers_load_not_completed | violation | LoadReturnsOnlyCompleted | subprocess backend: a job canceled after `save()` is CANCELED, yet `load()` returns the saved model (TLC's trace); a job that raised returns the model another job wrote at the same path |
| retention_grammar | pass | TypeOK, ParseMatchesGrammar | over all 2,801 strings of up to 4 characters from `0`, `1`, `.`, `d`, `h`, `m`, `s`, `__init__` accepts exactly the grammar's sentences with their values, and raises (ValueError from `float()` for `s`, `.s`) otherwise |
| dataobject_declared | violation | DecoratedAsDeclared | `Palette.Color` is set to `Palette.Inner.Color`, the last enum of that name imported (TLC's trace, one step); a decorator made with `schema=` and applied to a second class generates from the class, or raises `TypeError` (second finding, three steps, confirmed with `Palette` removed) |
| runtime_signal_race | violation | ShutdownOnInterrupt | a signal handled before `_http_server` is assigned stops nothing; main then starts HTTP blocking and serves on |

Five violation runs back two findings each: TLC stops at the shortest
counterexample, which shows the first; the second violates the same
property by another path, which the finding describes, and was confirmed
by disabling the first path (for instance `cancel()`) in a scratch copy.

Every property of a passing run has a mutant in `PROJECT.json`, a plausible
bug TLC catches:

- the id stored in place of the future;
- `is_alive()` checked before `canceled`;
- the final `return QUEUED` missing;
- the worker not recording `ran` (a completed job then reads QUEUED after
  `wait()`);
- the retention regex without its `$` anchor;
- the parse error logged and swallowed, keeping the raw string.

### Bounds

- Two clients or readers. That is the fewest that can race.
- Two futures in the registry for the violation runs, so an id can be
  registered, expire and be registered again with a new future. The passing
  trainer run has one: with two and a moving clock it exceeds 12 million
  states, and one future already fires every action, the concurrent purge
  restart included.
- One external id. Collisions need only one.
- One save path, shared or not by two futures.
- Retention strings of up to 4 characters over two digits: long enough for
  two groups, a fraction, a lone point and every misordering; 4 characters
  keep a fraction to two digits, held exact in hundredths.
- One signal: a Ctrl-C or a SIGTERM before SIGKILL.
- `@dataobject`: one decorator closure, one schema, three decorations:
  enough to make the closure, apply it twice and decorate one more class.
- A clock of 0..1 or 0..2 with retention 0. That is enough for an entry to
  expire and for two `now()` values to differ.

Each violation is found within about 15 steps. The passing runs explore
5k–330k distinct states and finish within seconds.

### Fairness

The job manager's modules assume no fairness: every property checked of
them is a safety property. Whether a waiter's `join()` returns depends on
the worker stopping after `destroy()`, which is not under `src/`, so no
liveness property is stated for it (see the liveness hazard in
`PROJECT.json`).

`RuntimeMain` assumes weak fairness of `main`'s steps: the main thread runs
whenever it is not blocked in a `start()`. Signals are the environment's
choice and not fair.

## 5. Not modelled

- `render_dataobject_protos`, which writes `.proto` files through
  `py_to_proto`, and `_DataobjectConverter`, whose output, the descriptor
  tree, is each class's declared tree. Field types that refer to other data
  objects are references, not nested types, and add no enums.
- `DataObject` has no passing run: the twelve runs are spent, and its one
  run is the violation above.
- Logging, the fork-handler workaround, and the wrapping of model kwargs.
- Package names passed to `dataobject(...)`: they only name the generated
  classes.
- The order in which a dict iterates: the purge visits entries in any
  order, and a change of keys that keeps the entry count is not an error
  here (CPython may still raise on it).
- The values of arguments, models and errors. A future's result is not
  distinguished beyond its flags.
- `_SpawnProcessModelWrapper`: its behaviour is pickling and the model's own
  serialisation, which is not under `src/`. Its effect on the protocol, a
  loaded model being whatever file is at the save path, is `LoadRead` over
  the shared `disk`.
- The gRPC and HTTP servers themselves (not under `src/`): only the effect
  of their `start()` and `stop()` on `main` is modelled.
- Retention strings longer than 4 characters: the matcher treats each group
  alike, so longer strings repeat the cases of shorter ones.
