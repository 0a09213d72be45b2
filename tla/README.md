# TLA+ models of the shared-memory tensor collector and the vendored TensorFlow distribution code

This directory holds TLA+ models of three parts of the repository. The main one is the tensor reclaimer in
`src/openfaas/collector-kp/collector.py`. Lines 1-102 of `collector-1.py`
are the same code. The reclaimer runs on every node of an OpenFaaS/Kubernetes
cluster. Model-serving runtimes map tensors from files in
`/dev/shm/serving_memorys/` (`MEMORY_PATH`). Each tensor also has a lock file
in `LOCK_PATH`. The collector removes tensors that no running pod of the node
needs once they have been unused for `KEEP_ALIVE`, and it takes the tensor's
lock file exclusively before each removal.

The other two are vendored TensorFlow code under
`src/tensorflow/tensorflow/python/distribute/`:
- `sharded_variable.py`: a variable split into shards along axis 0;
- `combinations.py`: test-parameter generation and the multi-worker test
  decorator.

## 1. Inventory

### Components, state and operations

| Component | Code | State | Operations |
|---|---|---|---|
| Model Registry | `get_models`, `get_tensors` (l. 17-26) | `models`, `model_tensors`, read once | startup only |
| Workload Resolver | `list_namespaced_pod` + node filter (l. 72-73) | the pods on the node (Kubernetes) | one read per cycle |
| Live-Set Calculator | `is_running`, l. 74-77 | none: `running_tensor_set` is rebuilt each cycle | pure function |
| Cache Inspector | `get_existing_tensors` (l. 28-33) | the directory `MEMORY_PATH` | one listing per cycle |
| Reconciler | `get_expired_tensor`, loop of `node_collector` (l. 41-49, 63-81) | `keep_alive_dict`: tensor to the first time it was seen unused | stamp new unused tensors; select expired ones |
| Safe Evictor | `delete_tensors` (l. 52-60) | lock files, cache files | per tensor: existence checks, blocking `lockf(LOCK_EX)`, `os.remove`, unlock |
| Serving runtimes (external, not in this repository) | containers that mount both directories (`scripts/static_memory.py` l. 63) | cache and lock files; shared locks | publish a tensor file and read it under a lock |
| ShardedVariable (vendored) | `ShardedVariableMixin`, `_var_to_tensor`, `embedding_lookup` in `sharded_variable.py` | the list of shard variables, the checkpoint | assign, assign_add, assign_sub, save, restore into any layout, read, lookup |
| Distributed test combinations (vendored) | `combinations.py` | the test's arguments, `_running_in_worker`, the workers' results | combination checks, cluster parameters, direct run or spawn, worker run, aggregation |
| Memory measurement scripts | `scripts/total_memory.py`, `scripts/static_memory.py` | running containers, `total_memory`, `output.txt`, `MEMS` | list containers, `docker stats` per container, parse and add, write a line; start, measure and stop `INSTANCE_NUM` containers |
| Not modelled | the commented-out memory-pressure/LRU variant (`collector-1.py` l. 105-164), benchmark HTTP clients, `average_memory.py`, `time_measure.py`, vendored TensorFlow unit tests | | |

### How the components interact

- The collector is one process with one loop. There are no threads.
- It shares two directories with the serving runtimes of the pods on the node:
  - The runtimes create cache files and lock files.
  - The collector only deletes cache files.
  - Both sides lock the lock file with POSIX `lockf`.
- The collector learns which pods run on the node from the Kubernetes API. It
  reads that answer once per cycle, before it lists the cache directory.
- Between its steps, pods start and stop and runtimes publish and lock
  tensors. In particular this happens while `lockf(LOCK_EX)` blocks.

### What is hard

- **Snapshots used late.** The live set comes from the pod list read at
  the start of the cycle. Removals happen later, after blocking lock waits.
  Spec 5 takes its snapshots at the start of the cycle too, so removing the
  tensor of a pod that starts in between is by design. What the lock must
  then prevent is unlinking a file a runtime maps (`ReaderNeverLosesFile`).
- **Bookkeeping across cycles.** `keep_alive_dict` only ever grows. Whether
  a removal respects the grace period depends on the whole history of
  demand, not on the current cycle.
- **Locking against other processes.** A runtime must never lose the file
  it is mapping.
- **Crashes.** No exception is caught. The API call (l. 72), `os.listdir`
  (l. 30) and `os.remove` (l. 59) can end the process. Kubernetes then
  restarts it with an empty `keep_alive_dict`.
- **Time.** The grace period is measured with wall-clock `datetime.now()`.
  A cycle lasts at least `COLLECT_PERIOD`, and longer when the API is slow
  or `lockf` blocks.

### Properties that make each component correct

- **Live-Set Calculator:** computes the union of the tensors of the models
  whose name occurs in the name of some pod of this node (spec 4.2).
- **Reconciler:**
  - Nothing in the cycle's live set is evicted.
  - Eviction waits for a continuous grace period without demand, and
    renewed demand resets the timer.
  - An abandoned tensor is eventually reclaimed.
- **Safe Evictor:**
  - Never removes a file that has no lock file.
  - Never removes a file while a runtime holds its lock.
  - Never removes a tensor in the live set of the cycle (spec 5 and 8
    state this over the snapshot taken at the start of the cycle; a pod
    that starts later is protected only by the lock).

The first and third statements, and "nothing in the cycle's live set is
evicted", are not separate properties: each restates one test of the code
(l. 56, l. 79), and the refinement `ImplementsReclaimer` implies them.

The hazards are listed, each at its source line, in `PROJECT.json`
(`hazards`).

## 2. Modules

### `Collector.tla`: the collector and its environment

**Collector state**

| Variable | Models |
|---|---|
| `keepAlive` | `keep_alive_dict`. It holds the time elapsed since each entry's timestamp, as read on the wall clock, saturated at `Grace`. The code only compares `ts + KEEP_ALIVE <= now()`, so this abstraction is exact. |
| `live` | `running_tensor_set` |
| `pending` | the expired set the current `delete_tensors` call has not handled yet |
| `cur` | the tensor whose lock the collector is waiting for |
| `pc` | where the loop is |
| `crashes`, `clockSteps` | the number of restarts and of wall-clock adjustments so far |

**Collector actions**

| Action | Code |
|---|---|
| `ListPods` | the sleep, the pod list and the live set (l. 71-77). The cycle takes `d` in `Period..Period+Jitter` time units. |
| `Reconcile` | the cache listing, the delete set and `get_expired_tensor` (l. 78-80) |
| `DeleteCheck` | the existence tests of one `delete_tensors` iteration (l. 53-57), in any set order |
| `Evict` | the exclusive lock once no runtime holds a shared one, then `os.remove` and unlock (l. 58-60) |
| `EvictFail` | the same, when the cache file vanished after the test of l. 56: `os.remove` raises, and the exception ends the process, which restarts with an empty dictionary |
| `Crash` | an uncaught exception elsewhere (API call, listing), then a restart through `main`. Bounded by `MaxCrashes`. |
| `ClockStep` | a forward step of `datetime.now()` by `Skew` (NTP, DST): every entry looks older than it is. Bounded by `MaxClockSteps`. |

**Environment (from the spec, since that code is not in this repository)**

| Part | Model |
|---|---|
| Pods | `PodStart` and `PodStop`. A pod name is used once, as in Kubernetes. A stopped pod releases its locks. |
| Runtimes | `RuntimeLoad` creates the lock file and the cache file if missing and takes a shared lock, once per tensor of the pod's model. `RuntimeRelease` drops the lock. |
| Other removers | `ExternalRemove` deletes an unlocked cache file (an operator, a second collector). |

`Init` is any content of the two directories and any set of running pods.
This covers a collector that restarts on a node that is already in use, and
cache files that have no lock file.

**History variables.** `idle[t]` is the time since `t` was last in a cycle's
live set (used by `GraceRespected`). `realAge[t]` is the real time since the
entry of `t` was stamped (used by `RealGraceRespected`). `Evicted(t)` is a
removal by a collector step, as opposed to an external one.

**Fairness.**
- Weak fairness on the collector's steps: the `while True` loop never stops
  of its own accord.
- Weak fairness on each `RuntimeRelease`: a runtime releases its lock after
  mapping the file.
- Crashes, clock steps, external removals and pod events are not fair.

### `LiveSet.tla`: the live-set algorithm over real names

- Model and pod names are sequences of letters.
- `model in p` is tested as membership of `SubSeqs(p)`.
- `is_running` is the recursive early-return loop.
- The node filter, `running_models` and the union are `SelectSeq` and
  `FoldLeft` over the listing.
- `Poll` is one cycle's pod list.
- It is mapped to the copy of these lines in `collector-1.py`. Lines 1-102 of
  the two files are identical.

### `FullVariable.tla` and `ShardedVariable.tla`: a variable in shards

`FullVariable` is what the `ShardedVariable` docstring promises: one variable
of `N` rows that is assigned, added to and subtracted from as a whole, read,
looked up row by row, saved and restored "as if [the shards] were a single
larger variable". Its variables are `value`, `saved` (the checkpoint's
contents) and `call`, the last call with its argument and result.

`ShardedVariable` models the code:

| Definition | Code |
|---|---|
| `shards` | `self._variables`: one sequence of rows per shard. A row stands for a whole slice along the other axes. |
| `var_offsets`, `first_dim` | the constructor's `_var_offsets` and `shape[0]` |
| `assign`, `assign_add`, `assign_sub` | slice the argument at `_var_offsets` into each shard. Values are `Width`-bit integers and wrap. |
| `saveable_factory`, `SliceOffsets`, `Save` | `_saveable_factory`: one `SaveSliceInfo` per shard, with its own offset loop |
| `Restore(l)` | a ShardedVariable of any layout `l` restored from that checkpoint |
| `var_to_tensor` | `_var_to_tensor`: raises for another dtype, `as_ref`, or inside an embedding-lookup scope; otherwise the concatenation |
| `embedding_lookup(ids, partition_strategy)` | the override, which routes ids with the caller's partition strategy, `div` or `mod` (the default); `Strategies` is the set of strategies callers pass |
| `FixedShardsPartitioner` | the number of shards for a given dimension |

**Refinement.** `FV == INSTANCE FullVariable WITH value <- FlattenSeq(shards),
saved <- SavedValue`. `ImplementsFullVariable == FV!Spec` is checked as a
`PROPERTY`. `call` is the same on both sides, so a step that gives the wrong
result, or writes the wrong rows, is not a step of the abstract
specification.

### `DistributedTest.tla`: one generated distributed test case

The model follows one test case from its combination of arguments to its
outcome.

| Definition | Code |
|---|---|
| `ci`, `env` | the combination (NamedDistributions in kwargs order and the other keyword arguments), and the environment: XLA, GPU/TPU test binary, GPUs present, `--tpu` |
| `DistributionShouldExecute`, `GPUShouldExecute`, `TPUShouldExecute` | the three `should_execute_combination` methods, each with its skip and its raise |
| `ClusterParametersRaise`, `ClusterParameters`, `runner` | `ClusterParameters.modified_arguments` and `NamedDistribution.runner` |
| `Resolve` | `generate`: the checks in the order of `default_combinations`, then the modifiers; a skip or a raise ends the test |
| `RunDirect` | the decorator with one task: the body runs in the main process |
| `Spawn`, `WorkerRun(w)`, `test_runner_status` | the decorator with several tasks: one process per task runs `_test_runner`, which sets `_running_in_worker` and reports `failure`, `skipped` or `ok` |
| `Collect`, `aggregate` | the loop over the results: fail on the first failure, otherwise skip if any skipped |
| `StrategyArgs`, `multi_worker_session`, `session` | `DistributionParameter` and `_multi_worker_session`: the session each body runs in |

A test body ends in one of `pass`, `fail`, `error` or `skip`, chosen
nondeterministically in every process. `_test_runner` counts expected
failures as failures and unexpected successes as `ok`, so `expectedFailure`
does not change a worker's report and is left out.

### `Reclaimer.tla`: what the collector promises

An abstract specification of the reclaimer of spec 4 and 5 without its
bookkeeping: `Observe` records the tensors the running pods need,
`Select` picks any cached tensors outside that observation as candidates,
and `Reclaim(t)` removes a candidate that has a lock file and no reader.
`Drop` and `Forget` lose candidates (a skipped tensor, an error, a
restart). The environment may change pods, files and locks in any way
that never unlinks a held file. The grace period is deliberately not part
of it: which unused tensors are selected is left open.

`Collector` implements it (`ImplementsReclaimer`, checked in
`collector_safety`) under the refinement mapping

- `snapshot` is the collector's `live` (`running_tensor_set`);
- `observed` is `pc = "reconcile"` (pods read, directory not yet listed);
- `candidates` is `pending`, plus `cur` while `delete_tensors` waits for its lock.

### `MemoryMonitor.tla`: the docker memory measurement scripts

`total_memory.py` loops forever: `List` (`docker ps`, `total_memory = 0`),
one `Measure(c)` per listed container, `Write` (a line of `output.txt`).
`static_memory.py` runs beside it: `construct_runtime` starts its
`INSTANCE_NUM` containers (`docker run --rm`), `StaticMeasure` adds each
one's figure to `MEMS`, `deconstruct_runtime` stops them. The output of
`docker stats` is built from each container's usage in MiB as docker
prints it (`512MiB`, `2GiB`), as sequences of characters, and `transform`
(`StripAlpha`) and `float` (`ParseNum`) are modelled by what they do on it.
A container stopped between the listing and its `docker stats` call gives
an empty output, and `Measure` ends the monitor (`mpc = "dead"`), as the
uncaught `IndexError` does. `actual` and `sactual` are history variables:
the real MiB of what was measured.

## 3. Runs

Run them with `tlc -workers 2 -config <cfg> <module>`.

| Run | cfg | Expect | What it shows |
|---|---|---|---|
| `collector_safety` | `MC_Collector.cfg` | pass | `ReaderNeverLosesFile` and the refinement `ImplementsReclaimer` hold with pods, runtimes, external removals, one crash and one clock step interleaved with every collector step (about 1.5M states). |
| `collector_liveness` | `MC_Collector_Liveness.cfg` | pass | `EventuallyReclaimed`: an abandoned tensor that no runtime holds is eventually removed. Run without clock steps to keep the liveness check small. |
| `collector_debounce` | `MC_Collector_GraceRespected.cfg` | violation | Finding: `keep_alive_dict` is never cleared. A tensor that is unused, then used, then unused again is removed with no new grace period. This contradicts spec 4.4 and 8. |
| `collector_evict_error` | `MC_Collector_EvictError.cfg` | violation | Finding: a cache file removed between the test of l. 56 and `os.remove` makes the call raise. The process ends, and the rest of the cycle's expired tensors are dropped. This contradicts spec 4.5 and 7. |
| `collector_clock_step` | `MC_Collector_ClockStep.cfg` | violation | Finding: a forward step of the wall clock evicts a tensor before `KEEP_ALIVE` of real time has passed. |
| `liveset_algorithm` | `MC_LiveSet.cfg` | pass | `LiveSetCorrect`: the loops compute the spec 4.2 live set for every listing order and pod list (75k states). |
| `sharded_refinement` | `MC_ShardedVariable.cfg` | pass | `ShardedVariable` implements `FullVariable` for every layout a `FixedShardsPartitioner` produces, including save in one layout and restore into another. `CheckpointTiles`: the saved slices cover every row exactly once (14k states). |
| `sharded_uneven_lookup` | `MC_ShardedVariable_Uneven.cfg` | violation | Finding: with the `div` strategy and shard lengths that `div` does not assume (`<<1, 2>>`), the lookup override routes id 1 past the end of shard 1 and raises, though the full variable has that row. |
| `sharded_mod_lookup` | `MC_ShardedVariable_Mod.cfg` | violation | Finding: with the override's default `mod` strategy, on the layout `FixedShardsPartitioner(2)` gives 3 rows, id 1 returns row 0 of shard 2 instead of row 1 of the full variable. `sharded_refinement` uses `Strategies = {"div"}`. |
| `multi_worker_outcome` | `MC_DistributedTest.cfg` | pass | `OutcomeAgrees`: a test that gets past the checks runs its body once on each task, and the main process fails if any task failed or raised and skips only if none failed, in any order of results. (3.4k states). |
| `memory_units` | `MC_MemoryMonitor.cfg` | violation | Finding: `transform` strips the unit instead of converting it, so a container docker shows as `2GiB` is added as 2 next to `512MiB` as 512; `output.txt` and `total mems` are wrong for every container of 1 GiB or more. |
| `monitor_container_stop` | `MC_MemoryMonitor_Stop.cfg` | violation | Finding: `MonitorKeepsRunning` fails. A container that `docker ps` listed and that stops (here `static_memory.py`'s `deconstruct_runtime`) before its `docker stats` call leaves stdout empty. `transform` then raises an uncaught `IndexError`, and `total_memory.py` stops writing `output.txt`. |

### Bounds and why they are enough

`MC_Collector` has:
- 2 models that share tensor `b`;
- an orphan tensor `c` that no manifest names;
- 2 pods, where the name of `p2` also contains `m1` (a substring false
  positive);
- `Grace = 2` with `Period = 1`, so an entry needs two cycles to expire;
- `Jitter = 1`, so a single long cycle can also reach the grace period;
- `MaxCrashes = 1`, `MaxClockSteps = 1` with `Skew = 1`.

These bounds reach the cases the properties are about:
- shared tensors;
- tensors without a lock file;
- a pod that starts between the pod list and a removal;
- a file that vanishes while the collector waits for its lock;
- a restart in the middle of a grace period;
- a clock step in the middle of a grace period;
- demand that comes back within the grace period.

`MC_LiveSet` uses letters `{r, s}` with model names of up to 2 letters and
pod names of up to 2 letters. That covers nested names such as `r` inside
`rs`. It uses up to 2 pods on 2 nodes and 2 models in either listing order.

`MC_ShardedVariable` has `N = 3` rows of 1-bit values:
- the layouts of `FixedShardsPartitioner(k)` for k = 1..4: `<<3>>`,
  `<<2, 1>>` and `<<1, 1, 1>>` (k = 4 is capped at 3 shards);
- the uneven runs add `<<1, 2>>`;
- lookups of single ids in every shard and one out-of-order pair.

With 1-bit values `assign_add` and `assign_sub` coincide modulo 2. Their
wrap-around is still checked, since a sum that is not reduced leaves the
type.

`MC_MemoryMonitor` has two containers, of 512 MiB and 2 GiB, so that
docker prints one in each unit; `INSTANCE_NUM` is 2 and the monitor writes
at most 2 lines, enough for a cycle before, during and after the static
script's containers run. Deadlock is not checked: both scripts stop.

`MC_DistributedTest` has 14 combinations:
- single-worker strategies;
- a chief plus a worker with a pool runner, in eager and in graph mode;
- two workers with `required_gpus`;
- cluster arguments without a strategy;
- a strategy with `no_xla`, a TPU strategy, a single-worker collective
  strategy;
- each contradiction the checks raise for;
- both orders of a single-worker and a multi-worker strategy.

All 48 environments with up to 2 GPUs are combined with every body outcome
in every process, and so with every order of results.

Every property of a passing run has a mutant in `PROJECT.json`: a plausible
bug in the mapped definition that TLC catches.

## 4. Plan

1. Done:
   - `Collector`, with the lock protocol, runtimes, crashes, failing
     removals and clock steps;
   - `LiveSet`;
   - the `ShardedVariable` refinement of `FullVariable`;
   - `DistributedTest`.
   - the abstract `Reclaimer`, implemented by `Collector`;
   - `MemoryMonitor`, the measurement scripts.
   - the monitor-dies race.
2. The load time of a TensorFlow Serving container, to check
   `static_memory.py`'s fixed 5-second wait (hazard at l. 40).
3. Backward clock steps, which delay eviction and matter for liveness.
4. A second collector instance deleting concurrently, with its own dictionary.
5. A variant of `Collector` with the spec's registry pruning (steps 4-6 of
   spec 4.4), to show that `GraceRespected` then holds.
6. `ShardedVariable`: the shards as separate resources updated one at a time
   (a concurrent reader may see a partly assigned variable).

## 5. Not modelled

- **Memory-pressure variant.** It is commented out, and spec 2 and 9 put it
  out of scope.
- **HTTP clients, `average_memory.py` and `time_measure.py`.** They are
  pure I/O: they time requests or average numbers read from a file.
- **The multi-worker one-strategy check** (`combinations.py` l. 85). A
  multi-worker NamedDistribution followed by a single-worker one is
  accepted and the test runs on one worker. `DistributedTest` still models
  the check, but its violation run was replaced by `memory_units`, the
  project being held to twelve runs.
- **Vendored TensorFlow unit tests.** Each is a fixed sequence of calls and
  assertions.
- **Reading the node name.** It is a one-time read.
- **Model load time in the measurement scripts.** `static_memory.py`
  measures 5 seconds after `docker run`. Whether the model has loaded by
  then depends on TensorFlow Serving, which is outside this repository.
  `MemoryMonitor` takes a container's usage as fixed from its start.
- **The content of the tensor files.** Only their existence matters to the
  collector.
- **Locks held forever by runtimes.** The liveness check assumes locks are
  released.
- **Backward clock steps.** The model has forward steps only.
- **`sharded_variable.py` beyond the above:**
  - `MinSizePartitioner` and `MaxSizePartitioner` delegate to
    `partitioned_variables`, which is not in this repository.
  - The constructor's dtype and shape validation: rows are abstract.
  - The save-context `variables` property, `_map_resources` and the type
    spec only serve SavedModel export and `tf.function` tracing.
  - The per-shard updates are modelled as one step, since no other thread
    of the code runs between them.
- **`combinations.py` beyond the above:**
  - `multi_process_runner` and `combinations_lib` are not in this
    repository. The order of checks and modifiers is the one
    `combinations_lib` documents.
  - A cluster of 0 tasks is left out (see the hazard at l. 437).
  - `concat` and the class branch of the decorator only build lists and
    wrap methods.
