--------------------------- MODULE DistributedTest ---------------------------
(***************************************************************************)
(* One test case generated by combinations.generate                        *)
(* (src/tensorflow/tensorflow/python/distribute/combinations.py), from its *)
(* combination of arguments to its outcome.                                *)
(*                                                                         *)
(* The main process first evaluates the combination: the should_execute   *)
(* checks of DistributionCombination, GPUCombination and TPUCombination   *)
(* (skip, or raise for contradictory arguments) and ClusterParameters,     *)
(* which decides has_chief, num_workers and runner. The _multi_worker_test *)
(* decorator then runs the test body in the main process for a single     *)
(* worker, or starts one process per task of the cluster. Each of them    *)
(* runs the same test through _test_runner, which sets _running_in_worker *)
(* so that the decorator runs the body there. The main process waits for  *)
(* every result and turns them into its own outcome.                      *)
(*                                                                         *)
(* A test body ends in one of Bodies: "pass", "fail", "error" or "skip".  *)
(***************************************************************************)
EXTENDS Integers, Sequences, FiniteSets, TLC

CONSTANTS
    Combos,    \* the argument combinations the test is generated for, in order
    MaxGpus,   \* bound on context.num_gpus()
    None       \* model value: Python None, also what kwargs.get returns for a missing key

Bodies == {"pass", "fail", "error", "skip"}

\* A NamedDistribution as its constructor arguments, and whether the
\* strategy its distribution_fn creates is a CollectiveAllReduceStrategy. A combination is its NamedDistribution arguments, in
\* kwargs order, and the other keyword arguments, as a function of the
\* keys present.
ASSUME \A i \in DOMAIN Combos : LET c == Combos[i] IN
          /\ c.dists \in Seq([has_chief : BOOLEAN, num_workers : 1..3,
                              use_pool_runner : BOOLEAN,
                              required_gpus : {None} \cup 0..MaxGpus,
                              required_tpu : 0..1, use_cloud_tpu : BOOLEAN,
                              no_xla : BOOLEAN, collective : BOOLEAN])
          /\ DOMAIN c.opts \subseteq {"has_chief", "num_workers", "runner",
                                      "required_gpus", "required_tpus",
                                      "required_tpu", "use_cloud_tpu",
                                      "use_var_policy", "mode"}

\* The test binary's environment: XLA, sys.argv[0] ending in test_gpu or
\* containing test_tpu, the GPUs present, the --tpu flag.
Envs == [xla : BOOLEAN, gpuTest : BOOLEAN, numGpus : 0..MaxGpus,
         tpuTest : BOOLEAN, tpuFlag : BOOLEAN]

\* Python's truth value and `x or 0` for the counts, which are None or an
\* int (a bool counts as the int it is: True is 1)
Truthy(v) == v # None /\ v # 0
OrZero(v) == IF Truthy(v) THEN v ELSE 0
Get(f, k) == IF k \in DOMAIN f THEN f[k] ELSE None
MaxOf(S)  == CHOOSE m \in S : \A x \in S : x <= m
DistSet(c) == {c.dists[i] : i \in DOMAIN c.dists}

VARIABLES
    ci,          \* the index in Combos of this test case's combination
    env,         \* the environment the test binary runs in
    phase,       \* "resolve", "decorate", "wait", "done"
    params,      \* has_chief, num_workers, runner given to the decorator
    in_worker,   \* _running_in_worker of each worker process
    results,     \* _TestResult.status returned by each worker, or None
    bodies,      \* how the test body ended in each process that ran it
    session,     \* the default session each of them ran the body in
    outcome      \* the main process's test outcome

vars == <<ci, env, phase, params, in_worker, results, bodies, session, outcome>>

combo == Combos[ci]

-----------------------------------------------------------------------------
(* Evaluating the combination.                                             *)

\* _num_total_workers
num_total_workers(has_chief, num_workers) ==
    IF has_chief THEN num_workers + 1 ELSE num_workers

\* DistributionCombination.should_execute_combination
DistributionShouldExecute(c, e) ==
    IF e.xla /\ \E d \in DistSet(c) : d.no_xla THEN "skip" ELSE "run"

\* GPUCombination.should_execute_combination
GPUShouldExecute(c, e) ==
    LET required_gpus == Get(c.opts, "required_gpus")
        needed == MaxOf({OrZero(required_gpus)} \cup
                        {OrZero(d.required_gpus) : d \in DistSet(c)})
    IN CASE c.dists # <<>> /\ Truthy(required_gpus) -> "error"
         [] needed = 0 /\ e.gpuTest                  -> "skip"
         [] needed > 0 /\ e.numGpus < needed         -> "skip"
         [] OTHER                                    -> "run"

\* TPUCombination.should_execute_combination
TPUShouldExecute(c, e) ==
    LET required_tpus == IF Truthy(Get(c.opts, "required_tpus"))
                         THEN Get(c.opts, "required_tpus")
                         ELSE Get(c.opts, "required_tpu")
        needed == MaxOf({OrZero(required_tpus)} \cup
                        {OrZero(d.required_tpu) : d \in DistSet(c)})
        use_cloud_tpu == Get(c.opts, "use_cloud_tpu") = TRUE
                         \/ \E d \in DistSet(c) : d.use_cloud_tpu
    IN CASE {"required_tpus", "required_tpu"} \subseteq DOMAIN c.opts -> "error"
         [] c.dists # <<>> /\ Truthy(required_tpus) -> "error"
         [] needed = 0 /\ e.tpuTest                  -> "skip"
         [] needed > 0 /\ ~e.tpuTest                 -> "skip"
         [] use_cloud_tpu /\ ~e.tpuFlag              -> "skip"
         [] ~use_cloud_tpu /\ e.tpuFlag              -> "skip"
         [] OTHER                                    -> "run"

\* NamedDistribution.runner: a pool runner only for a multi-worker cluster
\* that asks for one
runner(d) ==
    IF num_total_workers(d.has_chief, d.num_workers) > 1 /\ d.use_pool_runner
    THEN "pool" ELSE None

\* ClusterParameters.modified_arguments: the last NamedDistribution in
\* kwargs order wins. It raises when a later one is multi-worker, or when
\* has_chief or num_workers contradict the strategy's.
Strategy(c) == IF c.dists = <<>> THEN None ELSE c.dists[Len(c.dists)]

ClusterParametersRaise(c) ==
    LET ds == c.dists
        s  == Strategy(c)
    IN \/ \E i \in 2..Len(ds) : num_total_workers(ds[i].has_chief, ds[i].num_workers) > 1
       \/ s # None /\ \E k \in {"has_chief", "num_workers"} :
                          k \in DOMAIN c.opts /\ c.opts[k] # s[k]

\* Mutant of ClusterParameters: num_workers is read with no default.
ClusterParametersNoDefault(c) ==
    LET s == Strategy(c)
    IN IF s # None
       THEN [has_chief |-> s.has_chief, num_workers |-> s.num_workers,
             runner |-> runner(s)]
       ELSE [has_chief |-> IF "has_chief" \in DOMAIN c.opts
                          THEN c.opts["has_chief"] ELSE FALSE,
             num_workers |-> Get(c.opts, "num_workers"),
             runner |-> Get(c.opts, "runner")]

ClusterParameters(c) ==
    LET s == Strategy(c)
    IN IF s # None
       THEN [has_chief |-> s.has_chief, num_workers |-> s.num_workers,
             runner |-> runner(s)]
       ELSE [has_chief |-> IF "has_chief" \in DOMAIN c.opts
                          THEN c.opts["has_chief"] ELSE FALSE,
             num_workers |-> IF "num_workers" \in DOMAIN c.opts
                            THEN c.opts["num_workers"] ELSE 1,
             runner |-> Get(c.opts, "runner")]

\* combinations_lib.generate evaluates the should_execute checks in the
\* order of generate's default_combinations, then the parameter modifiers.
Resolve ==
    /\ phase = "resolve"
    /\ LET checks == <<DistributionShouldExecute(combo, env),
                       GPUShouldExecute(combo, env), TPUShouldExecute(combo, env)>>
           first  == CHOOSE i \in 1..4 : (i = 4 \/ checks[i] # "run")
                                         /\ \A j \in 1..(i - 1) : checks[j] = "run"
       IN IF first < 4
          THEN /\ outcome' = checks[first]
               /\ phase' = "done"
               /\ UNCHANGED params
          ELSE IF ClusterParametersRaise(combo)
          THEN /\ outcome' = "error"
               /\ phase' = "done"
               /\ UNCHANGED params
          ELSE /\ params' = ClusterParameters(combo)
               /\ phase' = "decorate"
               /\ UNCHANGED outcome
    /\ UNCHANGED <<ci, env, in_worker, results, bodies, session>>

-----------------------------------------------------------------------------
(* The _multi_worker_test decorator.                                       *)

\* DistributionParameter.modified_arguments: every NamedDistribution
\* argument is replaced by the strategy it creates, which gets
\* _use_var_policy when use_var_policy is set.
StrategyArgs(c) ==
    [i \in DOMAIN c.dists |->
        [collective |-> c.dists[i].collective,
         use_var_policy |-> Truthy(Get(c.opts, "use_var_policy"))]]

\* Whether the test runs eagerly: EagerGraphCombination's mode argument
Eager(c) == Get(c.opts, "mode") # "graph"

\* _multi_worker_session: a session configured for the strategy's cluster
\* when the test runs in graph mode with exactly one strategy argument and
\* that strategy is a CollectiveAllReduceStrategy; a null context otherwise
multi_worker_session(c) ==
    LET ss == StrategyArgs(c)
    IN IF Len(ss) > 1 THEN "null"
       ELSE IF Eager(c) \/ ss = <<>> \/ ~ss[1].collective THEN "null"
       ELSE "cluster"

Total == num_total_workers(params.has_chief, params.num_workers)

\* The main process: one worker, so the body runs here
RunDirect ==
    /\ phase = "decorate"
    /\ Total = 1
    /\ \E b \in Bodies :
         /\ bodies' = (1 :> b)
         /\ session' = (1 :> multi_worker_session(combo))
         /\ outcome' = b
    /\ phase' = "done"
    /\ UNCHANGED <<ci, env, params, in_worker, results>>

\* The main process starts one process per task of the cluster spec (through
\* the pool runner, or multi_process_runner.run) and waits for all of them.
Spawn ==
    /\ phase = "decorate"
    /\ Total > 1
    /\ in_worker' = [w \in 1..Total |-> FALSE]
    /\ results' = [w \in 1..Total |-> None]
    /\ phase' = "wait"
    /\ UNCHANGED <<ci, env, params, bodies, session, outcome>>

\* _test_runner's classification: failures, expected failures and errors
\* are "failure"; otherwise a skip is "skipped"; anything else is "ok".
test_runner_status(b) ==
    IF b \in {"fail", "error"} THEN "failure"
    ELSE IF b = "skip" THEN "skipped" ELSE "ok"

\* Worker w: _test_runner sets _running_in_worker, loads the test by id and
\* runs it; the decorator sees the flag and runs the body in this process.
WorkerRun(w) ==
    /\ phase = "wait"
    /\ results[w] = None
    /\ in_worker' = [in_worker EXCEPT ![w] = TRUE]
    /\ \E b \in Bodies :
         /\ bodies' = bodies @@ (w :> b)
         /\ session' = session @@ (w :> multi_worker_session(combo))
         /\ results' = [results EXCEPT ![w] = test_runner_status(b)]
    /\ UNCHANGED <<ci, env, phase, params, outcome>>

\* Mutant of aggregate: the test is skipped at the first skipped result.
aggregate_skip_first(rs, skipped) ==
    IF rs = <<>> THEN (IF skipped THEN "skip" ELSE "pass")
    ELSE IF Head(rs) = "skipped" THEN "skip"
    ELSE IF Head(rs) = "failure" THEN "fail"
    ELSE "pass"

\* The loop over the results: self.fail at the first failure; a skip is only
\* recorded, and taken once no result failed.
RECURSIVE aggregate(_, _)
aggregate(rs, skipped) ==
    IF rs = <<>> THEN (IF skipped THEN "skip" ELSE "pass")
    ELSE IF Head(rs) = "failure" THEN "fail"
    ELSE aggregate(Tail(rs), skipped \/ Head(rs) = "skipped")

Collect ==
    /\ phase = "wait"
    /\ \A w \in DOMAIN results : results[w] # None
    /\ outcome' = aggregate(results, FALSE)
    /\ phase' = "done"
    /\ UNCHANGED <<ci, env, params, in_worker, results, bodies, session>>

Init ==
    /\ ci \in DOMAIN Combos
    /\ env \in Envs
    /\ phase = "resolve"
    /\ params = None
    /\ in_worker = <<>>
    /\ results = <<>>
    /\ bodies = <<>>
    /\ session = <<>>
    /\ outcome = None

Next ==
    \/ Resolve \/ RunDirect \/ Spawn \/ Collect
    \/ \E w \in 1..4 : w \in DOMAIN results /\ WorkerRun(w)

Spec == Init /\ [][Next]_vars

-----------------------------------------------------------------------------

TypeOK ==
    /\ ci \in DOMAIN Combos /\ env \in Envs
    /\ phase \in {"resolve", "decorate", "wait", "done"}
    /\ params = None \/ params.num_workers \in 1..3
    /\ \A w \in DOMAIN results : results[w] \in {None, "failure", "skipped", "ok"}
    /\ \A p \in DOMAIN bodies : bodies[p] \in Bodies
    /\ \A p \in DOMAIN session : session[p] \in {"cluster", "null"}
    /\ outcome \in {None, "error", "skip"} \cup Bodies

\* What one run of the body over the whole cluster amounts to: it fails if
\* it failed or raised anywhere, else it is skipped if it was skipped
\* anywhere, else it passed.
Combined(bs) ==
    IF \E p \in DOMAIN bs : bs[p] \in {"fail", "error"} THEN "fail"
    ELSE IF \E p \in DOMAIN bs : bs[p] = "skip" THEN "skip" ELSE "pass"

\* The outcome of a test that runs is the combined outcome of the body on
\* every task of the cluster: has_chief plus num_workers processes each ran
\* it once, and the main process reports a failure of any of them, and a
\* skip only if none failed, whatever order the results come back in.
OutcomeAgrees ==
    (phase = "done" /\ params # None) =>
        /\ DOMAIN bodies = 1..num_total_workers(params.has_chief, params.num_workers)
        /\ (IF outcome = "error" THEN "fail" ELSE outcome) = Combined(bodies)

=============================================================================
