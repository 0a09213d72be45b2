------------------------- MODULE MC_DistributedTest -------------------------
(* Combinations for DistributedTest: single- and multi-worker strategies,  *)
(* cluster arguments without a strategy, hardware requirements, and the   *)
(* contradictory arguments the checks reject.                             *)
EXTENDS DistributedTest, TLC

CONSTANT none

\* A NamedDistribution's constructor arguments
ND(hc, nw, pool, gpus, tpu, cloud, noxla, coll) ==
    [has_chief |-> hc, num_workers |-> nw, use_pool_runner |-> pool,
     required_gpus |-> gpus, required_tpu |-> tpu, use_cloud_tpu |-> cloud,
     no_xla |-> noxla, collective |-> coll]

OneDevice   == ND(FALSE, 1, FALSE, none, 0, FALSE, FALSE, FALSE)
MirroredGpu == ND(FALSE, 1, FALSE, 2, 0, FALSE, TRUE, FALSE)
Tpu         == ND(FALSE, 1, FALSE, none, 1, TRUE, FALSE, FALSE)
ChiefWorker == ND(TRUE, 1, TRUE, none, 0, FALSE, FALSE, TRUE)
LocalCollective == ND(FALSE, 1, FALSE, none, 0, FALSE, FALSE, TRUE)
TwoWorkers  == ND(FALSE, 2, FALSE, 1, 0, FALSE, FALSE, TRUE)

NoOpts == [k \in {} |-> none]

MCCombos ==
  << [dists |-> <<>>, opts |-> NoOpts],
    [dists |-> <<OneDevice>>, opts |-> NoOpts],
    [dists |-> <<MirroredGpu>>, opts |-> NoOpts],
    [dists |-> <<Tpu>>, opts |-> NoOpts],
    [dists |-> <<ChiefWorker>>, opts |-> NoOpts],
    [dists |-> <<ChiefWorker>>, opts |-> ("mode" :> "graph")],
    [dists |-> <<LocalCollective>>, opts |-> ("mode" :> "graph")],
    [dists |-> <<TwoWorkers>>, opts |-> ("num_workers" :> 2 @@ "mode" :> "graph"
                                         @@ "use_var_policy" :> 1)],
    [dists |-> <<>>, opts |-> ("has_chief" :> TRUE @@ "num_workers" :> 2)],
    [dists |-> <<OneDevice>>, opts |-> ("required_gpus" :> 1)],
    [dists |-> <<>>, opts |-> ("required_tpus" :> 1 @@ "required_tpu" :> 1)],
    [dists |-> <<ChiefWorker>>, opts |-> ("has_chief" :> FALSE)],
    [dists |-> <<OneDevice, ChiefWorker>>, opts |-> NoOpts],
    [dists |-> <<ChiefWorker, OneDevice>>, opts |-> NoOpts] >>

=============================================================================
