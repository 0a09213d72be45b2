----------------------------- MODULE Collector -----------------------------
(***************************************************************************)
(* The node-local tensor reclaimer of src/openfaas/collector-kp/collector.py *)
(* (node_collector and the helpers it calls) together with the processes  *)
(* it shares the node with: the Kubernetes pods of the node and the       *)
(* serving runtimes inside them, which publish tensor files into the      *)
(* shared-memory directory and read them under a lock file.              *)
(*                                                                         *)
(* The collector loop is split at the points where other processes can    *)
(* act between its steps: the pod list is read (ListPods), the cache       *)
(* directory is listed and the keep-alive dictionary updated (Reconcile), *)
(* and each expired tensor is checked (DeleteCheck) and then removed once *)
(* its exclusive lockf lock is granted (Evict).                           *)
(***************************************************************************)
EXTENDS Naturals, FiniteSets, TLC

CONSTANTS
    Models,        \* model identities: the file names under MODEL_PATH
    Tensors,       \* tensor identifiers: file names under MEMORY_PATH / LOCK_PATH
    Pods,          \* names of the pods that may be scheduled on this node
    ModelTensors,  \* the manifests read once by get_tensors: [Models -> SUBSET Tensors]
    Matches,       \* Matches[p]: the models m with `m in p` (substring of the pod name)
    PodModel,      \* the model the runtime of pod p actually serves
    Period,        \* COLLECT_PERIOD, in abstract time units
    Jitter,        \* extra time a cycle may take beyond the sleep (API latency, lock waits)
    Grace,         \* KEEP_ALIVE, in the same time units
    MaxCrashes,    \* bound on collector process restarts in one behaviour
    MaxClockSteps, \* bound on wall-clock adjustments in one behaviour
    Skew,          \* size of one forward step of datetime.now() (NTP, DST)
    NoTensor       \* model value: no tensor is being evicted

ASSUME /\ ModelTensors \in [Models -> SUBSET Tensors]
       /\ Matches \in [Pods -> SUBSET Models]
       /\ PodModel \in [Pods -> Models]
       \* a pod of model m has m's name in its own name
       /\ \A p \in Pods : PodModel[p] \in Matches[p]
       /\ Period \in Nat \ {0} /\ Jitter \in Nat /\ Grace \in Nat \ {0}
       /\ MaxCrashes \in Nat /\ NoTensor \notin Tensors
       /\ MaxClockSteps \in Nat /\ Skew \in Nat \ {0}

VARIABLES
    pods,       \* pods currently running on the node
    gone,       \* pods that ran and terminated (pod names are never reused)
    memory,     \* files present in MEMORY_PATH
    lockfiles,  \* files present in LOCK_PATH
    readers,    \* readers[t]: pods holding a shared lock on LOCK_PATH + t
    loaded,     \* loaded[p]: tensors the runtime of p has already mapped
    keepAlive,  \* keep_alive_dict, as the time elapsed since each entry's timestamp
    live,       \* running_tensor_set of the current cycle
    pending,    \* expired tensors the current delete_tensors call has not handled yet
    cur,        \* the tensor whose exclusive lock delete_tensors is waiting for
    pc,         \* where node_collector is: "sleep", "reconcile", "delete", "lock"
    crashes,    \* collector restarts so far
    clockSteps, \* wall-clock adjustments so far
    idle,       \* history: time since t last appeared in a cycle's live set
    realAge     \* history: real time since each keep_alive_dict entry was stamped

envVars  == <<pods, gone, memory, lockfiles, readers, loaded, clockSteps>>
collVars == <<keepAlive, live, pending, cur, pc, crashes>>
histVars == <<idle, realAge>>
vars     == <<envVars, collVars, histVars>>

(***************************************************************************)
(* Keep-alive ages. The code compares keep_alive_dict[t] + KEEP_ALIVE with *)
(* now(); only whether the elapsed time has reached Grace matters, so the  *)
(* elapsed time is kept and saturates at Grace.                            *)
(***************************************************************************)
Aged(a, d) == IF a + d >= Grace THEN Grace ELSE a + d

\* is_running(model, pods): some running pod's name contains the model name
is_running(m, ps) == \E p \in ps : m \in Matches[p]

\* running_models and the union that builds running_tensor_set
RunningTensors(ps) ==
    UNION {ModelTensors[m] : m \in {mm \in Models : is_running(mm, ps)}}

\* get_existing_tensors: the names listed in MEMORY_PATH
get_existing_tensors == memory

\* get_expired_tensor: tracked tensors whose timestamp is Grace old
ExpiredTensors(deleteSet, ka) ==
    {t \in deleteSet \cap DOMAIN ka : ka[t] >= Grace}

\* Mutant of StampNew: every unused tensor is re-stamped each cycle (the
\* `if t in keep_alive_dict` test lost).
StampAll(deleteSet, ka) ==
    [t \in DOMAIN ka \cup deleteSet |-> IF t \in deleteSet THEN 0 ELSE ka[t]]

\* get_expired_tensor's side effect: untracked tensors are stamped with now()
StampNew(deleteSet, ka) ==
    [t \in DOMAIN ka \cup deleteSet |-> IF t \in DOMAIN ka THEN ka[t] ELSE 0]

(***************************************************************************)
(* Collector (node_collector).                                             *)
(***************************************************************************)

\* Mutant of ListPods: running_tensor_set is not rebuilt from the new pod
\* list (the last cycle's set is reused).
ListPodsStale ==
    /\ pc = "sleep"
    /\ \E d \in Period..(Period + Jitter) :
         /\ keepAlive' = [t \in DOMAIN keepAlive |-> Aged(keepAlive[t], d)]
         /\ realAge' = [t \in DOMAIN realAge |-> Aged(realAge[t], d)]
         /\ live' = live
         /\ idle' = [t \in Tensors |->
                       IF t \in live' THEN 0 ELSE Aged(idle[t], d)]
    /\ pc' = "reconcile"
    /\ UNCHANGED <<envVars, pending, cur, crashes>>

\* time.sleep(COLLECT_PERIOD); list_namespaced_pod; running_pods and
\* running_tensor_set. The sleep and the API call take d time units.
ListPods ==
    /\ pc = "sleep"
    /\ \E d \in Period..(Period + Jitter) :
         /\ keepAlive' = [t \in DOMAIN keepAlive |-> Aged(keepAlive[t], d)]
         /\ realAge' = [t \in DOMAIN realAge |-> Aged(realAge[t], d)]
         /\ live' = RunningTensors(pods)
         /\ idle' = [t \in Tensors |->
                       IF t \in live' THEN 0 ELSE Aged(idle[t], d)]
    /\ pc' = "reconcile"
    /\ UNCHANGED <<envVars, pending, cur, crashes>>

\* get_existing_tensors; delete_tensor_set; get_expired_tensor.
Reconcile ==
    /\ pc = "reconcile"
    /\ LET deleteSet == get_existing_tensors \ live
           expired   == ExpiredTensors(deleteSet, keepAlive)
       IN /\ keepAlive' = StampNew(deleteSet, keepAlive)
          /\ realAge' = StampNew(deleteSet, realAge)
          /\ pending' = expired
          /\ pc' = IF expired = {} THEN "sleep" ELSE "delete"
    /\ UNCHANGED <<envVars, live, cur, crashes, idle>>

\* delete_tensors, one loop iteration up to the blocking lockf call:
\* both files must exist, otherwise the tensor is skipped.
DeleteCheck ==
    /\ pc = "delete"
    /\ \E t \in pending :
         /\ pending' = pending \ {t}
         /\ IF t \in lockfiles /\ t \in memory
              THEN /\ cur' = t
                   /\ pc' = "lock"
              ELSE /\ cur' = NoTensor
                   /\ pc' = IF pending' = {} THEN "sleep" ELSE "delete"
    /\ UNCHANGED <<envVars, keepAlive, live, crashes, histVars>>

\* Mutant of Evict: the file is removed without taking the lock.
EvictUnlocked ==
    /\ pc = "lock"
    /\ cur \in memory
    /\ memory' = memory \ {cur}
    /\ cur' = NoTensor
    /\ pc' = IF pending = {} THEN "sleep" ELSE "delete"
    /\ UNCHANGED <<pods, gone, lockfiles, readers, loaded, clockSteps,
                   keepAlive, live, pending, crashes, histVars>>

\* lockf(LOCK_EX) is granted once no runtime holds the lock; os.remove;
\* lockf(LOCK_UN). Nothing else can take the lock between grant and unlock.
Evict ==
    /\ pc = "lock"
    /\ readers[cur] = {}
    /\ cur \in memory
    /\ memory' = memory \ {cur}
    /\ cur' = NoTensor
    /\ pc' = IF pending = {} THEN "sleep" ELSE "delete"
    /\ UNCHANGED <<pods, gone, lockfiles, readers, loaded, clockSteps,
                   keepAlive, live, pending, crashes, histVars>>

\* The lock is granted but the cache file has vanished since the
\* os.path.exists test: os.remove raises FileNotFoundError, nothing catches
\* it, and the process is restarted with an empty keep_alive_dict. The
\* expired tensors of the cycle not handled yet are dropped with it.
EvictFail ==
    /\ pc = "lock"
    /\ readers[cur] = {}
    /\ cur \notin memory
    /\ keepAlive' = <<>>
    /\ realAge' = <<>>
    /\ pending' = {}
    /\ cur' = NoTensor
    /\ pc' = "sleep"
    /\ UNCHANGED <<envVars, live, crashes, idle>>

\* list_namespaced_pod or os.listdir raises; nothing catches it, the
\* process exits and is restarted with an empty keep_alive_dict.
Crash ==
    /\ pc \in {"sleep", "reconcile"}
    /\ crashes < MaxCrashes
    /\ crashes' = crashes + 1
    /\ keepAlive' = <<>>
    /\ realAge' = <<>>
    /\ pc' = "sleep"
    /\ UNCHANGED <<envVars, live, pending, cur, idle>>

(***************************************************************************)
(* Environment: pods and serving runtimes.                                 *)
(***************************************************************************)

PodStart(p) ==
    /\ p \notin pods \cup gone
    /\ pods' = pods \cup {p}
    /\ UNCHANGED <<gone, memory, lockfiles, readers, loaded, clockSteps,
                   collVars, histVars>>

\* A pod terminates; its process's locks are released with it.
PodStop(p) ==
    /\ p \in pods
    /\ pods' = pods \ {p}
    /\ gone' = gone \cup {p}
    /\ readers' = [t \in Tensors |-> readers[t] \ {p}]
    /\ UNCHANGED <<memory, lockfiles, loaded, clockSteps, collVars, histVars>>

\* The runtime opens LOCK_PATH + t, takes a shared lock once no exclusive
\* lock is held, and materialises MEMORY_PATH + t if it is absent.
RuntimeLoad(p, t) ==
    /\ p \in pods
    /\ t \in ModelTensors[PodModel[p]] \ loaded[p]
    /\ lockfiles' = lockfiles \cup {t}
    /\ memory' = memory \cup {t}
    /\ readers' = [readers EXCEPT ![t] = @ \cup {p}]
    /\ loaded' = [loaded EXCEPT ![p] = @ \cup {t}]
    /\ UNCHANGED <<pods, gone, clockSteps, collVars, histVars>>

RuntimeRelease(p, t) ==
    /\ p \in readers[t]
    /\ readers' = [readers EXCEPT ![t] = @ \ {p}]
    /\ UNCHANGED <<pods, gone, memory, lockfiles, loaded, clockSteps,
                   collVars, histVars>>

\* A cache file disappears from outside the collector (spec 4.4: "tensor
\* disappeared externally"), e.g. a cleanup that respects the lock protocol.
ExternalRemove(t) ==
    /\ t \in memory
    /\ readers[t] = {}
    /\ memory' = memory \ {t}
    /\ UNCHANGED <<pods, gone, lockfiles, readers, loaded, clockSteps,
                   collVars, histVars>>

\* datetime.now() steps forward by Skew (an NTP correction, a DST change of
\* the local time): every keep_alive_dict timestamp is Skew older on the
\* wall clock, while no real time passes.
ClockStep ==
    /\ clockSteps < MaxClockSteps
    /\ clockSteps' = clockSteps + 1
    /\ keepAlive' = [t \in DOMAIN keepAlive |-> Aged(keepAlive[t], Skew)]
    /\ UNCHANGED <<pods, gone, memory, lockfiles, readers, loaded,
                   live, pending, cur, pc, crashes, histVars>>

(***************************************************************************)
(* Initial states: the collector starts on a node whose cache and lock     *)
(* directories may hold anything left by earlier runs, with any pods up.  *)
(***************************************************************************)
Init ==
    /\ pods \in SUBSET Pods
    /\ gone = {}
    /\ memory \in SUBSET Tensors
    /\ lockfiles \in SUBSET Tensors
    /\ readers = [t \in Tensors |-> {}]
    /\ loaded = [p \in Pods |-> {}]
    /\ keepAlive = <<>>
    /\ live = {}
    /\ pending = {}
    /\ cur = NoTensor
    /\ pc = "sleep"
    /\ crashes = 0
    /\ clockSteps = 0
    /\ idle = [t \in Tensors |-> 0]
    /\ realAge = <<>>

CollectorStep == ListPods \/ Reconcile \/ DeleteCheck \/ Evict \/ EvictFail

Environment ==
    \/ \E p \in Pods : PodStart(p) \/ PodStop(p)
    \/ \E p \in Pods, t \in Tensors : RuntimeLoad(p, t) \/ RuntimeRelease(p, t)
    \/ \E t \in Tensors : ExternalRemove(t)
    \/ ClockStep

Next == CollectorStep \/ Crash \/ Environment

\* The loop never stops of its own accord, and a runtime releases a lock it
\* took once it has mapped the file.
Fairness ==
    /\ WF_vars(CollectorStep)
    /\ \A p \in Pods, t \in Tensors : WF_vars(RuntimeRelease(p, t))

Spec == Init /\ [][Next]_vars /\ Fairness

(***************************************************************************)
(* Properties.                                                             *)
(***************************************************************************)

\* t's file leaves MEMORY_PATH in this step
Removed(t) == t \in memory /\ t \notin memory'

\* t's file is removed by a step of the collector (only the collector's
\* steps move pc; an external removal leaves it unchanged)
Evicted(t) == Removed(t) /\ pc' # pc

\* A runtime that holds the lock of a tensor (it is mapping the file) never
\* has the file unlinked under it: delete_tensors' exclusive lockf must
\* wait for every runtime's shared lock, whatever pods start, load, release
\* and stop between the collector's snapshot, its check and its lock call.
ReaderNeverLosesFile ==
    \A t \in Tensors : readers[t] # {} => t \in memory

\* A tensor nobody demands any more, once published with its lock file, is
\* eventually reclaimed by the loop, despite crashes of the collector
\* (keep_alive_dict is rebuilt from scratch) and runtimes holding locks.
EventuallyReclaimed ==
    \A t \in Tensors :
        <>[](t \notin RunningTensors(pods) /\ t \in lockfiles)
            => <>[](t \notin memory)

\* Demand resets the debounce (spec 4.4 and 8): a tensor is removed only
\* after it has been absent from the live set for a continuous Grace.
GraceRespected ==
    [][\A t \in Tensors : Evicted(t) => idle[t] >= Grace]_vars

\* Errors are contained per tensor (spec 7) and a cache file already absent
\* at eviction time is a no-op (spec 4.5): a tensor leaves the expired set
\* of the running delete_tensors call only when that call takes it up, one
\* at a time, so one vanished file never drops the others of the cycle.
ExpiredHandledIndependently ==
    [][pending \ pending' # {} =>
         pc = "delete" /\ Cardinality(pending \ pending') = 1]_vars

\* KEEP_ALIVE is a duration (spec 4.4): a tensor is evicted only once its
\* keep_alive_dict entry has existed for Grace of real time, whatever
\* happens to the wall clock datetime.now() reads.
RealGraceRespected ==
    [][\A t \in Tensors :
         Evicted(t) => t \in DOMAIN realAge /\ realAge[t] >= Grace]_vars

\* The collector implements the reclaimer of spec 4 and 5: the live set of
\* the cycle is its observation, the pc between the pod list and the
\* reconciliation says it is not yet used, and the expired tensors not
\* yet handled (with the one whose lock it waits for) are its candidates.
\* Every removal the loop makes, through crashes, failing removals and
\* clock steps, is then one of a candidate from the latest observation
\* that has its lock file and no reader.
R == INSTANCE Reclaimer
       WITH snapshot <- live, observed <- (pc = "reconcile"),
            candidates <- pending \cup (IF pc = "lock" THEN {cur} ELSE {})

ImplementsReclaimer == R!Spec

=============================================================================
