------------------------------ MODULE LiveSet ------------------------------
(***************************************************************************)
(* The live-set computation of node_collector                              *)
(* (lines 35-39 and 72-77 of src/openfaas/collector-kp/collector-1.py,     *)
(* whose lines 1-102 are the same text as collector.py) over               *)
(* names that are real character sequences, so that `model in p`, Python's *)
(* substring test, is modelled by what it does. Each Poll step is one      *)
(* cycle's list_namespaced_pod answer and the running_tensor_set computed  *)
(* from it by the loops of the code; it is checked against the set-based   *)
(* definition of the live set.                                             *)
(***************************************************************************)
EXTENDS Naturals, Sequences, SequencesExt

CONSTANTS
    Letters,     \* characters names are made of
    ModelLen,    \* longest model name
    PodLen,      \* longest pod name
    MaxPods,     \* longest pod list an API answer holds
    NumModels,   \* number of entries of MODEL_PATH
    Nodes,       \* node names of the cluster
    NodeName,    \* the node this collector runs on (read from /root/hostname)
    Tensors      \* tensor identifiers

ASSUME NodeName \in Nodes

Names(n) == BoundedSeq(Letters, n) \ {<<>>}

\* os.listdir(MODEL_PATH): distinct file names, in some order
ModelLists == {s \in [1..NumModels -> Names(ModelLen)] :
                  \A i, j \in 1..NumModels : i # j => s[i] # s[j]}

Pod == [name : Names(PodLen), node : Nodes]

VARIABLES
    models,              \* get_models()
    model_tensors,       \* get_tensors(models)
    pod_list,            \* pod_list.items of the last list_namespaced_pod
    running_tensor_set   \* computed from it

vars == <<models, model_tensors, pod_list, running_tensor_set>>

\* Python's `s in p` for strings: s is a contiguous piece of p
InStr(s, p) == s \in SubSeqs(p)

\* Mutant of is_running: `return False` indented into the loop, so only
\* the first pod is looked at.
is_running_first(model, pods) == pods # <<>> /\ InStr(model, Head(pods))

\* is_running: the loop returns at the first pod whose name contains model
RECURSIVE is_running(_, _)
is_running(model, pods) ==
    IF pods = <<>> THEN FALSE
    ELSE IF InStr(model, Head(pods)) THEN TRUE
    ELSE is_running(model, Tail(pods))

\* running_pods: names of the listed pods scheduled on this node
RunningPods(items) ==
    LET onNode == SelectSeq(items, LAMBDA p : p.node = NodeName)
    IN [i \in 1..Len(onNode) |-> onNode[i].name]

\* running_models, then the union loop over them
CollectRunning(ms, mt, items) ==
    LET running_pods   == RunningPods(items)
        running_models == SelectSeq(ms, LAMBDA m : is_running(m, running_pods))
    IN FoldLeft(LAMBDA acc, m : acc \cup mt[m], {}, running_models)

Init ==
    /\ models \in ModelLists
    /\ model_tensors \in [ToSet(models) -> SUBSET Tensors]
    /\ pod_list = <<>>
    /\ running_tensor_set = {}

\* One cycle: a new pod list arrives and the live set is recomputed.
Poll ==
    \E items \in BoundedSeq(Pod, MaxPods) :
        /\ pod_list' = items
        /\ running_tensor_set' = CollectRunning(models, model_tensors, items)
        /\ UNCHANGED <<models, model_tensors>>

Spec == Init /\ [][Poll]_vars

-----------------------------------------------------------------------------

TypeOK ==
    /\ models \in ModelLists
    /\ model_tensors \in [ToSet(models) -> SUBSET Tensors]
    /\ Len(pod_list) <= MaxPods /\ \A i \in 1..Len(pod_list) : pod_list[i] \in Pod
    /\ running_tensor_set \subseteq Tensors

\* Spec 4.2: a model is running iff its name is a substring of the name of
\* some workload on this node; the live set is the union of the tensors of
\* the running models. The loops of node_collector compute exactly this,
\* whatever the order of the listing and of the pod list.
LiveSetCorrect ==
    running_tensor_set =
        UNION {model_tensors[m] :
                 m \in {mm \in ToSet(models) :
                          \E p \in ToSet(pod_list) :
                             p.node = NodeName /\ InStr(mm, p.name)}}

=============================================================================
