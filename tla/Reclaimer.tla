----------------------------- MODULE Reclaimer -----------------------------
(***************************************************************************)
(* What the node-local reclaimer promises (spec 4 and 5), without its     *)
(* bookkeeping: it repeatedly observes which tensors the running pods      *)
(* need, selects some of the other cached tensors as candidates, and       *)
(* removes candidates one at a time, each only when its lock file exists  *)
(* and no runtime holds its lock. A candidate may be dropped, and all of  *)
(* them may be forgotten (an error, a restart); a new observation is only *)
(* made once the candidates of the last one are used up.                  *)
(*                                                                         *)
(* The grace period is not part of this specification: which unused       *)
(* tensors are selected is left open. The directories and the pods change *)
(* under the reclaimer in any way that never unlinks a file a runtime     *)
(* holds.                                                                  *)
(***************************************************************************)
CONSTANTS Models, Tensors, Pods, ModelTensors, Matches

VARIABLES
    pods,        \* pods running on the node
    memory,      \* files present in MEMORY_PATH
    lockfiles,   \* files present in LOCK_PATH
    readers,     \* readers[t]: pods holding a shared lock on t
    snapshot,    \* the tensors the last observation found needed
    observed,    \* an observation has been made and not yet used
    candidates   \* tensors selected for removal and not yet handled

Needed(ps) == UNION {ModelTensors[m] : m \in {m \in Models : \E p \in ps : m \in Matches[p]}}

Observe ==
    /\ candidates = {} /\ ~observed
    /\ snapshot' = Needed(pods)
    /\ observed' = TRUE
    /\ UNCHANGED <<pods, memory, lockfiles, readers, candidates>>

Select ==
    /\ observed
    /\ candidates' \subseteq memory \ snapshot
    /\ observed' = FALSE
    /\ UNCHANGED <<pods, memory, lockfiles, readers, snapshot>>

Reclaim(t) ==
    /\ t \in candidates /\ t \in memory /\ t \in lockfiles
    /\ readers[t] = {}
    /\ memory' = memory \ {t}
    /\ candidates' = candidates \ {t}
    /\ UNCHANGED <<pods, lockfiles, readers, snapshot, observed>>

Drop(t) ==
    /\ t \in candidates
    /\ candidates' = candidates \ {t}
    /\ UNCHANGED <<pods, memory, lockfiles, readers, snapshot, observed>>

Forget ==
    /\ candidates' = {} /\ observed' = FALSE
    /\ UNCHANGED <<pods, memory, lockfiles, readers, snapshot>>

\* Pods come and go, runtimes publish files and take and release locks,
\* and a file nobody holds may vanish; lock files are never removed.
Environment ==
    /\ pods' \subseteq Pods /\ memory' \subseteq Tensors
    /\ readers' \in [Tensors -> SUBSET Pods]
    /\ lockfiles \subseteq lockfiles' /\ lockfiles' \subseteq Tensors
    /\ \A t \in memory \ memory' : readers[t] = {}
    /\ UNCHANGED <<snapshot, observed, candidates>>

Init ==
    /\ pods \subseteq Pods /\ memory \subseteq Tensors /\ lockfiles \subseteq Tensors
    /\ readers = [t \in Tensors |-> {}]
    /\ snapshot = {} /\ observed = FALSE /\ candidates = {}

Next ==
    \/ Observe \/ Select \/ Forget \/ Environment
    \/ \E t \in Tensors : Reclaim(t) \/ Drop(t)

Spec == Init /\ [][Next]_<<pods, memory, lockfiles, readers, snapshot, observed, candidates>>

=============================================================================
