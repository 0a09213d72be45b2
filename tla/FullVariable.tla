---------------------------- MODULE FullVariable ----------------------------
(***************************************************************************)
(* What a ShardedVariable promises to its users (the class docstring of    *)
(* ShardedVariable in src/tensorflow/tensorflow/python/distribute/         *)
(* sharded_variable.py): it behaves as one larger variable with N rows.    *)
(* It is assigned, added to and subtracted from as a whole, read as a      *)
(* whole, looked up row by row, saved to a checkpoint and restored from it *)
(* "as if [the shards] were a single larger variable".                     *)
(*                                                                         *)
(* Sharding is along the first axis only, so a row stands for a whole     *)
(* slice along the other axes. Row values are integers of Width bits:     *)
(* arithmetic wraps, as it does for TensorFlow's integer dtypes.          *)
(***************************************************************************)
EXTENDS Integers, Sequences

CONSTANTS
    N,        \* number of rows of the full variable (its shape[0])
    Width,    \* bits of a row value
    IdLists,  \* the id vectors a lookup may be called with (0-based rows)
    NoValue,  \* model value: nothing saved / nothing read yet
    Err       \* model value: the call raised

ASSUME N \in Nat \ {0} /\ Width \in Nat \ {0}
ASSUME \A ids \in IdLists : \A k \in DOMAIN ids : ids[k] \in 0..(N - 1)

Mod    == 2 ^ Width
Vals   == 0..(Mod - 1)
Tensor == [1..N -> Vals]

VARIABLES
    value,   \* the contents of the variable
    saved,   \* the contents in the checkpoint, or NoValue
    call     \* the last operation called: its name, argument and result

vars == <<value, saved, call>>

Init ==
    /\ value \in Tensor
    /\ saved = NoValue
    /\ call = NoValue

\* Writes: the new contents are determined by the argument of the call.
Assign(x)    == /\ value' = x
                /\ call' = [op |-> "assign", arg |-> x, ret |-> NoValue]
                /\ UNCHANGED saved
AssignAdd(d) == /\ value' = [r \in 1..N |-> (value[r] + d[r]) % Mod]
                /\ call' = [op |-> "assign_add", arg |-> d, ret |-> NoValue]
                /\ UNCHANGED saved
AssignSub(d) == /\ value' = [r \in 1..N |-> (value[r] - d[r]) % Mod]
                /\ call' = [op |-> "assign_sub", arg |-> d, ret |-> NoValue]
                /\ UNCHANGED saved
Save         == /\ saved' = value
                /\ call' = [op |-> "save", arg |-> NoValue, ret |-> NoValue]
                /\ UNCHANGED value
Restore      == /\ saved # NoValue
                /\ value' = saved
                /\ call' = [op |-> "restore", arg |-> NoValue, ret |-> NoValue]
                /\ UNCHANGED saved

\* A conversion to a tensor yields the value, or raises for a request the
\* variable does not support (another dtype, a reference).
Read == /\ \E ret \in {value, Err} :
            call' = [op |-> "read", arg |-> NoValue, ret |-> ret]
        /\ UNCHANGED <<value, saved>>

\* A lookup gathers the requested rows.
Lookup(ids) == /\ call' = [op |-> "lookup", arg |-> ids,
                             ret |-> [k \in DOMAIN ids |-> value[ids[k] + 1]]]
               /\ UNCHANGED <<value, saved>>

Next ==
    \/ \E x \in Tensor : Assign(x) \/ AssignAdd(x) \/ AssignSub(x)
    \/ Save \/ Restore \/ Read
    \/ \E ids \in IdLists : Lookup(ids)

Spec == Init /\ [][Next]_vars

=============================================================================
