--------------------------- MODULE ShardedVariable ---------------------------
(***************************************************************************)
(* ShardedVariableMixin and the functions registered for ShardedVariable   *)
(* in src/tensorflow/tensorflow/python/distribute/sharded_variable.py:     *)
(* a list of shard variables partitioned along axis 0, the whole-variable  *)
(* assignments that slice their argument at _var_offsets, the saveables   *)
(* that write each shard as a slice of the full variable, the restore of   *)
(* a checkpoint into a (possibly different) list of shards, the           *)
(* conversion to a tensor, and the embedding_lookup override.             *)
(*                                                                         *)
(* A shard is a sequence of rows; its length is v.shape[0]. Every layout   *)
(* of Layouts is a sequence of shard lengths that add up to N.            *)
(***************************************************************************)
EXTENDS Integers, Sequences, SequencesExt

CONSTANTS
    N, Width, IdLists, NoValue, Err,   \* as in FullVariable
    Layouts,   \* the lists of shard lengths a ShardedVariable is built with
    Strategies \* the partition_strategy arguments callers pass to the override

ASSUME \A l \in Layouts : FoldLeft(LAMBDA a, b : a + b, 0, l) = N /\ \A i \in DOMAIN l : l[i] > 0
ASSUME Strategies \subseteq {"div", "mod"}

Mod    == 2 ^ Width
Vals   == 0..(Mod - 1)
Tensor == [1..N -> Vals]

\* The shard variables of a layout, with any contents: shard i holds rows
\* l[1] + ... + l[i-1] + 1 onwards of some full tensor
ShardsOf(l) ==
    {[i \in DOMAIN l |->
        [r \in 1..l[i] |-> x[FoldLeft(LAMBDA a, b : a + b, 0, SubSeq(l, 1, i - 1)) + r]]] :
       x \in Tensor}

VARIABLES
    shards,  \* self._variables: their contents, in list order
    ckpt,    \* the slices in the checkpoint, or NoValue
    call     \* the last method called: its name, argument and result

vars == <<shards, ckpt, call>>

\* v.shape[0] of every shard
Sizes(sh) == [i \in DOMAIN sh |-> Len(sh[i])]

\* FixedShardsPartitioner.__call__ along axis 0: the number of shards
FixedShardsPartitioner(num_shards, dim) ==
    IF num_shards <= dim THEN num_shards ELSE dim

\* Mutant of var_offsets: the offset of shard i adds its own length
\* instead of the previous shard's.
var_offsets_own(sizes) ==
    LET off[i \in DOMAIN sizes] ==
            IF i = 1 THEN 0 ELSE off[i - 1] + sizes[i]
    IN off

\* __init__: _var_offsets[i][0] = _var_offsets[i-1][0] + variables[i-1].shape[0]
\* (the offsets on the other axes are 0 and are left out)
var_offsets(sizes) ==
    LET off[i \in DOMAIN sizes] ==
            IF i = 1 THEN 0 ELSE off[i - 1] + sizes[i - 1]
    IN off

\* __init__: shape[0] is the sum of the shards' first dimensions
first_dim(sizes) == FoldLeft(LAMBDA a, b : a + b, 0, sizes)

\* array_ops.slice(value, [begin], [size]) along axis 0
Slice(t, begin, size) == [r \in 1..size |-> t[begin + r]]

\* The assignment loops: shard i receives the slice of the argument that
\* starts at _var_offsets[i] and has v.shape.
Sliced(x) ==
    LET off == var_offsets(Sizes(shards))
    IN [i \in DOMAIN shards |-> Slice(x, off[i], Len(shards[i]))]

assign(x) ==
    /\ shards' = Sliced(x)
    /\ call' = [op |-> "assign", arg |-> x, ret |-> NoValue]
    /\ UNCHANGED ckpt

assign_add(d) ==
    LET part == Sliced(d)
    IN /\ shards' = [i \in DOMAIN shards |->
                       [r \in DOMAIN shards[i] |-> (shards[i][r] + part[i][r]) % Mod]]
       /\ call' = [op |-> "assign_add", arg |-> d, ret |-> NoValue]
       /\ UNCHANGED ckpt

assign_sub(d) ==
    LET part == Sliced(d)
    IN /\ shards' = [i \in DOMAIN shards |->
                       [r \in DOMAIN shards[i] |-> (shards[i][r] - part[i][r]) % Mod]]
       /\ call' = [op |-> "assign_sub", arg |-> d, ret |-> NoValue]
       /\ UNCHANGED ckpt

(***************************************************************************)
(* Checkpointing. _saveable_factory gives every shard a SaveSliceInfo      *)
(* whose var_offset is accumulated in its own loop, independently of      *)
(* _var_offsets. Restoring reads, for each shard of the restoring         *)
(* variable, the slice its own SaveSliceInfo names from the full tensor   *)
(* the checkpoint's slices make up.                                       *)
(***************************************************************************)

\* Mutant of SliceOffsets: var_offset[0] is advanced before the copy.
SliceOffsetsEarly(sizes) ==
    FoldLeft(LAMBDA acc, s : Append(acc, IF acc = <<>> THEN s
                                         ELSE acc[Len(acc)] + s),
             <<>>, sizes)

\* The var_offset of each SaveSliceInfo: copied, then advanced by v.shape[0]
SliceOffsets(sizes) ==
    LET step(acc, s) == [infos |-> Append(acc.infos, acc.var_offset),
                         var_offset |-> acc.var_offset + s]
    IN FoldLeft(step, [infos |-> <<>>, var_offset |-> 0], sizes).infos

\* _saveable_factory: one slice per shard, with full_shape, var_offset,
\* var_shape and the shard's contents
saveable_factory(sh) ==
    LET off == SliceOffsets(Sizes(sh))
    IN {[full_shape |-> first_dim(Sizes(sh)), var_offset |-> off[i],
         var_shape |-> Len(sh[i]), data |-> sh[i]] : i \in DOMAIN sh}

\* Row r (0-based) of the full tensor, read from the slice that holds it
CkptRow(c, r) ==
    LET s == CHOOSE s \in c : s.var_offset <= r /\ r < s.var_offset + s.var_shape
    IN s.data[r - s.var_offset + 1]

\* Every row of the full variable is held by exactly one slice
Tiles(c) ==
    \A r \in 0..(N - 1) :
        Cardinality({s \in c : s.var_offset <= r /\ r < s.var_offset + s.var_shape}) = 1

Save ==
    /\ ckpt' = saveable_factory(shards)
    /\ call' = [op |-> "save", arg |-> NoValue, ret |-> NoValue]
    /\ UNCHANGED shards

\* A ShardedVariable of layout l restored from the checkpoint
Restore(l) ==
    /\ ckpt # NoValue
    /\ LET off == SliceOffsets(l)
       IN shards' = [i \in DOMAIN l |-> [r \in 1..l[i] |-> CkptRow(ckpt, off[i] + r - 1)]]
    /\ call' = [op |-> "restore", arg |-> NoValue, ret |-> NoValue]
    /\ UNCHANGED ckpt

(***************************************************************************)
(* Reads.                                                                  *)
(***************************************************************************)

\* _var_to_tensor: raises for an incompatible dtype, for as_ref, and inside
\* an embedding_lookup name scope; otherwise concat(var.variables, axis=0)
var_to_tensor(dtypeOk, asRef, inLookupScope) ==
    /\ call' = [op |-> "read", arg |-> NoValue,
                ret |-> IF ~dtypeOk \/ asRef \/ inLookupScope THEN Err
                        ELSE FlattenSeq(shards)]
    /\ UNCHANGED <<shards, ckpt>>

\* embedding_lookup override: embedding_ops.embedding_lookup over
\* params.variables with the caller's partition_strategy ("mod" when the
\* caller gives none, "div" from embedding_lookup_v2). "mod" sends id to
\* shard id % n, row id \div n; "div" assumes the first N % n shards have
\* one row more than the others. A row past the end of its shard raises.
embedding_lookup(ids, partition_strategy) ==
    LET n     == Len(shards)
        total == first_dim(Sizes(shards))
        per   == total \div n
        extra == total % n
        Place(id) ==
            IF partition_strategy = "mod" THEN <<(id % n) + 1, id \div n>>
            ELSE IF id < extra * (per + 1)
                 THEN <<(id \div (per + 1)) + 1, id % (per + 1)>>
                 ELSE <<extra + ((id - extra * (per + 1)) \div per) + 1,
                        (id - extra * (per + 1)) % per>>
        InRange(id) == Place(id)[2] < Len(shards[Place(id)[1]])
    IN /\ call' = [op |-> "lookup", arg |-> ids,
                   ret |-> IF \A k \in DOMAIN ids : InRange(ids[k])
                           THEN [k \in DOMAIN ids |->
                                   shards[Place(ids[k])[1]][Place(ids[k])[2] + 1]]
                           ELSE Err]
       /\ UNCHANGED <<shards, ckpt>>

Init ==
    /\ \E l \in Layouts : shards \in ShardsOf(l)
    /\ ckpt = NoValue
    /\ call = NoValue

Next ==
    \/ \E x \in Tensor : assign(x) \/ assign_add(x) \/ assign_sub(x)
    \/ Save
    \/ \E l \in Layouts : Restore(l)
    \/ \E dtypeOk, asRef, inLookupScope \in BOOLEAN :
          var_to_tensor(dtypeOk, asRef, inLookupScope)
    \/ \E ids \in IdLists, ps \in Strategies : embedding_lookup(ids, ps)

Spec == Init /\ [][Next]_vars

-----------------------------------------------------------------------------

\* The checkpoint describes the full variable: the var_offset/var_shape of
\* the slices _saveable_factory writes cover every row exactly once, with
\* the full_shape of the variable, whatever layout saved it.
CheckpointTiles ==
    ckpt # NoValue => Tiles(ckpt) /\ \A s \in ckpt : s.full_shape = N

\* The full contents the checkpoint holds
SavedValue == IF ckpt = NoValue THEN NoValue
              ELSE [r \in 1..N |-> CkptRow(ckpt, r - 1)]

\* Refinement: with the full value taken as the concatenation of the
\* shards and the checkpoint's contents as the tensor its slices make up,
\* every step of ShardedVariable is a step of FullVariable.
FV == INSTANCE FullVariable WITH value <- FlattenSeq(shards), saved <- SavedValue

ImplementsFullVariable == FV!Spec

=============================================================================
