------------------------- MODULE MC_ShardedVariable -------------------------
EXTENDS ShardedVariable

CONSTANTS e, nv

\* The split of N rows into n shards that embedding_lookup's "div" strategy
\* assumes: the first N % n shards hold one row more than the others.
DivLayout(n) == [i \in 1..n |-> N \div n + (IF i <= N % n THEN 1 ELSE 0)]

\* Layouts from FixedShardsPartitioner(num_shards) for 1 to 4 shards
PartitionerLayouts == {DivLayout(FixedShardsPartitioner(k, N)) : k \in 1..4}

\* The same, and the uneven layouts the constructor also accepts (its
\* docstring builds one of shard lengths 10, 15 and 5)
AnyLayouts == PartitionerLayouts \cup {<<1, 2>>}

MCIdLists == {<<0>>, <<1>>, <<2>>, <<2, 0>>}
=============================================================================
