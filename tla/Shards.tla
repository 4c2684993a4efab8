------------------------------- MODULE Shards -------------------------------
(***************************************************************************)
(* utils/shard.py: partition_node_ids(), the loop that cuts the collected  *)
(* node-ids into contiguous groups, one per mapped task of a sharded DAG.  *)
(* A group is the interval of positions it takes from the collected list.  *)
(***************************************************************************)
EXTENDS Integers, Sequences

VARIABLES
  count,       \* how many ids were collected
  wanted,      \* num_shards
  groups,      \* the groups cut so far: [first, last]
  start        \* ids handed out so far

sharding == <<count, wanted, groups, start>>

shards == IF wanted <= count THEN wanted ELSE count
base   == count \div shards
extra  == count % shards

ShardInit ==
  /\ count \in Nat /\ wanted \in Nat \ {0}
  /\ groups = <<>> /\ start = 0

\* The groups are cut in order; the first `extra` of them take one id more.
SizeOf(i) == base + IF i <= extra THEN 1 ELSE 0

\* Bug: the remainder goes to nobody.
CutEven ==
  /\ Len(groups) < shards
  /\ start' = start + base
  /\ groups' = Append(groups, [first |-> start + 1, last |-> start'])
  /\ UNCHANGED <<count, wanted>>

Cut ==
  /\ Len(groups) < shards
  /\ start' = start + SizeOf(Len(groups) + 1)
  /\ groups' = Append(groups, [first |-> start + 1, last |-> start'])
  /\ UNCHANGED <<count, wanted>>

Sharded == Len(groups) = shards

ShardSpec == ShardInit /\ [][Cut]_sharding

----------------------------------------------------------------------------
(* What a sharded DAG relies on *)

Size(g) == g.last - g.first + 1
Holds(g, j) == g.first <= j /\ j <= g.last

\* Every collected test is in exactly one group, no group is empty (pytest reads
\* that as "collect everything"), and no two sizes differ by more than one,
\* though the ids do not divide evenly or are fewer than the shards (28-75).
FairShares ==
  Sharded =>
    /\ \A j \in 1..count : \E k \in DOMAIN groups : Holds(groups[k], j)
    /\ \A k, l \in DOMAIN groups :
         /\ Size(groups[k]) >= 1
         /\ Size(groups[k]) <= Size(groups[l]) + 1
         /\ k < l => groups[k].last < groups[l].first
=============================================================================
