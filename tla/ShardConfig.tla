---------------------------- MODULE ShardConfig ----------------------------
(***************************************************************************)
(* Stage 5: configurations of the shard controller and the pure functions  *)
(* that make the next one (config.go).  A group's addresses do not matter; *)
(* groups is the set of the ids that have some.  Group 0 is "no group".    *)
(***************************************************************************)
EXTENDS Integers, FiniteSets, FiniteSetsExt

CONSTANT NShards

ASSUME NShardsAssumption == NShards \in Nat \ {0}

Shard == 0 .. NShards - 1

ZeroConfig == [num |-> 0, groups |-> {}, shards |-> [s \in Shard |-> 0]]

\* How many members of S come before x in ascending order.
Rank(x, S) == Cardinality({y \in S : y < x})

Owned(shards, g) == {s \in Shard : shards[s] = g}

\* The first groups take one shard more when the division leaves a remainder.
targetOf(g, groups) ==
    LET n == Cardinality(groups)
    IN NShards \div n + (IF Rank(g, groups) < NShards % n THEN 1 ELSE 0)

\* Mutant: a group keeps all it has.
Kept_all(shards, groups) == {s \in Shard : shards[s] \in groups}

\* The shards that stay: the lowest ones of each group, up to its target.
Kept(shards, groups) ==
    {s \in Shard : /\ shards[s] \in groups
                   /\ Rank(s, Owned(shards, shards[s])) < targetOf(shards[s], groups)}

\* Mutant: every shard is dealt out anew.
rebalance_anew(shards, groups) ==
    [s \in Shard |->
        IF groups = {} THEN 0
        ELSE CHOOSE g \in groups : Rank(g, groups) = s % Cardinality(groups)]

\* The others are handed out in ascending order, to the groups in ascending
\* order, each as many as it lacks.
rebalance(shards, groups) ==
    LET kept == Kept(shards, groups)
        need == [g \in groups |->
                    Max({0, targetOf(g, groups) - Cardinality(Owned(shards, g) \cap kept)})]
        before(g) == MapThenSumSet(LAMBDA h : need[h], {h \in groups : h < g})
        taker(s) == CHOOSE g \in groups :
                        Rank(s, Shard \ kept) \in before(g) .. before(g) + need[g] - 1
    IN [s \in Shard |-> CASE groups = {} -> 0
                          [] s \in kept  -> shards[s]
                          [] OTHER       -> taker(s)]

Rebalanced(cfg, groups) ==
    [num |-> cfg.num + 1, groups |-> groups, shards |-> rebalance(cfg.shards, groups)]
Join(cfg, gids) == Rebalanced(cfg, cfg.groups \cup gids)
Leave(cfg, gids) == Rebalanced(cfg, cfg.groups \ gids)

Move(cfg, shard, gid) ==
    [cfg EXCEPT !.num = @ + 1, !.shards[shard] = gid]

(***************************************************************************)
(* Reference definitions.                                                  *)
(***************************************************************************)

\* The loads the code aims at.
OnTarget(shards, groups) ==
    \A g \in groups : Cardinality(Owned(shards, g)) = targetOf(g, groups)

Moved(old, new) == Cardinality({s \in Shard : old[s] # new[s]})

\* No assignment with these loads moves fewer shards.
FewestMoves(old, new, groups) ==
    \A f \in [Shard -> groups] : OnTarget(f, groups) => Moved(old, new) <= Moved(old, f)

Balanced(shards, groups) ==
    /\ \A s \in Shard : IF groups = {} THEN shards[s] = 0 ELSE shards[s] \in groups
    /\ \A g, h \in groups : Cardinality(Owned(shards, g)) <= Cardinality(Owned(shards, h)) + 1
=============================================================================
