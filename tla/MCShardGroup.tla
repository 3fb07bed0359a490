---------------------------- MODULE MCShardGroup ----------------------------
(***************************************************************************)
(* Shard groups on small instances: the replicas of each group and the     *)
(* owners of the shards in the controller's successive configs.            *)
(***************************************************************************)
EXTENDS ShardGroup, TLC

CONSTANTS g1, g2, g3, a, d, e, f, A

\* Which groups the replicas belong to: three groups, of one, two and one
\* replicas; two groups of one.
Trio == (a :> g1) @@ (d :> g2) @@ (e :> g2) @@ (f :> g3)
Duo == (a :> g1) @@ (d :> g2)

All(g) == [s \in Shard |-> g]

\* A shard handed on from group to group; there and back again.
Chain == <<All(g1), All(g2), All(g3)>>
Return == <<All(g1), All(g2), All(g1)>>

\* The state once every replica has applied its first leader's no-op and the
\* first config.  The runs start here and spend their bounds on the configs
\* that move shards.
First == [EmptyKV EXCEPT !.cfg = 1]
InitServing ==
    /\ latest = 1
    /\ log = [g \in Group |-> <<[type |-> "Noop", term |-> 1], [type |-> "Config", num |-> 1]>>]
    /\ commit = [g \in Group |-> 2]
    /\ leader = [g \in Group |-> CHOOSE r \in Replica : GroupOf[r] = g]
    /\ term = [g \in Group |-> 1]
    /\ kv = [r \in Replica |-> First]
    /\ applied = [r \in Replica |-> 2]
    /\ snapshot = [r \in Replica |->
          CASE MaxRaftState = 1 \/ MaxRaftState = 2 -> [index |-> 2, kv |-> First]
            [] OTHER -> [index |-> 0, kv |-> EmptyKV]]
    /\ noopAppliedTerm = [r \in Replica |-> 1]
    /\ lastNoopTerm = [r \in Replica |-> IF IsLeader(r) THEN 1 ELSE 0]
    /\ lastProposed = [r \in Replica |-> IF IsLeader(r) THEN 1 ELSE 0]
    /\ migrateProposed = [r \in Replica |-> {}]
    /\ gcProposed = [r \in Replica |-> {}]
    /\ pull = [r \in Replica |-> None]
    /\ gc = [r \in Replica |-> None]
    /\ clerk = [c \in Client |-> NewShardClerk]
    /\ acked = {}
    /\ faults = 0

SpecServing == InitServing /\ [][Next]_vars
LiveServing == SpecServing /\ Fairness
=============================================================================
