------------------------------- MODULE Ctrler -------------------------------
(***************************************************************************)
(* Stage 5's shard controller: a replicated history of configurations, and *)
(* the clerks that change it (ctrler.go, ctrler_clerk.go).                 *)
(***************************************************************************)
EXTENDS Commands, ShardConfig

CONSTANTS
    GID,           \* the group ids that clerks name
    MovedShards,   \* the shards they move
    Mover,         \* the clerks that move shards; the others join and leave
    MaxChanges,    \* bound: the joins and leaves of a clerk
    MaxMoves       \* bound: the moves of a clerk

ASSUME CtrlerAssumption ==
    /\ GID \subseteq Nat \ {0} /\ IsFiniteSet(GID) /\ MovedShards \subseteq Shard /\ Mover \subseteq Clerk
    /\ MaxChanges \in Nat /\ MaxMoves \in Nat

VARIABLES configs, duplicateTable   \* per replica
ctrlerVars == <<configs, duplicateTable>>

NewCtrler == [configs |-> <<ZeroConfig>>, duplicateTable |-> [c \in Clerk |-> 0]]

CtrlerInit ==
    /\ configs = [s \in Server |-> NewCtrler.configs]
    /\ duplicateTable = [s \in Server |-> NewCtrler.duplicateTable]

latestLocked(s) == configs[s][Len(configs[s])]

\* Version num, or the latest if there is none.
Query(s, num) ==
    IF num < 0 \/ num >= Len(configs[s]) THEN latestLocked(s) ELSE configs[s][num + 1]

(***************************************************************************)
(* The state machine.                                                      *)
(***************************************************************************)
Changed(cfg, op) ==
    CASE op.type = "Join"  -> Join(cfg, op.gids)
      [] op.type = "Leave" -> Leave(cfg, op.gids)
      [] op.type = "Move"  -> Move(cfg, op.shard, op.gid)

\* Mutant: no duplicate table.
NotSeen_always(s, op) == TRUE

NotSeen(s, op) == op.seq > duplicateTable[s][op.clerk]

applyLoop(s) ==
    LET op == log[applied[s] + 1]
    IN /\ Deliver(s, "OK")
       /\ IF NotSeen(s, op)
          THEN /\ configs' = [configs EXCEPT ![s] = Append(@, Changed(latestLocked(s), op))]
               /\ duplicateTable' = [duplicateTable EXCEPT ![s][op.clerk] = op.seq]
          ELSE UNCHANGED ctrlerVars

\* There are no snapshots: the log is applied again from its first entry.
RestartCtrler(s) ==
    /\ Crash(s)
    /\ configs' = [configs EXCEPT ![s] = NewCtrler.configs]
    /\ duplicateTable' = [duplicateTable EXCEPT ![s] = NewCtrler.duplicateTable]

(***************************************************************************)
(* The clerks.  They try the replicas in turn: any may be the one asked.   *)
(***************************************************************************)
Member(c, type, gids) ==
    /\ c \notin Mover /\ seq[c] < MaxChanges
    /\ Issue(c, [clerk |-> c, seq |-> seq[c] + 1, type |-> type, gids |-> gids])
JoinCall(c) == \E gids \in SUBSET GID \ {{}} : Member(c, "Join", gids)
LeaveCall(c) == \E g \in GID : Member(c, "Leave", {g})

\* Mutant: Move does not look the group up.
Known_any(s, gid) == TRUE

\* Each try of a Move is checked against the replica's latest config, before
\* anything asks whether the replica leads.
Known(s, gid) == gid \in latestLocked(s).groups

\* ErrInvalidArgs: CtrlerClerk.Move panics.
Rejected(c) ==
    /\ call' = [call EXCEPT ![c].pc = "panicked"]
    /\ UNCHANGED <<kind, log, applied, inFlight, seq, faults>>

MoveCall(c) ==
    /\ c \in Mover /\ seq[c] < MaxMoves
    /\ \E shard \in MovedShards, g \in GID, s \in Server :
          \/ Known(s, g) /\ Issue(c, [clerk |-> c, seq |-> seq[c] + 1, type |-> "Move",
                                      shard |-> shard, gid |-> g])
          \/ ~Known(s, g) /\ Idle(c) /\ Rejected(c)

RetryCall(c) ==
    LET op == call[c].op
    IN \/ Retry(c) /\ (op.type = "Move" => \E s \in Server : Known(s, op.gid))
       \/ /\ call[c].pc = "wait" /\ op.type = "Move"
          /\ \E s \in Server : ~Known(s, op.gid)
          /\ Rejected(c)

CtrlerNext ==
    \/ \E s \in Server : applyLoop(s) \/ RestartCtrler(s)
    \/ /\ \/ Commit
          \/ \E c \in Clerk : JoinCall(c) \/ LeaveCall(c) \/ MoveCall(c) \/ RetryCall(c)
       /\ UNCHANGED ctrlerVars

(***************************************************************************)
(* Properties.                                                             *)
(***************************************************************************)

\* Each request makes one version, whatever was retried, replayed or restarted,
\* and all replicas give the same config for a version (ctrler.go: applyLoop,
\* Query).
OneVersionPerRequest ==
    kind = "shards" => \A s \in Server :
        /\ Len(configs[s]) = Len(Firsts(SubSeq(log, 1, applied[s]))) + 1
        /\ \A n \in 1 .. Len(configs[s]) : configs[s][n].num = n - 1
        /\ \A t \in Server, n \in 0 .. Len(configs[s]) - 1 :
              n < Len(configs[t]) => Query(s, n) = Query(t, n)

\* A Join or a Leave makes the replica's next version.
Rebalances(s) ==
    /\ Len(configs'[s]) > Len(configs[s])
    /\ log[applied[s] + 1].type \in {"Join", "Leave"}

\* After any sequence of joins, leaves and moves, the next join or leave spreads
\* the shards evenly over the members and leaves none elsewhere (config.go:
\* rebalance).
ChangeBalances ==
    [][\A s \in Server : Rebalances(s) => Balanced(latestLocked(s)'.shards, latestLocked(s)'.groups)]_configs

\* ... and moves no more shards than the loads it aims at force.
ChangeMovesFewest ==
    [][\A s \in Server : Rebalances(s) =>
          FewestMoves(latestLocked(s).shards, latestLocked(s)'.shards, latestLocked(s)'.groups)]_configs

\* A shard is on a group that is not a member only if the group has been one and
\* left between Move's check and its commit (ctrler.go: Move).
StrayHasLeft ==
    \A s \in Server, shard \in Shard :
        LET g == latestLocked(s).shards[shard]
        IN g # 0 => \E n \in 1 .. Len(configs[s]) : g \in configs[s][n].groups
=============================================================================
