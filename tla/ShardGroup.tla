----------------------------- MODULE ShardGroup -----------------------------
(***************************************************************************)
(* Stage 5 of the lab: shard groups (05-sharded-kv/group_server.go) that   *)
(* hand shards to each other as the controller's configurations change,    *)
(* and the clerks that call them (group_clerk.go).                         *)
(*                                                                         *)
(* A group is a set of replicas over one Raft log.  What Raft guarantees   *)
(* is taken from module Raft's results: committed entries are never lost   *)
(* and every replica applies them in log order, at its own pace; entries   *)
(* that are not committed may be lost when the leader changes.             *)
(*                                                                         *)
(* A value is represented by the writes that made it, in order: Put and    *)
(* Append are functions of that history and of the write.  A shard stands  *)
(* for one key of it.                                                      *)
(***************************************************************************)
EXTENDS Integers, Sequences, FiniteSets

CONSTANTS
    Group,        \* group ids
    Replica,      \* the GroupServers of all groups
    GroupOf,      \* each replica's gid
    Shard,        \* shards, each with one key
    Client,       \* ShardClerks
    Nobody,       \* gid 0: the shard was never assigned
    None,         \* no entry in a map, no call in progress
    Configs,      \* the controller's configs 1, 2, ...: each maps shards to gids
    MaxRaftState, \* applied entries that trigger a snapshot; 0 (-1 there): never
    MaxSeq,       \* bound: writes per client
    ReadFrom,     \* bound: a client makes as many writes before its first read
    Unstable,     \* bound: the groups whose leader may change, once their log is
    ElectFrom,    \*        as long as this
    MaxFaults     \* bound: leader changes, restarts and calls that time out

ASSUME GroupAssumption ==
    /\ GroupOf \in [Replica -> Group]
    /\ \A g \in Group : \E r \in Replica : GroupOf[r] = g
    /\ Nobody \notin Group /\ None \notin Group \cup Replica \cup Shard
ASSUME ConfigAssumption == Configs \in Seq([Shard -> Group \cup {Nobody}]) /\ Configs # <<>>
ASSUME BoundAssumption == MaxSeq \in Nat /\ MaxFaults \in Nat /\ MaxRaftState \in Nat

VARIABLES
    latest,     \* number of the controller's newest config
    log,        \* per group: its Raft log, as the leader has it
    commit,     \* per group: how much of log is committed
    leader,     \* per group: the replica that is Leader
    term,       \* per group: the term it is Leader of
    kv,         \* per replica: store, duplicateTable, cfg, migrating, leaving
    applied,    \* per replica: index of the last entry applied
    snapshot,   \* per replica: the persisted groupSnapshot and its index
    noopAppliedTerm, \* per replica: the term of the last no-op applied
    lastNoopTerm,    \* per replica: noopLoop's local variable
    lastProposed,    \* per replica: configPollLoop's local variable
    migrateProposed, \* per replica: migrationLoop's local "proposed"
    gcProposed,      \* per replica: gcLoop's local "proposed"
    pull,       \* per replica: where migrationLoop's goroutine is
    gc,         \* per replica: the shard gcLoop is about to propose, or None
    clerk,      \* per client: its outstanding call and where it is served
    acked,      \* history: the writes clerks have returned from
    faults      \* faults so far

raftVars == <<log, commit, leader, term>>
stateVars == <<kv, applied, snapshot, noopAppliedTerm>>
loopVars == <<lastNoopTerm, lastProposed, migrateProposed, gcProposed, pull, gc>>
vars == <<latest, raftVars, stateVars, loopVars, clerk, acked, faults>>

Write == [client : Client, seq : 1 .. MaxSeq]
Owner(n, s) == IF n = 0 THEN Nobody ELSE Configs[n][s]
Replicas(g) == {r \in Replica : GroupOf[r] = g}
IsLeader(r) == leader[GroupOf[r]] = r
Has(seq, x) == \E i \in DOMAIN seq : seq[i] = x

EmptyKV == [store |-> [s \in Shard |-> <<>>], duplicateTable |-> [c \in Client |-> 0],
            cfg |-> 0, migrating |-> [s \in Shard |-> None],
            leaving |-> [s \in Shard |-> None]]

\* A clerk that has fetched the first config and has nothing to do.
NewShardClerk == [pc |-> "idle", seq |-> 0, cfg |-> 1, shard |-> None,
                  at |-> None, term |-> 0, index |-> 0]

\* NewGroupServer on fresh nodes after a first election (the replicas of a
\* group are alike: any of them), the clerks created in the first config.
Init ==
    /\ latest = 1
    /\ log = [g \in Group |-> <<>>]
    /\ commit = [g \in Group |-> 0]
    /\ leader = [g \in Group |-> CHOOSE r \in Replica : GroupOf[r] = g]
    /\ term = [g \in Group |-> 1]
    /\ kv = [r \in Replica |-> EmptyKV]
    /\ applied = [r \in Replica |-> 0]
    /\ snapshot = [r \in Replica |-> [index |-> 0, kv |-> EmptyKV]]
    /\ noopAppliedTerm = [r \in Replica |-> 0]
    /\ lastNoopTerm = [r \in Replica |-> 0]
    /\ lastProposed = [r \in Replica |-> 0]
    /\ migrateProposed = [r \in Replica |-> {}]
    /\ gcProposed = [r \in Replica |-> {}]
    /\ pull = [r \in Replica |-> None]
    /\ gc = [r \in Replica |-> None]
    /\ clerk = [c \in Client |-> NewShardClerk]
    /\ acked = {}
    /\ faults = 0

\* The controller makes the next config (Join, Leave or Move).
Reconfigure ==
    /\ latest < Len(Configs)
    /\ latest' = latest + 1
    /\ UNCHANGED <<raftVars, stateVars, loopVars, clerk, acked, faults>>

(***************************************************************************)
(* Raft, as a group uses it.                                               *)
(***************************************************************************)

\* Propose succeeds on the leader only.
Propose(r, op) ==
    /\ log' = [log EXCEPT ![GroupOf[r]] = Append(@, op)]
    /\ UNCHANGED <<commit, leader, term>>

\* Another election: entries that are not committed survive as far as the
\* winner has them.  A node that is not Leader for an election timeout has
\* ticked many times meanwhile and its loops have forgotten what they proposed.
LeaderChange(g, r) ==
    /\ g \in Unstable /\ Len(log[g]) >= ElectFrom
    /\ faults < MaxFaults
    /\ faults' = faults + 1
    /\ term' = [term EXCEPT ![g] = @ + 1]
    /\ GroupOf[r] = g
    /\ \E k \in commit[g] .. Len(log[g]) : log' = [log EXCEPT ![g] = SubSeq(@, 1, k)]
    /\ leader' = [leader EXCEPT ![g] = r]
    /\ lastProposed' = [q \in Replica |-> IF q \in Replicas(g) THEN 0 ELSE lastProposed[q]]
    /\ migrateProposed' = [q \in Replica |-> IF q \in Replicas(g) THEN {} ELSE migrateProposed[q]]
    /\ gcProposed' = [q \in Replica |-> IF q \in Replicas(g) THEN {} ELSE gcProposed[q]]
    /\ UNCHANGED <<latest, lastNoopTerm, commit, stateVars, pull, gc, clerk, acked>>

(***************************************************************************)
(* applyLoop: what one committed entry does to a replica.                  *)
(***************************************************************************)

\* ownsLocked: the config says so and the shard's data has arrived.
Owns(g, st, s) == Owner(st.cfg, s) = g /\ st.migrating[s] = None

\* A Config entry counts only if it is exactly the next one.
ApplyConfig(g, st, n) ==
    LET gained(s) == Owner(n, s) = g /\ Owner(st.cfg, s) \notin {g, Nobody}
        lost(s)   == Owner(st.cfg, s) = g /\ Owner(n, s) \notin {g, Nobody}
    IN IF n # st.cfg + 1 THEN st
       ELSE [st EXCEPT
               !.cfg = n,
               !.migrating = [s \in Shard |-> IF gained(s) THEN Owner(st.cfg, s) ELSE @[s]],
               !.leaving = [s \in Shard |-> IF lost(s) THEN Owner(n, s) ELSE @[s]]]

\* Mutant: the donor's duplicate table stays behind.
MergeDup_mine(mine, theirs) == mine

MergeDup(mine, theirs) ==
    [c \in Client |-> IF theirs[c] > mine[c] THEN theirs[c] ELSE mine[c]]

\* An absent key is not part of the pulled data and leaves the store alone.
ApplyMigrate(st, op) ==
    IF st.migrating[op.shard] = None THEN st
    ELSE [st EXCEPT !.store[op.shard] = IF op.data = <<>> THEN @ ELSE op.data,
                    !.duplicateTable = MergeDup(@, op.dup),
                    !.migrating[op.shard] = None]

ApplyGC(st, op) ==
    IF st.leaving[op.shard] = None THEN st
    ELSE [st EXCEPT !.store[op.shard] = <<>>, !.leaving[op.shard] = None]

IsNew(st, op) == op.seq > st.duplicateTable[op.client]

ApplyWrite(g, st, op) ==
    IF ~Owns(g, st, op.shard) \/ ~IsNew(st, op) THEN st
    ELSE [st EXCEPT !.store[op.shard] = Append(@, [client |-> op.client, seq |-> op.seq]),
                    !.duplicateTable[op.client] = op.seq]

Applied(g, st, op) ==
    CASE op.type = "Config"  -> ApplyConfig(g, st, op.num)
      [] op.type = "Migrate" -> ApplyMigrate(st, op)
      [] op.type = "GC"      -> ApplyGC(st, op)
      [] op.type = "Write"   -> ApplyWrite(g, st, op)
      [] op.type = "Noop"    -> st

Back(ck, pc) == [ck EXCEPT !.pc = pc, !.at = None, !.term = 0, !.index = 0]

\* What a PutAppend that waits at this index answers, and what its clerk does:
\* return, ask the controller again, or try again.
Answer(ck, c, op, owned) ==
    IF op.type # "Write" \/ op.client # c \/ op.seq # ck.seq
    THEN Back(ck, "call")
    ELSE IF owned THEN Back(ck, "idle")
                  ELSE [Back(ck, "call") EXCEPT !.cfg = latest]

applyLoop(r) ==
    LET g  == GroupOf[r]
        i  == applied[r] + 1
        op == log[g][i]
        st == Applied(g, kv[r], op)
        waiting(c) == clerk[c].pc = "wait" /\ clerk[c].at = r /\ clerk[c].index = i
        owned == op.type = "Write" /\ Owns(g, kv[r], op.shard)
    IN /\ i <= Len(log[g])
       /\ commit' = [commit EXCEPT ![g] = IF i > @ THEN i ELSE @]
       /\ kv' = [kv EXCEPT ![r] = st]
       /\ applied' = [applied EXCEPT ![r] = i]
       /\ noopAppliedTerm' = [noopAppliedTerm EXCEPT ![r] =
              IF op.type = "Noop" THEN op.term ELSE @]
       /\ snapshot' = [snapshot EXCEPT ![r] =
              IF MaxRaftState # 0 /\ i - @.index >= MaxRaftState
              THEN [index |-> i, kv |-> st] ELSE @]
       /\ clerk' = [c \in Client |->
              IF waiting(c) THEN Answer(clerk[c], c, op, owned) ELSE clerk[c]]
       /\ acked' = acked \cup
              {[shard |-> op.shard, client |-> c, seq |-> clerk[c].seq] :
                   c \in {d \in Client : waiting(d) /\ clerk'[d].pc = "idle"}}
       /\ UNCHANGED <<latest, log, leader, term, loopVars, faults>>

\* Mutant: the index of the snapshot is not taken over.
restoreSnapshot_stay(r) ==
    LET sent == snapshot[leader[GroupOf[r]]]
    IN /\ ~IsLeader(r)
       /\ sent.index > applied[r]
       /\ kv' = [kv EXCEPT ![r] = sent.kv]
       /\ snapshot' = [snapshot EXCEPT ![r] = sent]
       /\ UNCHANGED <<applied, latest, noopAppliedTerm, raftVars, loopVars, clerk, acked, faults>>

\* applyLoop on a snapshot its Raft node was sent by the leader.
restoreSnapshot(r) ==
    LET sent == snapshot[leader[GroupOf[r]]]
    IN /\ ~IsLeader(r)
       /\ sent.index > applied[r]
       /\ kv' = [kv EXCEPT ![r] = sent.kv]
       /\ applied' = [applied EXCEPT ![r] = sent.index]
       /\ snapshot' = [snapshot EXCEPT ![r] = sent]
       /\ UNCHANGED <<latest, noopAppliedTerm, raftVars, loopVars, clerk, acked, faults>>

\* A replica that is not the leader stops and is constructed again from its
\* snapshot; the log after the snapshot is applied once more.
Restart(r) ==
    /\ faults < MaxFaults
    /\ faults' = faults + 1
    /\ ~IsLeader(r)
    /\ kv' = [kv EXCEPT ![r] = snapshot[r].kv]
    /\ applied' = [applied EXCEPT ![r] = snapshot[r].index]
    /\ noopAppliedTerm' = [noopAppliedTerm EXCEPT ![r] = 0]
    /\ lastNoopTerm' = [lastNoopTerm EXCEPT ![r] = 0]
    /\ pull' = [pull EXCEPT ![r] = None]
    /\ gc' = [gc EXCEPT ![r] = None]
    /\ clerk' = [c \in Client |->
          IF clerk[c].at # r THEN clerk[c]
          ELSE Back(clerk[c], IF clerk[c].pc = "wait" THEN "call" ELSE "idle")]
    /\ UNCHANGED <<latest, raftVars, snapshot, lastProposed, migrateProposed,
                   gcProposed, acked>>

(***************************************************************************)
(* The background loops of a leader.                                       *)
(***************************************************************************)

\* noopLoop: one no-op in every term the node leads.
noopLoop(r) ==
    LET t == term[GroupOf[r]]
    IN /\ IsLeader(r)
       /\ lastNoopTerm[r] # t
       /\ Propose(r, [type |-> "Noop", term |-> t])
       /\ lastNoopTerm' = [lastNoopTerm EXCEPT ![r] = t]
       /\ UNCHANGED <<latest, stateVars, lastProposed, migrateProposed, gcProposed,
                      pull, gc, clerk, acked, faults>>

\* configPollLoop: exactly the next config, once.
configPoll(r) ==
    LET next == kv[r].cfg + 1
    IN /\ IsLeader(r)
       /\ next # lastProposed[r]
       /\ next <= latest
       /\ Propose(r, [type |-> "Config", num |-> next])
       /\ lastProposed' = [lastProposed EXCEPT ![r] = next]
       /\ UNCHANGED <<latest, lastNoopTerm, stateVars, migrateProposed, gcProposed, pull, gc,
                      clerk, acked, faults>>

\* migrationLoop reads what is missing and the config number under the lock.
migrationTick(r, s) ==
    /\ IsLeader(r)
    /\ pull[r] = None
    /\ kv[r].migrating[s] # None
    /\ s \notin migrateProposed[r]
    /\ pull' = [pull EXCEPT ![r] = [step |-> "ask", shard |-> s,
                                    from |-> kv[r].migrating[s], num |-> kv[r].cfg]]
    /\ UNCHANGED <<latest, lastNoopTerm, raftVars, stateVars, lastProposed, migrateProposed,
                   gcProposed, gc, clerk, acked, faults>>

\* Mutant: the donor answers before it has given the shard up.
PullReady_anyConfig(st, s, num) == st.migrating[s] = None

PullReady(st, s, num) == st.cfg >= num /\ st.migrating[s] = None

\* Some replica of the donor answers, whether or not it is the leader there.
Pull(r, d) ==
    /\ pull[r] # None
    /\ pull[r].step = "ask"
    /\ GroupOf[d] = pull[r].from
    /\ PullReady(kv[d], pull[r].shard, pull[r].num)
    /\ pull' = [pull EXCEPT ![r] = [step |-> "got", shard |-> @.shard,
                                    data |-> kv[d].store[@.shard],
                                    dup |-> kv[d].duplicateTable]]
    /\ UNCHANGED <<latest, lastNoopTerm, raftVars, stateVars, lastProposed, migrateProposed,
                   gcProposed, gc, clerk, acked, faults>>

\* No replica of the donor is ready; the next tick looks again.
pullNotReady(r) ==
    /\ pull[r] # None
    /\ pull[r].step = "ask"
    /\ \A d \in Replicas(pull[r].from) : ~PullReady(kv[d], pull[r].shard, pull[r].num)
    /\ pull' = [pull EXCEPT ![r] = None]
    /\ UNCHANGED <<latest, lastNoopTerm, raftVars, stateVars, lastProposed, migrateProposed,
                   gcProposed, gc, clerk, acked, faults>>

\* The pulled shard is proposed, if the node still is Leader.
proposeMigrate(r) ==
    /\ pull[r] # None
    /\ pull[r].step = "got"
    /\ \/ /\ IsLeader(r)
          /\ Propose(r, [type |-> "Migrate", shard |-> pull[r].shard,
                         data |-> pull[r].data, dup |-> pull[r].dup])
          /\ migrateProposed' = [migrateProposed EXCEPT ![r] = @ \cup {pull[r].shard}]
       \/ /\ ~IsLeader(r)
          /\ UNCHANGED <<raftVars, migrateProposed>>
    /\ pull' = [pull EXCEPT ![r] = None]
    /\ UNCHANGED <<latest, lastNoopTerm, stateVars, lastProposed, gcProposed, gc, clerk, acked, faults>>

\* Mutant: the recipient's config alone decides.
HasShard_early(d, s) == Owner(kv[d].cfg, s) = GroupOf[d]

HasShard(d, s) == Owns(GroupOf[d], kv[d], s)

\* gcLoop: some replica of the recipient says that it has the shard.
recipientReady(r, s, d) ==
    /\ IsLeader(r)
    /\ gc[r] = None
    /\ kv[r].leaving[s] # None
    /\ s \notin gcProposed[r]
    /\ GroupOf[d] = kv[r].leaving[s]
    /\ HasShard(d, s)
    /\ gc' = [gc EXCEPT ![r] = s]
    /\ UNCHANGED <<latest, lastNoopTerm, raftVars, stateVars, lastProposed, migrateProposed,
                   gcProposed, pull, clerk, acked, faults>>

proposeGC(r) ==
    /\ gc[r] # None
    /\ \/ /\ IsLeader(r)
          /\ Propose(r, [type |-> "GC", shard |-> gc[r]])
          /\ gcProposed' = [gcProposed EXCEPT ![r] = @ \cup {gc[r]}]
       \/ /\ ~IsLeader(r)
          /\ UNCHANGED <<raftVars, gcProposed>>
    /\ gc' = [gc EXCEPT ![r] = None]
    /\ UNCHANGED <<latest, lastNoopTerm, stateVars, lastProposed, migrateProposed, pull,
                   clerk, acked, faults>>

(***************************************************************************)
(* ShardClerk's calls and the handlers PutAppend and Get.                  *)
(***************************************************************************)

\* A new write; a clerk has one at a time.
putAppend(c, s) ==
    /\ clerk[c].pc = "idle"
    /\ clerk[c].seq < MaxSeq
    /\ clerk' = [clerk EXCEPT ![c].pc = "call", ![c].seq = @ + 1, ![c].shard = s]
    /\ UNCHANGED <<latest, raftVars, stateVars, loopVars, acked, faults>>

\* The replica passes its own ownership check and, as Leader, proposes.
PutAppend(c, r) ==
    LET s == clerk[c].shard
    IN /\ clerk[c].pc = "call"
       /\ GroupOf[r] = Owner(clerk[c].cfg, s)
       /\ IsLeader(r)
       /\ Owns(GroupOf[r], kv[r], s)
       /\ Propose(r, [type |-> "Write", shard |-> s, client |-> c, seq |-> clerk[c].seq])
       /\ clerk' = [clerk EXCEPT ![c].pc = "wait", ![c].at = r,
                                 ![c].term = term[GroupOf[r]],
                                 ![c].index = Len(log[GroupOf[r]]) + 1]
       /\ UNCHANGED <<latest, stateVars, loopVars, acked, faults>>

\* A replica refuses for want of the shard: the clerk asks the controller.
WrongGroup(c, r) ==
    /\ clerk[c].pc = "call"
    /\ GroupOf[r] = Owner(clerk[c].cfg, clerk[c].shard)
    /\ ~Owns(GroupOf[r], kv[r], clerk[c].shard)
    /\ clerk[c].cfg # latest
    /\ clerk' = [clerk EXCEPT ![c].cfg = latest]
    /\ UNCHANGED <<latest, raftVars, stateVars, loopVars, acked, faults>>

StillLeads(ck) == IsLeader(ck.at) /\ term[GroupOf[ck.at]] = ck.term

\* proposeAndWait gives up: the node is not Leader of that term any more, or
\* the deadline passed.  The write may be in the log all the same.
giveUp(c) ==
    /\ clerk[c].pc = "wait"
    /\ \/ ~StillLeads(clerk[c]) /\ UNCHANGED faults
       \/ StillLeads(clerk[c]) /\ faults < MaxFaults /\ faults' = faults + 1
    /\ clerk' = [clerk EXCEPT ![c] = Back(@, "call")]
    /\ UNCHANGED <<latest, raftVars, stateVars, loopVars, acked>>

\* A Get finds the node Leader and notes the term; the rest happens later,
\* under the lock.  A Get that is refused leaves nothing behind but the clerk's
\* config, so that its retry is another Get.
Get(c, r, s) ==
    /\ clerk[c].pc = "idle" /\ clerk[c].seq >= ReadFrom
    /\ GroupOf[r] = Owner(clerk[c].cfg, s)
    /\ IsLeader(r)
    /\ clerk' = [clerk EXCEPT ![c].pc = "reading", ![c].shard = s, ![c].at = r,
                              ![c].term = term[GroupOf[r]]]
    /\ UNCHANGED <<latest, raftVars, stateVars, loopVars, acked, faults>>

\* Mutant: the config says so, but the shard's data may still be on its way.
Serves_config(r, t, s) ==
    noopAppliedTerm[r] = t /\ Owner(kv[r].cfg, s) = GroupOf[r]

Serves(r, t, s) == noopAppliedTerm[r] = t /\ Owns(GroupOf[r], kv[r], s)

Reads(ck) == ck.pc = "reading" /\ Serves(ck.at, ck.term, ck.shard)

\* The clerk has the value, or an error: for want of the shard it asks the
\* controller.
GetReply(c) ==
    LET ck == clerk[c]
        wrongGroup == noopAppliedTerm[ck.at] = ck.term /\ ~Owns(GroupOf[ck.at], kv[ck.at], ck.shard)
    IN /\ ck.pc = "reading"
       /\ clerk' = [clerk EXCEPT ![c] =
              [Back(ck, "idle") EXCEPT !.cfg = IF wrongGroup THEN latest ELSE @]]
       /\ UNCHANGED <<latest, raftVars, stateVars, loopVars, acked, faults>>

Next ==
    \/ Reconfigure
    \/ \E g \in Group, r \in Replica : LeaderChange(g, r)
    \/ \E r \in Replica :
          \/ applyLoop(r) \/ restoreSnapshot(r) \/ Restart(r)
          \/ noopLoop(r) \/ configPoll(r)
          \/ pullNotReady(r) \/ proposeMigrate(r) \/ proposeGC(r)
          \/ \E s \in Shard : migrationTick(r, s)
          \/ \E d \in Replica : Pull(r, d)
          \/ \E s \in Shard, d \in Replica : recipientReady(r, s, d)
    \/ \E c \in Client :
          \/ \E s \in Shard : putAppend(c, s) \/ \E r \in Replica : Get(c, r, s)
          \/ \E r \in Replica : PutAppend(c, r) \/ WrongGroup(c, r)
          \/ giveUp(c) \/ GetReply(c)

Spec == Init /\ [][Next]_vars

\* What runs by itself: apply loops, tickers and clerks.  Nothing forces an
\* election, a restart, a new config or a new write.
Fairness ==
    /\ \A r \in Replica :
          /\ WF_vars(applyLoop(r))
          /\ WF_vars(noopLoop(r))
          /\ WF_vars(configPoll(r))
          /\ WF_vars(\E s \in Shard : migrationTick(r, s))
          /\ WF_vars(pullNotReady(r) \/ \E d \in Replica : Pull(r, d))
          /\ WF_vars(proposeMigrate(r))
          /\ WF_vars(\E s \in Shard, d \in Replica : recipientReady(r, s, d))
          /\ WF_vars(proposeGC(r))
    /\ \A c \in Client :
          /\ WF_vars(\E r \in Replica : PutAppend(c, r) \/ WrongGroup(c, r))
          /\ WF_vars(giveUp(c)) /\ WF_vars(GetReply(c))

LiveSpec == Spec /\ Fairness

(***************************************************************************)
(* Properties.                                                             *)
(***************************************************************************)

Map == [Shard -> Group \cup {None}]
KV == [store : [Shard -> Seq(Write)], duplicateTable : [Client -> 0 .. MaxSeq],
       cfg : 0 .. Len(Configs), migrating : Map, leaving : Map]
Op == [type : {"Config"}, num : 1 .. Len(Configs)]
      \cup [type : {"Migrate"}, shard : Shard, data : Seq(Write), dup : [Client -> 0 .. MaxSeq]]
      \cup [type : {"GC"}, shard : Shard]
      \cup [type : {"Noop"}, term : 1 .. MaxFaults + 1]
      \cup [type : {"Write"}, shard : Shard, client : Client, seq : 1 .. MaxSeq]

\* Every field of every replica, log and clerk has its type, indices stay
\* within the log, and no config is adopted that was not made.
TypeOK ==
    /\ latest \in 1 .. Len(Configs)
    /\ log \in [Group -> Seq(Op)]
    /\ commit \in [Group -> Nat] /\ \A g \in Group : commit[g] <= Len(log[g])
    /\ leader \in [Group -> Replica] /\ \A g \in Group : GroupOf[leader[g]] = g
    /\ term \in [Group -> 1 .. MaxFaults + 1]
    /\ kv \in [Replica -> KV] /\ \A r \in Replica : kv[r].cfg <= latest
    /\ applied \in [Replica -> Nat]
    /\ \A r \in Replica : applied[r] <= commit[GroupOf[r]]
    /\ snapshot \in [Replica -> [index : Nat, kv : KV]]
    /\ \A r \in Replica : snapshot[r].index <= applied[r]
    /\ noopAppliedTerm \in [Replica -> 0 .. MaxFaults + 1]
    /\ lastNoopTerm \in [Replica -> 0 .. MaxFaults + 1]
    /\ lastProposed \in [Replica -> 0 .. Len(Configs)]
    /\ migrateProposed \in [Replica -> SUBSET Shard]
    /\ gcProposed \in [Replica -> SUBSET Shard]
    /\ pull \in [Replica -> {None}
          \cup [step : {"ask"}, shard : Shard, from : Group, num : 1 .. Len(Configs)]
          \cup [step : {"got"}, shard : Shard, data : Seq(Write), dup : [Client -> 0 .. MaxSeq]]]
    /\ gc \in [Replica -> Shard \cup {None}]
    /\ clerk \in [Client -> [pc : {"idle", "call", "wait", "reading"}, seq : 0 .. MaxSeq,
                             cfg : 1 .. Len(Configs), shard : Shard \cup {None},
                             at : Replica \cup {None}, term : 0 .. MaxFaults + 1, index : Nat]]
    /\ acked \subseteq [shard : Shard, client : Client, seq : 1 .. MaxSeq]

\* What the group as a whole has done: a replica that has applied all of it.
UpToDate(r) == applied[r] = commit[GroupOf[r]]

\* No acknowledged write is lost by moving a shard: a group that serves the
\* shard has every write any clerk has returned from, made there or before
\* at an earlier owner.  This is what Pull's config gate, Migrate and the
\* HasShard question before a GC are for.
OwnerHasAcked ==
    \A r \in Replica, s \in Shard :
        UpToDate(r) /\ Owns(GroupOf[r], kv[r], s) =>
            \A w \in acked : w.shard = s =>
                Has(kv[r].store[s], [client |-> w.client, seq |-> w.seq])

\* A retried write takes effect once, also when the retry reaches the next
\* owner of the shard: the duplicate table travels with the data.
ExactlyOnce ==
    \A r \in Replica, s \in Shard : \A i, j \in DOMAIN kv[r].store[s] :
        kv[r].store[s][i] = kv[r].store[s][j] => i = j

\* A Get that is about to be served returns the clerk's own acknowledged
\* writes, whichever group it made them at and even if the leader that serves
\* it lags behind its followers or was deposed after it was asked (Get's gate
\* on the no-op and on ownership).  For writes of other clerks this is false: a
\* follower may have handed the shard on while its leader still serves it.
GetsOwnWrites ==
    \A c \in Client : Reads(clerk[c]) =>
        \A w \in acked : w.client = c /\ w.shard = clerk[c].shard =>
            Has(kv[clerk[c].at].store[w.shard], [client |-> c, seq |-> w.seq])

\* Two groups never take writes for one shard, whatever configs they are in.
OneOwner ==
    \A q, r \in Replica, s \in Shard :
        /\ UpToDate(q) /\ Owns(GroupOf[q], kv[q], s)
        /\ UpToDate(r) /\ Owns(GroupOf[r], kv[r], s)
        => GroupOf[q] = GroupOf[r]

\* A shard does not stay unavailable: the owner in the newest config gets it
\* and serves it.
MigrationCompletes ==
    \A s \in Shard :
        [](latest = Len(Configs) =>
            <>(LET g == Owner(latest, s) IN
               g # Nobody => Owns(g, kv[leader[g]], s)))
=============================================================================
